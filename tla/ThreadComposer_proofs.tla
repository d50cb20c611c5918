----------------------- MODULE ThreadComposer_proofs -----------------------
(***************************************************************************)
(* Proofs about ThreadComposer: for any number of texts, messages and      *)
(* departures, a message the server never took is on its way or back in    *)
(* the composer until the user writes or sends something new.              *)
(***************************************************************************)
EXTENDS ThreadComposer, SequenceTheorems, TLAPS

\* Only the last send can be one the user has not written over; while it is on
\* its way the composer is empty and would take it back.
LastIsRestorable ==
  \A s \in Sends :
    /\ s < Len(sends) => s \in rewritten
    /\ s \in rewritten => ~sends[s].restorable
    /\ s \notin taken \union rewritten /\ sends[s].phase # "ended" =>
         sends[s].restorable /\ draft = NoText

\* The acceptance is read only of a send the server took.
AcceptedIsTaken == \A s \in Sends : sends[s].phase = "accepted" => s \in taken

ComposerInv == ComposerTypeOK /\ NoMessageLost /\ LastIsRestorable /\ AcceptedIsTaken

Unread == {"preparing", "posted"}

-----------------------------------------------------------------------------
(* Lemmas *)

\* What a change of one field leaves of a request.
LEMMA Unrestored ==
  ASSUME NEW r \in Request, NEW q, q = [r EXCEPT !.restorable = FALSE]
  PROVE  /\ q \in Request /\ q.restorable = FALSE
         /\ q.text = r.text /\ q.phase = r.phase
  BY DEF Request

LEMMA InPhase ==
  ASSUME NEW r \in Request, NEW p \in {"preparing", "posted", "accepted", "ended"},
         NEW q, q = [r EXCEPT !.phase = p]
  PROVE  /\ q \in Request /\ q.phase = p
         /\ q.text = r.text /\ q.restorable = r.restorable
  BY DEF Request

LEMMA HasLeft ==
  ASSUME NEW r \in Request, NEW q,
         q = [r EXCEPT !.left = TRUE, !.phase = IF @ = "accepted" THEN "ended" ELSE @]
  PROVE  /\ q \in Request /\ q.phase = IF r.phase = "accepted" THEN "ended" ELSE r.phase
         /\ q.text = r.text /\ q.restorable = r.restorable
  BY DEF Request

\* Sends are a list of requests, and a list changed at each place is one again.
LEMMA SendsAreList ==
  ASSUME ComposerTypeOK
  PROVE  /\ Len(sends) \in Nat /\ Sends = 1..Len(sends)
         /\ \A s \in Sends : sends[s] \in Request
  BY DEF ComposerTypeOK, Sends

LEMMA ListOver ==
  ASSUME ComposerTypeOK, NEW f, f = [s \in Sends |-> f[s]],
         \A s \in Sends : f[s] \in Request
  PROVE  f \in Seq(Request) /\ DOMAIN f = Sends /\ Len(f) = Len(sends)
<1>1. Len(sends) \in Nat /\ Sends = 1..Len(sends)
  BY SendsAreList
<1>2. f \in [1..Len(sends) -> Request]
  BY <1>1
<1> QED
  BY <1>1, <1>2, SeqDef

\* No send can be taken back any more, and nothing else about it changes.
LEMMA UnrestorableKeeps ==
  ASSUME ComposerTypeOK
  PROVE  /\ Unrestorable(sends) \in Seq(Request)
         /\ DOMAIN Unrestorable(sends) = Sends /\ Len(Unrestorable(sends)) = Len(sends)
         /\ \A s \in Sends : /\ Unrestorable(sends)[s].restorable = FALSE
                             /\ Unrestorable(sends)[s].text = sends[s].text
                             /\ Unrestorable(sends)[s].phase = sends[s].phase
<1> DEFINE f == Unrestorable(sends)
<1>1. f = [s \in Sends |-> [sends[s] EXCEPT !.restorable = FALSE]]
  BY DEF Unrestorable, Sends
<1>2. ASSUME NEW s \in Sends
      PROVE  /\ f[s] \in Request /\ f[s].restorable = FALSE
             /\ f[s].text = sends[s].text /\ f[s].phase = sends[s].phase
  <2>1. f[s] = [sends[s] EXCEPT !.restorable = FALSE]
    BY <1>1
  <2>2. sends[s] \in Request
    BY SendsAreList
  <2> QED
    BY <2>1, <2>2, Unrestored
<1>3. f = [s \in Sends |-> f[s]]
  BY <1>1
<1> HIDE DEF f
<1>4. f \in Seq(Request) /\ DOMAIN f = Sends /\ Len(f) = Len(sends)
  BY <1>2, <1>3, ListOver
<1> QED
  BY <1>2, <1>4 DEF f

\* One send changes, and keeps its text.
LEMMA OneChanges ==
  ASSUME ComposerTypeOK, NEW s \in Sends, NEW q \in Request, q.text = sends[s].text,
         NEW list \in Seq(Request), DOMAIN list = Sends, Len(list) = Len(sends),
         sends' = [list EXCEPT ![s] = q]
  PROVE  /\ sends' \in Seq(Request) /\ Sends' = Sends /\ Len(sends') = Len(sends)
         /\ sends'[s] = q
         /\ \A t \in Sends : t # s => sends'[t] = list[t]
<1>1. Len(sends) \in Nat /\ Sends = 1..Len(sends) /\ s \in 1..Len(list)
  BY SendsAreList
<1>2. sends' \in Seq(Request) /\ Len(sends') = Len(list)
      /\ \A t \in 1..Len(list) : sends'[t] = IF t = s THEN q ELSE list[t]
  BY <1>1, ExceptSeq
<1>3. Sends' = Sends
  BY <1>1, <1>2 DEF Sends
<1> QED
  BY <1>1, <1>2, <1>3

\* A send goes from one phase to another.
LEMMA PhaseChanges ==
  ASSUME ComposerTypeOK, NEW s \in Sends,
         NEW p \in {"preparing", "posted", "accepted", "ended"},
         sends' = [sends EXCEPT ![s].phase = p]
  PROVE  /\ sends' \in Seq(Request) /\ Sends' = Sends /\ Len(sends') = Len(sends)
         /\ sends'[s].phase = p
         /\ \A t \in Sends : /\ t # s => sends'[t] = sends[t]
                             /\ sends'[t].text = sends[t].text
                             /\ sends'[t].restorable = sends[t].restorable
<1> DEFINE q == [sends[s] EXCEPT !.phase = p]
<1>1. sends[s] \in Request
  BY SendsAreList
<1>2. /\ q \in Request /\ q.phase = p
      /\ q.text = sends[s].text /\ q.restorable = sends[s].restorable
  BY <1>1, InPhase
<1>3. sends' = [sends EXCEPT ![s] = q]
  OBVIOUS
<1> HIDE DEF q
<1>4. sends \in Seq(Request) /\ DOMAIN sends = Sends
  BY DEF ComposerTypeOK, Sends
<1>5. /\ sends' \in Seq(Request) /\ Sends' = Sends /\ Len(sends') = Len(sends)
      /\ sends'[s] = q
      /\ \A t \in Sends : t # s => sends'[t] = sends[t]
  BY <1>2, <1>3, <1>4, OneChanges
<1> QED
  BY <1>2, <1>5

-----------------------------------------------------------------------------
(* The invariant is inductive *)

LEMMA ComposerInitInv == ComposerInit => ComposerInv
<1> SUFFICES ASSUME ComposerInit PROVE ComposerInv
  OBVIOUS
<1>1. Sends = {} /\ sends \in Seq(Request)
  BY DEF ComposerInit, Sends
<1>2. ComposerTypeOK
  BY <1>1 DEF ComposerInit, ComposerTypeOK, NoText, NoSend, NoExchange
<1> QED
  BY <1>1, <1>2 DEF ComposerInv, NoMessageLost, LastIsRestorable, AcceptedIsTaken

\* A rejected send is back in the composer, or one after it is what counts.
LEMMA RejectedInv ==
  ASSUME ComposerInv, NEW s \in Sends, sends[s].phase \in Unread, Rejected(s),
         UNCHANGED <<texts, taken, rewritten>>
  PROVE  /\ sends' \in Seq(Request) /\ Sends' = Sends
         /\ \A t \in Sends : sends'[t].text = sends[t].text
         /\ draft' \in 0..texts
         /\ NoMessageLost' /\ LastIsRestorable' /\ AcceptedIsTaken'
<1> DEFINE list == IF Restored(s) = draft THEN sends ELSE Unrestorable(sends)
           r == [list[s] EXCEPT !.phase = "ended"]
           q == [r EXCEPT !.restorable = FALSE]
<1>1. /\ list \in Seq(Request) /\ DOMAIN list = Sends /\ Len(list) = Len(sends)
      /\ \A t \in Sends : /\ list[t] \in Request /\ list[t].text = sends[t].text
                          /\ list[t].phase = sends[t].phase
                          /\ list[t].restorable => sends[t].restorable
      /\ Restored(s) = draft => list = sends
  <2>1. sends \in Seq(Request) /\ DOMAIN sends = Sends
        /\ \A t \in Sends : sends[t] \in Request
    BY SendsAreList DEF ComposerInv, ComposerTypeOK, Sends
  <2>2. CASE Restored(s) = draft
    BY <2>1, <2>2
  <2>3. CASE Restored(s) # draft
    <3>1. list = Unrestorable(sends)
      BY <2>3
    <3>2. /\ list \in Seq(Request) /\ DOMAIN list = Sends /\ Len(list) = Len(sends)
          /\ \A t \in Sends : /\ list[t].restorable = FALSE
                              /\ list[t].text = sends[t].text
                              /\ list[t].phase = sends[t].phase
      BY <3>1, UnrestorableKeeps DEF ComposerInv
    <3>3. \A t \in Sends : list[t] \in Request
      BY <3>2, ElementOfSeq, SendsAreList DEF ComposerInv
    <3> QED
      BY <3>2, <3>3, <2>3
  <2> QED
    BY <2>2, <2>3
<1>2. sends' = [list EXCEPT ![s] = q] /\ draft' = Restored(s)
  BY <1>1 DEF Rejected
<1> HIDE DEF list
<1>3. r \in Request /\ r.phase = "ended" /\ r.text = sends[s].text
  BY <1>1, InPhase
<1> HIDE DEF r
<1>4. q \in Request /\ q.phase = "ended" /\ q.text = sends[s].text /\ q.restorable = FALSE
  BY <1>3, Unrestored
<1> HIDE DEF q
<1>5. /\ sends' \in Seq(Request) /\ Sends' = Sends /\ Len(sends') = Len(sends)
      /\ sends'[s] = q
      /\ \A t \in Sends : t # s => sends'[t] = list[t]
  BY <1>1, <1>2, <1>4, OneChanges DEF ComposerInv
<1>6. Len(sends) \in Nat /\ Sends = 1..Len(sends)
      /\ \A t \in Sends : sends[t].text \in Nat \ {NoText}
  BY SendsAreList DEF ComposerInv, Request
<1>7. \A t \in Sends : sends'[t].text = sends[t].text
  BY <1>1, <1>4, <1>5
<1>8. draft' \in 0..texts
  BY <1>2, <1>6 DEF Restored, ComposerInv, ComposerTypeOK
<1>9. s \notin taken \union rewritten => draft' = sends[s].text
  BY <1>2 DEF ComposerInv, LastIsRestorable, Restored, Unread
<1>10. NoMessageLost'
  <2> SUFFICES ASSUME NEW t \in Sends, t \notin taken \union rewritten,
                      sends'[t].phase = "ended"
               PROVE  draft' = sends'[t].text
    BY <1>5 DEF NoMessageLost
  <2>1. CASE t = s
    BY <2>1, <1>7, <1>9
  <2>2. CASE t # s
    <3>1. draft = sends[t].text /\ draft # NoText
      BY <2>2, <1>1, <1>5, <1>6 DEF ComposerInv, NoMessageLost
    <3> QED
      BY <3>1, <1>2, <1>7 DEF Restored
  <2> QED
    BY <2>1, <2>2
<1>11. LastIsRestorable'
  <2>1. ASSUME NEW t \in Sends
        PROVE  /\ t < Len(sends) => t \in rewritten
               /\ t \in rewritten => ~sends'[t].restorable
    BY <1>1, <1>4, <1>5 DEF ComposerInv, LastIsRestorable
  <2>2. ASSUME NEW t \in Sends, t \notin taken \union rewritten,
               sends'[t].phase # "ended"
        PROVE  sends'[t].restorable /\ draft' = NoText
    <3>1. t # s /\ sends'[t] = list[t]
      BY <2>2, <1>4, <1>5
    <3>2. sends[t].restorable /\ draft = NoText
      BY <2>2, <3>1, <1>1 DEF ComposerInv, LastIsRestorable
    <3>3. s < Len(sends)
      BY <2>2, <3>1, <1>6 DEF ComposerInv, LastIsRestorable
    <3>4. Restored(s) = draft
      BY <3>3 DEF ComposerInv, LastIsRestorable, Restored
    <3> QED
      BY <3>1, <3>2, <3>4, <1>1, <1>2
  <2> QED
    BY <2>1, <2>2, <1>5 DEF LastIsRestorable
<1>12. AcceptedIsTaken'
  BY <1>1, <1>4, <1>5 DEF ComposerInv, AcceptedIsTaken
<1> QED
  BY <1>5, <1>7, <1>8, <1>10, <1>11, <1>12

\* Whatever the user writes, every send before it is written over.
LEMMA WriteInv ==
  ASSUME ComposerInv, NEW text \in 0..texts', Write(text), texts' \in Nat, texts <= texts'
  PROVE  ComposerInv'
<1>1. /\ sends' \in Seq(Request) /\ Sends' = Sends /\ Len(sends') = Len(sends)
      /\ \A s \in Sends : /\ sends'[s].restorable = FALSE
                          /\ sends'[s].text = sends[s].text
                          /\ sends'[s].phase = sends[s].phase
  BY UnrestorableKeeps DEF ComposerInv, Write, Sends
<1>2. \A s \in Sends : sends[s].text \in Nat /\ sends[s].text <= texts
  BY SendsAreList DEF ComposerInv, ComposerTypeOK, Request
<1>3. ComposerTypeOK'
  <2>1. opened' \in BOOLEAN /\ (~opened' => current' = NoSend)
    BY DEF ComposerInv, ComposerTypeOK, Write
  <2>2. draft' \in 0..texts'
    BY DEF Write
  <2>3. \A s \in Sends : sends'[s].text <= texts'
    BY <1>1, <1>2 DEF ComposerInv, ComposerTypeOK
  <2>4. current' \in Sends \union {NoSend}
        /\ exchange' \in [send : Sends \union {NoSend}, error : BOOLEAN]
    BY DEF ComposerInv, ComposerTypeOK, Write, pageVars
  <2>5. (taken \union stopped \union failed \union rewritten)' \subseteq Sends
    BY DEF ComposerInv, ComposerTypeOK, Write
  <2> QED
    BY <1>1, <2>1, <2>2, <2>3, <2>4, <2>5 DEF ComposerTypeOK
<1>4. rewritten' = Sends /\ taken' = taken
  BY DEF Write
<1>5. NoMessageLost' /\ LastIsRestorable' /\ AcceptedIsTaken'
  BY <1>1, <1>4 DEF ComposerInv, NoMessageLost, LastIsRestorable, AcceptedIsTaken
<1> QED
  BY <1>3, <1>5 DEF ComposerInv

LEMMA TypeInv == ComposerInv /\ Type => ComposerInv'
<1> SUFFICES ASSUME ComposerInv, Type PROVE ComposerInv'
  OBVIOUS
<1>1. texts \in Nat /\ texts' = texts + 1 /\ Write(texts + 1)
  BY DEF Type, ComposerInv, ComposerTypeOK
<1> QED
  BY <1>1, WriteInv

LEMMA DeleteInv == ComposerInv /\ Delete => ComposerInv'
<1> SUFFICES ASSUME ComposerInv, Delete PROVE ComposerInv'
  OBVIOUS
<1>1. texts \in Nat /\ texts' = texts /\ Write(NoText) /\ NoText \in 0..texts
  BY DEF Delete, ComposerInv, ComposerTypeOK, NoText
<1> QED
  BY <1>1, WriteInv

\* The message that goes out is the last, and can be taken back.
LEMMA SubmitInv == ComposerInv /\ Submit => ComposerInv'
<1> SUFFICES ASSUME ComposerInv, Submit PROVE ComposerInv'
  OBVIOUS
<1> DEFINE list == Unrestorable(sends)
           n == Len(sends)
           q == [text |-> draft, phase |-> "preparing", restorable |-> TRUE, left |-> FALSE]
<1>1. /\ list \in Seq(Request) /\ DOMAIN list = Sends /\ Len(list) = n
      /\ \A s \in Sends : /\ list[s].restorable = FALSE
                          /\ list[s].text = sends[s].text
                          /\ list[s].phase = sends[s].phase
  BY UnrestorableKeeps DEF ComposerInv
<1>2. n \in Nat /\ Sends = 1..n /\ \A s \in Sends : sends[s] \in Request
  BY SendsAreList DEF ComposerInv
<1>3. /\ draft \in Nat \ {NoText} /\ draft <= texts /\ texts' = texts /\ texts \in Nat
      /\ opened' = opened /\ opened = TRUE
  BY DEF ComposerInv, ComposerTypeOK, Submit, NoText
<1>4. q \in Request /\ q.text = draft /\ q.restorable = TRUE /\ q.phase = "preparing"
  BY <1>3 DEF Request
<1>5. sends' = Append(list, q)
  BY DEF Submit
<1>6. /\ current' = n + 1 /\ exchange' = [send |-> n + 1, error |-> FALSE]
      /\ draft' = NoText /\ rewritten' = Sends
      /\ UNCHANGED <<taken, stopped, failed>>
  BY DEF Submit
<1> HIDE DEF list, q
<1>7. /\ sends' \in Seq(Request) /\ Len(sends') = n + 1
      /\ sends'[n + 1] = q
      /\ \A s \in 1..n : sends'[s] = list[s]
  BY <1>1, <1>2, <1>4, <1>5, AppendProperties
<1>8. Sends' = 1..(n + 1)
  BY <1>2, <1>7, LenProperties DEF Sends
<1> HIDE DEF n
<1>9. ComposerTypeOK'
  <2>1. \A s \in Sends' : sends'[s].text <= texts'
    <3>1. \A s \in Sends : sends[s].text <= texts
      BY DEF ComposerInv, ComposerTypeOK
    <3>2. \A s \in Sends : sends'[s].text <= texts
      BY <1>1, <1>2, <1>7, <3>1
    <3>3. \A s \in Sends' : s \in Sends \/ s = n + 1
      BY <1>2, <1>8
    <3> QED
      BY <1>3, <1>4, <1>7, <3>2, <3>3
  <2>2. current' \in Sends' \union {NoSend}
        /\ exchange' \in [send : Sends' \union {NoSend}, error : BOOLEAN]
    BY <1>2, <1>6, <1>8
  <2>3. (taken \union stopped \union failed \union rewritten)' \subseteq Sends'
    BY <1>2, <1>6, <1>8 DEF ComposerInv, ComposerTypeOK
  <2>4. draft' \in 0..texts' /\ texts' \in Nat /\ opened' \in BOOLEAN /\ opened'
    BY <1>3, <1>6 DEF NoText
  <2> QED
    BY <1>7, <2>1, <2>2, <2>3, <2>4 DEF ComposerTypeOK
<1>10. NoMessageLost'
  BY <1>2, <1>4, <1>6, <1>7, <1>8 DEF NoMessageLost
<1>11. LastIsRestorable'
  <2> SUFFICES ASSUME NEW s \in 1..(n + 1)
               PROVE  /\ s < n + 1 => s \in rewritten'
                      /\ s \in rewritten' => ~sends'[s].restorable
                      /\ s \notin (taken \union rewritten)' /\ sends'[s].phase # "ended" =>
                           sends'[s].restorable /\ draft' = NoText
    BY <1>7, <1>8 DEF LastIsRestorable
  <2>1. CASE s \in 1..n
    BY <2>1, <1>1, <1>2, <1>6, <1>7
  <2>2. CASE s = n + 1
    BY <2>2, <1>2, <1>4, <1>6, <1>7
  <2> QED
    BY <1>2, <2>1, <2>2
<1>12. AcceptedIsTaken'
  <2> SUFFICES ASSUME NEW s \in 1..(n + 1), sends'[s].phase = "accepted"
               PROVE  s \in taken'
    BY <1>8 DEF AcceptedIsTaken
  <2>1. s \in 1..n
    BY <1>2, <1>4, <1>7
  <2> QED
    BY <2>1, <1>1, <1>2, <1>6, <1>7 DEF ComposerInv, AcceptedIsTaken
<1> QED
  BY <1>9, <1>10, <1>11, <1>12 DEF ComposerInv

\* The types are kept by a step that writes no text and makes no send.
LEMMA TypeKept ==
  ASSUME ComposerTypeOK, sends' \in Seq(Request), Sends' = Sends,
         \A s \in Sends : sends'[s].text = sends[s].text,
         texts' = texts, draft' \in 0..texts, opened' \in BOOLEAN,
         current' \in {current, NoSend}, ~opened' => current' = NoSend,
         exchange' \in [send : Sends \union {NoSend}, error : BOOLEAN],
         (taken \union stopped \union failed \union rewritten)' \subseteq Sends
  PROVE  ComposerTypeOK'
  BY DEF ComposerTypeOK

LEMMA ReportedType ==
  ASSUME ComposerTypeOK, NEW s \in Sends, Reported(s)
  PROVE  exchange' \in [send : Sends \union {NoSend}, error : BOOLEAN]
  BY DEF ComposerTypeOK, Reported

\* What the type says of the variables a step leaves alone.
LEMMA ComposerTypeNow ==
  ASSUME ComposerTypeOK
  PROVE  /\ sends \in Seq(Request) /\ draft \in 0..texts /\ opened \in BOOLEAN
         /\ current \in Sends \union {NoSend} /\ (~opened => current = NoSend)
         /\ exchange \in [send : Sends \union {NoSend}, error : BOOLEAN]
         /\ taken \union stopped \union failed \union rewritten \subseteq Sends
  BY DEF ComposerTypeOK

LEMMA NoExchangeType ==
  NoExchange \in [send : Sends \union {NoSend}, error : BOOLEAN]
  BY DEF NoExchange

LEMMA PostInv == ASSUME ComposerInv, NEW s \in Sends, Post(s) PROVE ComposerInv'
<1>1. /\ sends' \in Seq(Request) /\ Sends' = Sends /\ Len(sends') = Len(sends)
      /\ sends'[s].phase = "posted"
      /\ \A t \in Sends : /\ t # s => sends'[t] = sends[t]
                          /\ sends'[t].text = sends[t].text
                          /\ sends'[t].restorable = sends[t].restorable
  BY PhaseChanges DEF Post, ComposerInv
<1>2. UNCHANGED <<opened, draft, texts, current, exchange, taken, stopped, failed, rewritten>>
  BY DEF Post, draftVars, pageVars, sendGhosts
<1>3. ComposerTypeOK'
  BY <1>1, <1>2, ComposerTypeNow, TypeKept DEF ComposerInv
<1>4. NoMessageLost'
  BY <1>1, <1>2 DEF ComposerInv, NoMessageLost
<1>5. LastIsRestorable'
  BY <1>1, <1>2 DEF ComposerInv, LastIsRestorable, Post
<1>6. AcceptedIsTaken'
  BY <1>1, <1>2 DEF ComposerInv, AcceptedIsTaken
<1> QED
  BY <1>3, <1>4, <1>5, <1>6 DEF ComposerInv

LEMMA ServerTakesInv == ASSUME ComposerInv, NEW s \in Sends, ServerTakes(s) PROVE ComposerInv'
<1>1. /\ UNCHANGED <<opened, draft, texts, current, exchange, sends, stopped, failed, rewritten>>
      /\ taken' = taken \union {s} /\ Sends' = Sends
  BY DEF ServerTakes, draftVars, pageVars, sendGhosts, Sends
<1>2. ComposerTypeOK'
  BY <1>1, ComposerTypeNow, TypeKept DEF ComposerInv
<1>3. NoMessageLost' /\ LastIsRestorable' /\ AcceptedIsTaken'
  BY <1>1 DEF ComposerInv, NoMessageLost, LastIsRestorable, AcceptedIsTaken
<1> QED
  BY <1>2, <1>3 DEF ComposerInv

LEMMA AcceptedInv == ASSUME ComposerInv, NEW s \in Sends, Accepted(s) PROVE ComposerInv'
<1> DEFINE r == [sends[s] EXCEPT !.restorable = FALSE]
           phase == IF sends[s].left THEN "ended" ELSE "accepted"
           q == [r EXCEPT !.phase = phase]
<1>1. sends \in Seq(Request) /\ DOMAIN sends = Sends /\ sends[s] \in Request
  BY SendsAreList DEF ComposerInv, ComposerTypeOK, Sends
<1>2. sends' = [sends EXCEPT ![s] = q]
  BY <1>1 DEF Accepted
<1>3. r \in Request /\ r.restorable = FALSE /\ r.text = sends[s].text
  BY <1>1, Unrestored
<1> HIDE DEF r
<1>4. q \in Request /\ q.restorable = FALSE /\ q.text = sends[s].text
  BY <1>3, InPhase
<1> HIDE DEF q
<1>5. /\ sends' \in Seq(Request) /\ Sends' = Sends /\ Len(sends') = Len(sends)
      /\ sends'[s] = q
      /\ \A t \in Sends : t # s => sends'[t] = sends[t]
  BY <1>1, <1>2, <1>4, OneChanges DEF ComposerInv
<1>6. /\ UNCHANGED <<opened, draft, texts, current, exchange, taken, stopped, failed, rewritten>>
      /\ s \in taken
  BY DEF Accepted, draftVars, pageVars, sendGhosts
<1>7. ComposerTypeOK'
  BY <1>4, <1>5, <1>6, ComposerTypeNow, TypeKept DEF ComposerInv
<1>8. NoMessageLost'
  BY <1>5, <1>6 DEF ComposerInv, NoMessageLost
<1>9. LastIsRestorable'
  BY <1>4, <1>5, <1>6 DEF ComposerInv, LastIsRestorable
<1>10. AcceptedIsTaken'
  BY <1>5, <1>6 DEF ComposerInv, AcceptedIsTaken
<1> QED
  BY <1>7, <1>8, <1>9, <1>10 DEF ComposerInv

LEMMA FailsInv == ASSUME ComposerInv, NEW s \in Sends, Fails(s) PROVE ComposerInv'
<1>1. /\ sends[s].phase \in Unread /\ Rejected(s) /\ Reported(s)
      /\ UNCHANGED <<opened, texts, current, taken, stopped, rewritten>>
      /\ failed' = failed \union {s}
  BY DEF Fails, Unread
<1>2. /\ sends' \in Seq(Request) /\ Sends' = Sends
      /\ \A t \in Sends : sends'[t].text = sends[t].text
      /\ draft' \in 0..texts
      /\ NoMessageLost' /\ LastIsRestorable' /\ AcceptedIsTaken'
  BY <1>1, RejectedInv
<1>3. exchange' \in [send : Sends \union {NoSend}, error : BOOLEAN]
  BY <1>1, ReportedType DEF ComposerInv
<1>4. ComposerTypeOK'
  BY <1>1, <1>2, <1>3, ComposerTypeNow, TypeKept DEF ComposerInv
<1> QED
  BY <1>2, <1>4 DEF ComposerInv

\* A send ends whose acceptance was read, or that has ended.
LEMMA EndedInv ==
  ASSUME ComposerInv, NEW s \in Sends, sends[s].phase \notin Unread, Ended(s),
         UNCHANGED <<taken, rewritten>>
  PROVE  /\ sends' \in Seq(Request) /\ Sends' = Sends
         /\ \A t \in Sends : sends'[t].text = sends[t].text
         /\ NoMessageLost' /\ LastIsRestorable' /\ AcceptedIsTaken'
<1>1. /\ sends' \in Seq(Request) /\ Sends' = Sends /\ Len(sends') = Len(sends)
      /\ sends'[s].phase = "ended"
      /\ \A t \in Sends : /\ t # s => sends'[t] = sends[t]
                          /\ sends'[t].text = sends[t].text
                          /\ sends'[t].restorable = sends[t].restorable
  BY PhaseChanges DEF Ended, ComposerInv
<1>2. draft' = draft
  BY DEF Ended
<1>3. s \in taken \/ sends[s].phase = "ended"
  <2>1. sends[s].phase \in {"preparing", "posted", "accepted", "ended"}
    BY SendsAreList DEF ComposerInv, Request
  <2> QED
    BY <2>1 DEF ComposerInv, AcceptedIsTaken, Unread
<1>4. NoMessageLost'
  BY <1>1, <1>2, <1>3 DEF ComposerInv, NoMessageLost
<1>5. LastIsRestorable'
  BY <1>1, <1>2, <1>3 DEF ComposerInv, LastIsRestorable
<1>6. AcceptedIsTaken'
  BY <1>1 DEF ComposerInv, AcceptedIsTaken
<1> QED
  BY <1>1, <1>4, <1>5, <1>6

LEMMA FinishesInv ==
  ASSUME ComposerInv, NEW s \in Sends, NEW error \in BOOLEAN, Finishes(s, error)
  PROVE  ComposerInv'
<1>1. /\ sends[s].phase \notin Unread /\ Ended(s) /\ (Reported(s) \/ UNCHANGED exchange)
      /\ UNCHANGED <<opened, texts, current, taken, stopped, failed, rewritten>>
  BY DEF Finishes, Unread, sendGhosts
<1>2. /\ sends' \in Seq(Request) /\ Sends' = Sends
      /\ \A t \in Sends : sends'[t].text = sends[t].text
      /\ NoMessageLost' /\ LastIsRestorable' /\ AcceptedIsTaken'
  BY <1>1, EndedInv
<1>3. exchange' \in [send : Sends \union {NoSend}, error : BOOLEAN]
  BY <1>1, ReportedType, ComposerTypeNow DEF ComposerInv
<1>4. draft' = draft
  BY <1>1 DEF Ended
<1>5. ComposerTypeOK'
  BY <1>1, <1>2, <1>3, <1>4, ComposerTypeNow, TypeKept DEF ComposerInv
<1> QED
  BY <1>2, <1>5 DEF ComposerInv

LEMMA SettlesInv == ASSUME ComposerInv, NEW s \in Sends, Settles(s) PROVE ComposerInv'
<1>1. /\ UNCHANGED <<opened, draft, texts, sends, taken, stopped, failed, rewritten>>
      /\ current' = NoSend /\ exchange' \in {exchange, NoExchange} /\ Sends' = Sends
  BY DEF Settles, draftVars, sendGhosts, Sends
<1>2. ComposerTypeOK'
  BY <1>1, ComposerTypeNow, NoExchangeType, TypeKept DEF ComposerInv
<1>3. NoMessageLost' /\ LastIsRestorable' /\ AcceptedIsTaken'
  BY <1>1 DEF ComposerInv, NoMessageLost, LastIsRestorable, AcceptedIsTaken
<1> QED
  BY <1>2, <1>3 DEF ComposerInv

LEMMA RecoversInv == ASSUME ComposerInv, Recovers PROVE ComposerInv'
<1>1. /\ UNCHANGED <<opened, draft, texts, sends, current, taken, stopped, failed, rewritten>>
      /\ exchange' = NoExchange /\ Sends' = Sends
  BY DEF Recovers, draftVars, sendGhosts, Sends
<1>2. ComposerTypeOK'
  BY <1>1, ComposerTypeNow, NoExchangeType, TypeKept DEF ComposerInv
<1>3. NoMessageLost' /\ LastIsRestorable' /\ AcceptedIsTaken'
  BY <1>1 DEF ComposerInv, NoMessageLost, LastIsRestorable, AcceptedIsTaken
<1> QED
  BY <1>2, <1>3 DEF ComposerInv

LEMMA AbortInv == ASSUME ComposerInv, Abort PROVE ComposerInv'
<1>1. /\ current \in Sends /\ opened' = opened /\ opened = TRUE /\ stopped' = stopped \union {current}
      /\ current' = NoSend /\ exchange' = NoExchange
      /\ UNCHANGED <<texts, taken, failed, rewritten>>
  BY ComposerTypeNow DEF Abort, ComposerInv
<1>2. /\ sends' \in Seq(Request) /\ Sends' = Sends
      /\ \A t \in Sends : sends'[t].text = sends[t].text
      /\ draft' \in 0..texts
      /\ NoMessageLost' /\ LastIsRestorable' /\ AcceptedIsTaken'
  <2>1. CASE sends[current].phase \in Unread
    <3>1. Rejected(current)
      BY <2>1 DEF Abort, Unread
    <3> QED
      BY <1>1, <2>1, <3>1, RejectedInv
  <2>2. CASE sends[current].phase \notin Unread
    <3>1. Ended(current)
      BY <2>2 DEF Abort, Unread
    <3>2. draft' \in 0..texts
      BY <3>1, ComposerTypeNow DEF Ended, ComposerInv
    <3> QED
      BY <1>1, <2>2, <3>1, <3>2, EndedInv
  <2> QED
    BY <2>1, <2>2
<1>3. ComposerTypeOK'
  BY <1>1, <1>2, ComposerTypeNow, NoExchangeType, TypeKept DEF ComposerInv
<1> QED
  BY <1>2, <1>3 DEF ComposerInv

\* The page goes, and what it sent goes on.
LEMMA LeaveInv == ASSUME ComposerInv, Leave PROVE ComposerInv'
<1> DEFINE Gone(s) == [sends[s] EXCEPT !.left = TRUE,
                         !.phase = IF @ = "accepted" THEN "ended" ELSE @]
           f == [s \in Sends |-> IF s # current THEN sends[s] ELSE Gone(s)]
<1>1. sends' = f
  BY DEF Leave
<1>2. ASSUME NEW s \in Sends
      PROVE  /\ f[s] \in Request
             /\ \/ f[s].phase = sends[s].phase
                \/ f[s].phase = "ended" /\ sends[s].phase = "accepted"
             /\ f[s].text = sends[s].text /\ f[s].restorable = sends[s].restorable
  <2>1. sends[s] \in Request
    BY SendsAreList DEF ComposerInv
  <2>2. CASE s # current
    BY <2>1, <2>2
  <2>3. CASE s = current
    <3>1. f[s] = [sends[s] EXCEPT !.left = TRUE,
                    !.phase = IF @ = "accepted" THEN "ended" ELSE @]
      BY <2>3
    <3> HIDE DEF f
    <3>2. /\ f[s] \in Request
          /\ f[s].phase = IF sends[s].phase = "accepted" THEN "ended" ELSE sends[s].phase
          /\ f[s].text = sends[s].text /\ f[s].restorable = sends[s].restorable
      BY <2>1, <3>1, HasLeft
    <3> QED
      BY <3>2
  <2> QED
    BY <2>2, <2>3
<1>3. f = [s \in Sends |-> f[s]]
  OBVIOUS
<1> HIDE DEF f
<1>4. f \in Seq(Request) /\ DOMAIN f = Sends /\ Len(f) = Len(sends)
  BY <1>2, <1>3, ListOver DEF ComposerInv
<1>5. sends' \in Seq(Request) /\ Sends' = Sends /\ Len(sends') = Len(sends)
  BY <1>1, <1>4 DEF Sends
<1>6. /\ opened' = FALSE /\ current' = NoSend /\ exchange' = NoExchange
      /\ UNCHANGED <<draft, texts, taken, stopped, failed, rewritten>>
  BY DEF Leave, draftVars, sendGhosts
<1>7. ComposerTypeOK'
  BY <1>1, <1>2, <1>5, <1>6, ComposerTypeNow, NoExchangeType, TypeKept DEF ComposerInv
<1>8. NoMessageLost'
  BY <1>1, <1>2, <1>5, <1>6 DEF ComposerInv, NoMessageLost, AcceptedIsTaken
<1>9. LastIsRestorable'
  BY <1>1, <1>2, <1>5, <1>6 DEF ComposerInv, LastIsRestorable
<1>10. AcceptedIsTaken'
  BY <1>1, <1>2, <1>5, <1>6 DEF ComposerInv, AcceptedIsTaken
<1> QED
  BY <1>7, <1>8, <1>9, <1>10 DEF ComposerInv

LEMMA OpenInv == ASSUME ComposerInv, Open PROVE ComposerInv'
<1>1. /\ UNCHANGED <<draft, texts, sends, current, exchange, taken, stopped, failed, rewritten>>
      /\ opened' = TRUE /\ Sends' = Sends
  BY DEF Open, draftVars, pageVars, sendGhosts, Sends
<1>2. ComposerTypeOK'
  BY <1>1, ComposerTypeNow, TypeKept DEF ComposerInv
<1>3. NoMessageLost' /\ LastIsRestorable' /\ AcceptedIsTaken'
  BY <1>1 DEF ComposerInv, NoMessageLost, LastIsRestorable, AcceptedIsTaken
<1> QED
  BY <1>2, <1>3 DEF ComposerInv

LEMMA ComposerStutter == ASSUME ComposerInv, UNCHANGED composerVars PROVE ComposerInv'
<1>1. /\ UNCHANGED <<opened, draft, texts, sends, current, exchange, taken, stopped, failed,
                     rewritten>>
      /\ Sends' = Sends
  BY DEF composerVars, draftVars, pageVars, sendGhosts, Sends
<1>2. ComposerTypeOK'
  BY <1>1, ComposerTypeNow, TypeKept DEF ComposerInv
<1>3. NoMessageLost' /\ LastIsRestorable' /\ AcceptedIsTaken'
  BY <1>1 DEF ComposerInv, NoMessageLost, LastIsRestorable, AcceptedIsTaken
<1> QED
  BY <1>2, <1>3 DEF ComposerInv

LEMMA ComposerNextInv == ComposerInv /\ [ComposerNext]_composerVars => ComposerInv'
<1> SUFFICES ASSUME ComposerInv, [ComposerNext]_composerVars PROVE ComposerInv'
  OBVIOUS
<1>1. ASSUME NEW s \in Sends, Post(s) \/ ServerTakes(s) \/ Accepted(s) \/ Settles(s) \/ Fails(s)
      PROVE  ComposerInv'
  BY <1>1, PostInv, ServerTakesInv, AcceptedInv, SettlesInv, FailsInv
<1>2. ASSUME NEW s \in Sends, NEW error \in BOOLEAN, Finishes(s, error) PROVE ComposerInv'
  BY <1>2, FinishesInv
<1>3. ASSUME Type \/ Delete \/ Submit \/ Abort \/ Leave \/ Open \/ Recovers PROVE ComposerInv'
  BY <1>3, TypeInv, DeleteInv, SubmitInv, AbortInv, LeaveInv, OpenInv, RecoversInv
<1>4. ASSUME UNCHANGED composerVars PROVE ComposerInv'
  BY <1>4, ComposerStutter
<1> QED
  BY <1>1, <1>2, <1>3, <1>4 DEF ComposerNext, ComposerSystem

-----------------------------------------------------------------------------
(* The theorems *)

\* The requests stay the ones that were made, in their order, and a page
\* follows only one of its own (useLiveSessionSend's sendRef).
THEOREM ComposerTypes == ComposerSpec => []ComposerTypeOK
<1>1. ComposerInit => ComposerInv
  BY ComposerInitInv
<1>2. ComposerInv /\ [ComposerNext]_composerVars => ComposerInv'
  BY ComposerNextInv
<1>3. ComposerInv => ComposerTypeOK
  BY DEF ComposerInv
<1> QED
  BY <1>1, <1>2, <1>3, PTL DEF ComposerSpec

\* However often the user writes, sends, stops, leaves and comes back, and
\* whichever requests fail, a message the server never took is on its way or in
\* the composer as long as the user wrote and sent nothing after it (Composer's
\* clearDraft and restore over useLiveSessionSend).
THEOREM MessagesAreKept == ComposerSpec => []NoMessageLost
<1>1. ComposerInit => ComposerInv
  BY ComposerInitInv
<1>2. ComposerInv /\ [ComposerNext]_composerVars => ComposerInv'
  BY ComposerNextInv
<1>3. ComposerInv => NoMessageLost
  BY DEF ComposerInv
<1> QED
  BY <1>1, <1>2, <1>3, PTL DEF ComposerSpec
=============================================================================
