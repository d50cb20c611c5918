-------------------------- MODULE ThreadComposer --------------------------
(***************************************************************************)
(* What becomes of a message between the moment the user sends it and the  *)
(* moment the server has it: the composer of a thread, which empties at    *)
(* once and takes the draft back when the message is refused               *)
(* (components/session/Composer.tsx over useComposerDraft.ts), and the     *)
(* request that carries it (components/session/useLiveSessionSend.ts over  *)
(* lib/api/streamProtocol.ts), which outlives the page it was sent from.   *)
(*                                                                         *)
(* A draft is one of the texts the user wrote, or NoText; attachments and  *)
(* contexts go with it.  Sends are numbered in their order.                *)
(***************************************************************************)
EXTENDS Naturals, Sequences

CONSTANTS MaxTexts,   \* texts the user writes
          MaxSends,   \* messages the user sends
          MaxLeaves   \* times the user leaves the thread

VARIABLES opened,   \* whether the thread is on the screen
          draft,     \* what the composer holds, as it is stored
          texts,     \* how many texts were written
          sends,     \* the requests, in the order they were made
          current,   \* the send this page follows, or NoSend (sendRef)
          exchange,      \* the exchange the page shows ahead of the history
          leaves,    \* how often the user left
          taken,     \* the sends the server took
          stopped,   \* ghost: the sends the user stopped
          failed,    \* ghost: the sends a refusal or a lost connection ended
          rewritten  \* ghost: the sends after which the user wrote or sent anew

draftVars == <<draft, texts>>
pageVars == <<current, exchange>>
sendGhosts == <<stopped, failed, rewritten>>
composerVars == <<opened, draftVars, sends, pageVars, leaves, taken, sendGhosts>>

NoText == 0
NoSend == 0
NoExchange == [send |-> NoSend, error |-> FALSE]
Sends == DOMAIN sends
Request == [text : Nat \ {NoText}, phase : {"preparing", "posted", "accepted", "ended"},
            restorable : BOOLEAN, left : BOOLEAN]

ComposerInit ==
  /\ opened = TRUE /\ draft = NoText /\ texts = 0 /\ sends = <<>>
  /\ current = NoSend /\ exchange = NoExchange /\ leaves = 0
  /\ taken = {} /\ stopped = {} /\ failed = {} /\ rewritten = {}

-----------------------------------------------------------------------------
(* The composer *)

\* Whatever changes the draft tells every send that may still take it back.
Unrestorable(requests) ==
  [s \in DOMAIN requests |-> [requests[s] EXCEPT !.restorable = FALSE]]

\* The user writes a text, or empties the composer.
Write(text) ==
  /\ opened /\ draft' = text
  /\ sends' = Unrestorable(sends)
  /\ rewritten' = Sends
  /\ UNCHANGED <<opened, pageVars, leaves, taken, stopped, failed>>

Type == texts < MaxTexts /\ texts' = texts + 1 /\ Write(texts + 1)
Delete == draft # NoText /\ UNCHANGED texts /\ Write(NoText)

\* The message goes out while the composer empties, ready to take it back.
Submit ==
  /\ opened /\ draft # NoText /\ Len(sends) < MaxSends
  /\ sends' = Append(Unrestorable(sends),
                     [text |-> draft, phase |-> "preparing", restorable |-> TRUE,
                      left |-> FALSE])
  /\ current' = Len(sends) + 1
  /\ exchange' = [send |-> Len(sends) + 1, error |-> FALSE]
  /\ draft' = NoText
  /\ rewritten' = Sends
  /\ UNCHANGED <<opened, texts, leaves, taken, stopped, failed>>

\* Mutant: the text is taken back only while the page is open.
Restored_Variant(send) ==
  IF sends[send].restorable /\ draft = NoText /\ opened
  THEN sends[send].text ELSE draft

\* The draft a rejected message leaves: its own text again, if nothing was
\* written since.
Restored(send) ==
  IF sends[send].restorable /\ draft = NoText THEN sends[send].text ELSE draft

-----------------------------------------------------------------------------
(* The request *)

\* A request ends before the server's acceptance was read: the promise of it
\* is rejected and the composer takes the draft back, which is a change of the
\* draft like any other.
Rejected(send) ==
  LET others == IF Restored(send) = draft THEN sends ELSE Unrestorable(sends)
  IN  /\ draft' = Restored(send)
      /\ sends' = [others EXCEPT ![send].phase = "ended", ![send].restorable = FALSE]

\* A request ends after the acceptance was read: the draft stays as it is.
Ended(send) ==
  /\ draft' = draft
  /\ sends' = [sends EXCEPT ![send].phase = "ended"]

\* The page shows the failure of the send it follows, and of no other.
Reported(send) ==
  exchange' = IF current = send /\ exchange # NoExchange THEN [exchange EXCEPT !.error = TRUE] ELSE exchange

\* The attachments are uploaded and the message is posted.
Post(send) ==
  /\ sends[send].phase = "preparing"
  /\ sends' = [sends EXCEPT ![send].phase = "posted"]
  /\ UNCHANGED <<opened, draftVars, pageVars, leaves, taken, sendGhosts>>

ServerTakes(send) ==
  /\ sends[send].phase = "posted" /\ send \notin taken
  /\ taken' = taken \union {send}
  /\ UNCHANGED <<opened, draftVars, sends, pageVars, leaves, sendGhosts>>

\* The first frame says the server has the message; a page that was left
\* needs no more of the stream and closes it.
Accepted(send) ==
  /\ sends[send].phase = "posted" /\ send \in taken
  /\ sends' = [sends EXCEPT ![send].restorable = FALSE,
                            ![send].phase = IF sends[send].left THEN "ended" ELSE "accepted"]
  /\ UNCHANGED <<opened, draftVars, pageVars, leaves, taken, sendGhosts>>

\* An upload or the request is refused, or the connection is lost before the
\* acceptance comes, which the server may have sent.
Fails(send) ==
  /\ sends[send].phase \in {"preparing", "posted"}
  /\ Rejected(send)
  /\ Reported(send)
  /\ failed' = failed \union {send}
  /\ UNCHANGED <<opened, texts, current, leaves, taken, stopped, rewritten>>

\* The reply ends, well or with an error.
Finishes(send, error) ==
  /\ sends[send].phase = "accepted"
  /\ Ended(send)
  /\ IF error THEN Reported(send) ELSE UNCHANGED exchange
  /\ UNCHANGED <<opened, texts, current, leaves, taken, sendGhosts>>

\* The history was read again: the page follows the send no longer, and keeps
\* only an exchange that failed.
Settles(send) ==
  /\ sends[send].phase = "ended" /\ current = send
  /\ current' = NoSend
  /\ exchange' = IF exchange.error THEN exchange ELSE NoExchange
  /\ UNCHANGED <<opened, draftVars, sends, leaves, taken, sendGhosts>>

\* The history shows that a send reported as failed was answered all the same.
Recovers ==
  /\ exchange.error /\ exchange.send \in taken
  /\ exchange' = NoExchange
  /\ UNCHANGED <<opened, draftVars, sends, current, leaves, taken, sendGhosts>>

-----------------------------------------------------------------------------
(* The user leaves *)

\* Stop closes the stream of the send the page follows; one the server has
\* not acknowledged is rejected by that.
Abort ==
  /\ opened /\ current # NoSend
  /\ IF sends[current].phase \in {"preparing", "posted"}
     THEN Rejected(current) ELSE Ended(current)
  /\ stopped' = stopped \union {current}
  /\ current' = NoSend /\ exchange' = NoExchange
  /\ UNCHANGED <<opened, texts, leaves, taken, failed, rewritten>>

\* Mutant: leaving closes the stream at once.
Leave_Variant ==
  /\ opened /\ leaves < MaxLeaves
  /\ leaves' = leaves + 1
  /\ opened' = FALSE
  /\ IF current # NoSend /\ sends[current].phase \in {"preparing", "posted"}
     THEN Rejected(current)
     ELSE UNCHANGED <<draft, sends>>
  /\ current' = NoSend /\ exchange' = NoExchange
  /\ UNCHANGED <<texts, taken, sendGhosts>>

\* The page goes: the send it follows goes on until the server has it.
Leave ==
  /\ opened /\ leaves < MaxLeaves
  /\ leaves' = leaves + 1
  /\ opened' = FALSE
  /\ sends' = [s \in Sends |->
                 IF s # current THEN sends[s]
                 ELSE [sends[s] EXCEPT !.left = TRUE,
                         !.phase = IF @ = "accepted" THEN "ended" ELSE @]]
  /\ current' = NoSend /\ exchange' = NoExchange
  /\ UNCHANGED <<draftVars, taken, sendGhosts>>

Open ==
  /\ ~opened
  /\ opened' = TRUE
  /\ UNCHANGED <<draftVars, sends, pageVars, leaves, taken, sendGhosts>>

-----------------------------------------------------------------------------
ComposerSystem ==
  \E send \in Sends :
    Post(send) \/ ServerTakes(send) \/ Accepted(send) \/ Settles(send)

ComposerNext ==
  \/ ComposerSystem
  \/ \E send \in Sends : Fails(send)
  \/ \E send \in Sends, error \in BOOLEAN : Finishes(send, error)
  \/ Type \/ Delete \/ Submit \/ Abort \/ Leave \/ Open \/ Recovers

ComposerSpec == ComposerInit /\ [][ComposerNext]_composerVars

-----------------------------------------------------------------------------
(* Properties *)

\* The page follows only a send of its own, and a draft is a written text.
ComposerTypeOK ==
  /\ opened \in BOOLEAN
  /\ texts \in Nat /\ draft \in 0..texts
  /\ sends \in Seq(Request) /\ \A s \in Sends : sends[s].text <= texts
  /\ current \in Sends \union {NoSend}
  /\ exchange \in [send : Sends \union {NoSend}, error : BOOLEAN]
  /\ ~opened => current = NoSend
  /\ taken \union stopped \union failed \union rewritten \subseteq Sends

\* A message the server never took is not lost: as long as the user has
\* written and sent nothing since, it is on its way or back in the composer,
\* whether or not the page it was sent from is still open.
NoMessageLost ==
  \A s \in Sends \ (taken \union rewritten) :
    sends[s].phase = "ended" => draft = sends[s].text

\* A message the user stops following is sent all the same: whatever is
\* submitted reaches the server unless the user stopped it or it failed on its
\* way, and in the end nothing is still on its way.
LeavingSends == <>[](Sends = taken \union stopped \union failed)
=============================================================================
