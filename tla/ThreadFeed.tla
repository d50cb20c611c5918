---------------------------- MODULE ThreadFeed ----------------------------
(***************************************************************************)
(* How an open thread follows its agent.  The page of the thread's history *)
(* (lib/hooks/useSessionHistory.ts) and the events that reach it live      *)
(* (lib/hooks/useSessionEvents.ts over lib/api/eventStream.ts) are two     *)
(* caches filled by two connections; what the user reads is their union,   *)
(* put together again by lib/sessionEvents.ts.                             *)
(*                                                                         *)
(* The agent's text comes in deltas, and a run of deltas is one paragraph: *)
(* an event of a run carries a stretch of it, from one delta (as it is     *)
(* sent) to all of them (as a page or the compacted store holds it), and   *)
(* always the sequence number of its last delta.  A delta is named by its  *)
(* own sequence number, so a text is a sequence of numbers.                *)
(***************************************************************************)
EXTENDS Naturals, Sequences, SequencesExt, FiniteSetsExt

CONSTANTS MaxEvents,    \* events the thread's agents report
          MaxTurbulence \* times pages are asked to read again, the stream breaks
                        \* and the user leaves the thread, taken together

ASSUME FeedBounds == MaxEvents \in Nat /\ MaxTurbulence \in Nat

VARIABLES rows,       \* the thread's stored events
          revision,   \* the revision of that record
          run,        \* the key of the text run that is open, or NoRun
          running,    \* whether a turn runs
          mounted,    \* whether the thread is on the screen
          history,    \* the cached page, or NoPage
          fetch,      \* the read of the page that is under way
          live,       \* the cached live events
          pending,    \* live events not yet in the cache
          stream,     \* the event stream
          turbulence, \* how often something got in its way
          cut         \* ghost: runs of which a part was handed out whole

serverVars == <<rows, revision, run, running>>
historyVars == <<history, fetch>>
liveVars == <<live, pending, stream>>
feedVars == <<serverVars, mounted, historyVars, liveVars, turbulence, cut>>

NoRun == <<"none", 0>>
NoPage == [events |-> {}, latest |-> 0, revision |-> 0]
NoStream == [phase |-> "closed", after |-> 0, last |-> 0, wire |-> <<>>]
Signal == [seq |-> 0, key |-> NoRun, kind |-> "signal", text |-> <<>>]

SeqsOf(events) == {e.seq : e \in events}
KeysOf(events) == {e.key : e \in events}
Newest(events) == Max(SeqsOf(events) \union {0})
InOrder(events) ==
  [i \in 1..Cardinality(events) |->
     CHOOSE e \in events : Cardinality({d \in events : d.seq < e.seq}) = i - 1]

-----------------------------------------------------------------------------
(* Putting events together *)

\* Two events of one projection: a text run grows, anything else is replaced.
Projected(previous, event) ==
  [event EXCEPT !.text = IF event.kind = "text"
                         THEN previous.text \o event.text ELSE event.text]

\* Mutant: an older event of a projection is merged all the same.
Merged_Variant(events, event) ==
  LET same == {e \in events : e.key = event.key}
  IN  IF event.seq \in SeqsOf(events)
      THEN events
      ELSE (events \ same) \union
             {IF same = {} THEN event
              ELSE Projected(CHOOSE e \in same : TRUE, event)}

\* The live cache takes an event once, and never an older one over a newer.
Merged(events, event) ==
  LET same == {e \in events : e.key = event.key}
  IN  IF event.seq \in SeqsOf(events) \/ \E e \in same : e.seq >= event.seq
      THEN events
      ELSE (events \ same) \union
             {IF same = {} THEN event
              ELSE Projected(CHOOSE e \in same : TRUE, event)}

\* What the events of one projection are together, in their order.
Whole(events) ==
  LET list == InOrder(events)
      upTo[i \in 1..Len(list)] ==
        IF i = 1 THEN list[1] ELSE Projected(upTo[i - 1], list[i])
  IN  upTo[Len(list)]

\* Two lists become one: the first wins where both hold a sequence number,
\* and the events of one projection are put together.
Coalesced(first, second) ==
  LET all == first \union {e \in second : e.seq \notin SeqsOf(first)}
  IN  {Whole({e \in all : e.key = key}) : key \in KeysOf(all)}

MergedLatest(current, latest) ==
  IF current = NoPage \/ current.revision # latest.revision
  THEN latest
  ELSE [latest EXCEPT !.events = Coalesced(current.events, latest.events)]

\* What the thread shows: the page and, after it, the live events.
Shown == Coalesced(history.events, live)

-----------------------------------------------------------------------------
(* The server *)

FeedInit ==
  /\ rows = {} /\ revision = 1 /\ run = NoRun /\ running = FALSE
  /\ mounted = FALSE /\ history = NoPage /\ fetch = [phase |-> "idle"]
  /\ live = {} /\ pending = <<>> /\ stream = NoStream
  /\ turbulence = 0 /\ cut = {}

Disturbed == turbulence < MaxTurbulence /\ turbulence' = turbulence + 1

Published(event) ==
  stream' = IF stream.phase = "open"
            THEN [stream EXCEPT !.wire = Append(@, event)] ELSE stream

\* An agent reports.  A tool's row and the status of a running turn replace
\* the row before them, which changes the record a page was read from.
Reports(kind) ==
  LET seq == Newest(rows) + 1
      key == CASE kind = "text" -> IF run = NoRun THEN <<"text", seq>> ELSE run
               [] kind = "tool" -> <<"tool", 0>>
               [] OTHER -> <<"status", 0>>
      event == [seq |-> seq, key |-> key, kind |-> kind, text |-> <<seq>>]
      replaced == {r \in rows : kind \in {"tool", "running"} /\ r.kind = kind}
  IN  /\ seq <= MaxEvents
      /\ kind # "running" => running
      /\ rows' = (rows \ replaced) \union {event}
      /\ revision' = IF replaced = {} THEN revision ELSE revision + 1
      /\ run' = CASE kind = "text" -> key [] kind = "end" -> NoRun [] OTHER -> run
      /\ running' = (kind # "end")
      /\ Published(event)
      /\ UNCHANGED <<mounted, historyVars, live, pending, turbulence, cut>>

\* While no turn runs, the store puts the rows of finished runs together, some
\* runs at a time.
Compact ==
  \E keys \in SUBSET KeysOf(rows) :
    LET parts == {r \in rows : r.kind = "text" /\ r.key \in keys}
        whole == Coalesced({}, parts)
    IN  /\ ~running /\ parts # whole
        /\ rows' = (rows \ parts) \union whole
        /\ revision' = revision + 1
        /\ UNCHANGED <<run, running, mounted, historyVars, liveVars, turbulence, cut>>

\* The thread's row changed: its pages are asked to read again.
Signals ==
  /\ Disturbed
  /\ Published(Signal)
  /\ UNCHANGED <<serverVars, mounted, historyVars, live, pending, cut>>

\* A page is read in one transaction, each run of text as one event.
ServerReads ==
  /\ fetch.phase = "asked"
  /\ fetch' = [phase |-> "answered",
               page |-> [events |-> Coalesced({}, rows), latest |-> Newest(rows),
                         revision |-> revision]]
  /\ cut' = cut \union ({run} \ {NoRun})
  /\ UNCHANGED <<serverVars, mounted, history, liveVars, turbulence>>

-----------------------------------------------------------------------------
(* The history query *)

\* A read under way gives place to a new one, but the first is waited for.
Refetched ==
  IF history = NoPage /\ fetch.phase # "idle" THEN fetch ELSE [phase |-> "asked"]

Flushed ==
  LET upTo[i \in 0..Len(pending)] ==
        IF i = 0 THEN live ELSE Merged(upTo[i - 1], pending[i])
  IN  upTo[Len(pending)]

Subscribed(after) ==
  [phase |-> "connecting", after |-> after, last |-> 0, wire |-> <<>>]

\* The page comes.  If it reaches further than the one before, the live
\* events are flushed, those it holds are dropped, and the stream starts over
\* after it.
HistoryArrives ==
  /\ fetch.phase = "answered"
  /\ LET page == MergedLatest(history, fetch.page)
     IN  /\ history' = page
         /\ IF history # NoPage /\ page.latest = history.latest
            THEN UNCHANGED liveVars
            ELSE /\ live' = {e \in Flushed : e.seq > page.latest}
                 /\ pending' = <<>>
                 /\ stream' = Subscribed(page.latest)
  /\ fetch' = [phase |-> "idle"]
  /\ UNCHANGED <<serverVars, mounted, turbulence, cut>>

-----------------------------------------------------------------------------
(* The event stream *)

\* The client's check passed and the server replays what came after the last
\* event the client has, then sends what comes.
Connect ==
  /\ stream.phase = "connecting"
  /\ LET from == IF stream.last > 0 THEN stream.last ELSE stream.after
         replay == {r \in rows : r.seq > from}
         held == KeysOf(live) \union KeysOf(Range(pending)) \union KeysOf(history.events)
     IN  /\ stream' = [stream EXCEPT !.phase = "open", !.wire = InOrder(replay)]
         /\ cut' = cut \union {r.key : r \in {r \in replay :
                                 Len(r.text) > 1 /\ r.key \in held}}
  /\ UNCHANGED <<serverVars, mounted, historyVars, live, pending, turbulence>>

\* Mutant: the end of a turn does not have the page read again.
Receive_Variant ==
  /\ stream.phase = "open" /\ stream.wire # <<>>
  /\ LET event == Head(stream.wire)
     IN  /\ stream' = [stream EXCEPT !.wire = Tail(@),
                         !.last = IF event.seq > 0 THEN event.seq ELSE @]
         /\ pending' = IF event.kind = "signal" THEN pending ELSE Append(pending, event)
         /\ fetch' = IF event.kind = "signal" THEN Refetched ELSE fetch
  /\ UNCHANGED <<serverVars, mounted, history, live, turbulence, cut>>

\* An event comes: most wait to be flushed; a signal and the end of a turn
\* have the page read again.
Receive ==
  /\ stream.phase = "open" /\ stream.wire # <<>>
  /\ LET event == Head(stream.wire)
     IN  /\ stream' = [stream EXCEPT !.wire = Tail(@),
                         !.last = IF event.seq > 0 THEN event.seq ELSE @]
         /\ pending' = IF event.kind = "signal" THEN pending ELSE Append(pending, event)
         /\ fetch' = IF event.kind \in {"signal", "end"} THEN Refetched ELSE fetch
  /\ UNCHANGED <<serverVars, mounted, history, live, turbulence, cut>>

\* Every 50 ms the events that came are put into the cache together.
Flush ==
  /\ mounted /\ pending # <<>>
  /\ live' = Flushed
  /\ pending' = <<>>
  /\ UNCHANGED <<serverVars, mounted, historyVars, stream, turbulence, cut>>

\* Mutant: what has come but is not in the cache yet is dropped with the stream.
StreamFails_Variant ==
  /\ stream.phase # "closed" /\ Disturbed
  /\ stream' = [stream EXCEPT !.phase = "connecting", !.wire = <<>>]
  /\ pending' = <<>>
  /\ UNCHANGED <<serverVars, mounted, historyVars, live, cut>>

\* The connection breaks, or the server drops a client that reads too slowly;
\* what was on its way is lost, and the stream connects again.
StreamFails ==
  /\ stream.phase # "closed" /\ Disturbed
  /\ stream' = [stream EXCEPT !.phase = "connecting", !.wire = <<>>]
  /\ UNCHANGED <<serverVars, mounted, historyVars, live, pending, cut>>

-----------------------------------------------------------------------------
(* The user *)

\* The thread is opened: a page it has is shown, read again unless it is
\* fresh, and followed from where it ends.
OpenThread(fresh) ==
  /\ ~mounted
  /\ fresh => history # NoPage
  /\ mounted' = TRUE
  /\ fetch' = IF fresh THEN fetch ELSE [phase |-> "asked"]
  /\ stream' = IF history = NoPage THEN NoStream ELSE Subscribed(history.latest)
  /\ live' = {e \in live : e.seq > history.latest \/ history.latest = 0}
  /\ UNCHANGED <<serverVars, history, pending, turbulence, cut>>

\* Mutant: the stream goes on when the page is left.
LeaveThread_Variant ==
  /\ mounted /\ Disturbed
  /\ mounted' = FALSE
  /\ fetch' = [phase |-> "idle"]
  /\ live' = Flushed /\ pending' = <<>>
  /\ UNCHANGED <<serverVars, history, stream, cut>>

\* The user goes elsewhere: the read is cancelled, the stream closed, and what
\* has come is kept in the cache, which outlives the page.
LeaveThread ==
  /\ mounted /\ Disturbed
  /\ mounted' = FALSE
  /\ fetch' = [phase |-> "idle"]
  /\ stream' = NoStream
  /\ live' = Flushed /\ pending' = <<>>
  /\ UNCHANGED <<serverVars, history, cut>>

\* A page nobody looks at is forgotten in time; the live events are not.
Forget ==
  /\ ~mounted /\ history # NoPage
  /\ history' = NoPage
  /\ UNCHANGED <<serverVars, mounted, fetch, liveVars, turbulence, cut>>

-----------------------------------------------------------------------------
FeedSystem == ServerReads \/ HistoryArrives \/ Connect \/ Receive \/ Flush

FeedNext ==
  \/ FeedSystem
  \/ \E kind \in {"running", "text", "tool", "end"} : Reports(kind)
  \/ Compact \/ Signals \/ StreamFails
  \/ \E fresh \in BOOLEAN : OpenThread(fresh)
  \/ LeaveThread \/ Forget

-----------------------------------------------------------------------------
(* Properties *)

Deltas(key) == UNION {Range(r.text) : r \in {r \in rows : r.kind = "text" /\ r.key = key}}

Keys == {NoRun, <<"tool", 0>>, <<"status", 0>>} \union ({"text"} \X (1..MaxEvents))

\* Events have a place in the record and a text made of its deltas, and the
\* stream's resume point is never behind the page it follows.
FeedTypeOK ==
  /\ rows \union live \union history.events \subseteq
       [seq : 1..MaxEvents, key : Keys, kind : {"running", "text", "tool", "end"},
        text : Seq(1..MaxEvents)]
  /\ Range(pending) \subseteq [seq : 1..MaxEvents, key : Keys,
                               kind : {"running", "text", "tool", "end"},
                               text : Seq(1..MaxEvents)]
  /\ run \in Keys /\ running \in BOOLEAN /\ mounted \in BOOLEAN
  /\ fetch.phase \in {"idle", "asked", "answered"}
  /\ stream.phase \in {"closed", "connecting", "open"}
  /\ ~mounted => stream = NoStream /\ pending = <<>> /\ fetch.phase = "idle"

\* A text reads as the agent wrote it: no delta before the newest one shown is
\* missing and, unless part of its run was handed out whole while the run was
\* still growing, none is there twice or out of its place.
ReadsAsWritten ==
  history # NoPage =>
    \A e \in Shown :
      e.kind = "text" =>
        /\ Range(e.text) = {d \in Deltas(e.key) : d <= e.seq}
        /\ e.key \notin cut => \A i \in 2..Len(e.text) : e.text[i - 1] < e.text[i]

\* The point the stream resumes from is never past an event the page lacks:
\* whatever the record holds up to it is shown or about to be.
ResumesWithoutGap ==
  stream.phase # "closed" =>
    LET held == Shown \union Range(pending)
    IN  \A r \in rows :
          r.seq <= Max({stream.after, stream.last}) =>
            \E e \in held : e.key = r.key /\ e.seq >= r.seq

\* An open thread catches up with its agent: once it stays open it comes to
\* show every event, and to hold a page read after its last turn ended.
CaughtUp ==
  LET shown == Shown
  IN  /\ \A r \in rows : \E e \in shown : e.key = r.key /\ e.seq >= r.seq
      /\ history.latest >= Newest({r \in rows : r.kind = "end"})

FeedSpec == FeedInit /\ [][FeedNext]_feedVars

CatchesUp == <>[]mounted => <>[]CaughtUp
=============================================================================
