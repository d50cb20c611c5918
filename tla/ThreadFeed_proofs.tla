-------------------------- MODULE ThreadFeed_proofs --------------------------
(***************************************************************************)
(* Proofs about an open thread, for any number of events and disturbances: *)
(* the text shown reads as the agent wrote it, and the stream resumes from *)
(* no point past what the page has.                                        *)
(*                                                                         *)
(* The caches are filled by recursive functions.  The library's induction  *)
(* theorems take an operator, but induction over a set of numbers follows  *)
(* from its theorems about cardinality (SetInduction), and that is enough  *)
(* to know that these functions exist and what they compute.               *)
(***************************************************************************)
EXTENDS ThreadFeed, SequenceTheorems, FiniteSetTheorems, TLAPS

(***************************************************************************)
(* The invariant.  Its parts are about values, so that what keeps one of   *)
(* them can be said of any record, page or stream: R is the stored events, *)
(* k the run that is open, c the runs handed out whole, h the cached page, *)
(* f the read under way, l the cached live events, p the events not yet in *)
(* the cache, F the cache once they are, s the stream.                     *)
(***************************************************************************)
\* An event: its text has its deltas in it, the newest is its own, and a run is named after its
\* first delta.
Kind == {"running", "text", "tool", "end"}

Event == {e \in [seq : 1..MaxEvents, key : Keys, kind : Kind, text : Seq(1..MaxEvents)] :
            /\ e.key # NoRun
            /\ e.kind = "text" <=> e.key[1] = "text"
            /\ e.kind = "text" => e.key[2] <= e.seq
            /\ e.kind # "text" => e.text = <<e.seq>>
            /\ e.seq \in Range(e.text)
            /\ \A d \in Range(e.text) : d <= e.seq}

\* No two events of a set have one sequence number; at most one is of a projection.
Numbered(events) == \A e, d \in events : e.seq = d.seq => e = d
Single(events) == \A e, d \in events : e.key = d.key => e = d

Sorted(text) == \A i \in 2..Len(text) : text[i - 1] < text[i]

RecordOK(R, v, k, g) ==
  /\ R \subseteq Event /\ Numbered(R)
  /\ v \in Nat \ {0} /\ k \in Keys /\ g \in BOOLEAN
  /\ k # NoRun => k[1] = "text" /\ k[2] <= Newest(R) /\ g
  /\ \A r \in R :
        /\ Sorted(r.text)
        /\ Len(r.text) > 1 => r.key # k /\ \A q \in R : q.key = r.key => q = r
        /\ \A q \in R : r.key = q.key /\ q.seq < r.seq => \A d \in Range(r.text) : d > q.seq

\* What the record has of a projection.
Held(R, key) == UNION {Range(r.text) : r \in {r \in R : r.key = key}}

\* A text is of the record.
OfRecord(R, e) == e.kind = "text" => Range(e.text) \subseteq Held(R, e.key)

\* The run of an event is over, and the event is its last.
Complete(R, k, e) == e.key # k /\ \A d \in Held(R, e.key) : d <= e.seq

\* Every delta of the record up to a point is in the events or past by one of its projection.
Covers(events, R, point) ==
  \A r \in R : \A d \in Range(r.text) :
     d <= point => \E e \in events : e.key = r.key /\ e.seq >= d

\* A page has, of each projection, all that the record had when it was read.
PageOK(R, k, c, page) ==
  /\ page.events \subseteq Event /\ Numbered(page.events) /\ Single(page.events)
  /\ page.latest \in Nat /\ page.revision \in Nat \ {0} /\ page.latest <= Newest(R)
  /\ DOMAIN page = {"events", "latest", "revision"}
  /\ \A e \in page.events :
        /\ e.seq <= page.latest /\ OfRecord(R, e)
        /\ e.kind = "text" => \A d \in Held(R, e.key) : d <= e.seq => d \in Range(e.text)
        /\ e.kind = "text" /\ e.key \notin c => Sorted(e.text) /\ Complete(R, k, e)
  /\ Covers(page.events, R, page.latest)

\* What a live cache may hold beside the page.
LiveOK(R, c, h, events) ==
  /\ events \subseteq Event /\ Numbered(events) /\ Single(events)
  /\ \A e \in events :
        /\ e.seq <= Newest(R) /\ OfRecord(R, e)
        /\ e.kind = "text" /\ e.key \notin c => Sorted(e.text)
        /\ h # NoPage =>
             /\ e.seq > h.latest
             /\ e.kind = "text" =>
                  \A d \in Held(R, e.key) :
                     d <= e.seq => \/ d \in Range(e.text)
                                   \/ \E g \in h.events : g.key = e.key /\ g.seq >= d

\* The flushed cache is made of the cache and of what waits.
PendingOK(l, p, F) ==
  /\ p \in Seq(Event)
  /\ \A e \in F : \E d \in l \union Range(p) : d.key = e.key /\ d.seq = e.seq

FetchOK(R, k, c, h, F, f) ==
  /\ f.phase \in {"idle", "asked", "answered"}
  /\ f.phase = "answered" =>
        /\ PageOK(R, k, c, f.page) /\ h.latest <= f.page.latest
        /\ h = NoPage => \A e \in F : e.seq <= f.page.latest

\* Where the stream resumes.
Point(s) == IF s.last > 0 THEN s.last ELSE s.after

\* The page or the flushed cache has reached d in a projection; the wire carries it.
Reached(h, F, key, d) == \E e \in h.events \union F : e.key = key /\ e.seq >= d
OnWire(w, key, d) == \E i \in 1..Len(w) : w[i].key = key /\ d \in Range(w[i].text)

StreamOK(R, h, p, F, s) ==
  /\ s \in [phase : {"closed", "connecting", "open"}, after : Nat, last : Nat,
            wire : Seq(Event \union {Signal})]
  /\ h = NoPage => s.phase = "closed" /\ p = <<>>
  /\ s.phase # "closed" =>
       /\ s.after = h.latest /\ Point(s) <= Newest(R)
       /\ s.last = 0 \/ s.after < s.last
  /\ s.phase # "open" => s.wire = <<>>
  /\ s.phase = "connecting" => \A r \in R : r.seq <= Point(s) => Reached(h, F, r.key, r.seq)
  /\ s.phase = "open" =>
       \A r \in R : \A d \in Range(r.text) : Reached(h, F, r.key, d) \/ OnWire(s.wire, r.key, d)

\* What the wire carries is past the resume point, in order; an event that is more than one delta
\* is a row of the record, alone of its run.
WireOK(R, c, F, w, from) ==
  \A i \in 1..Len(w) : w[i].kind # "signal" =>
    /\ w[i].seq > from /\ w[i].seq <= Newest(R)
    /\ OfRecord(R, w[i]) /\ Sorted(w[i].text)
    /\ Len(w[i].text) > 1 =>
         /\ w[i] \in R
         /\ w[i].key \notin c => \A e \in F : e.key # w[i].key
         /\ \A j \in 1..Len(w) : j # i => w[j].key # w[i].key
    /\ \A j \in 1..Len(w) : j < i /\ w[j].kind # "signal" =>
         /\ w[j].seq < w[i].seq
         /\ w[j].key = w[i].key => \A d \in Range(w[i].text) : d > w[j].seq

\* A sequence number names one event of one projection, wherever the event is.
Known(R, F, h, f, s) ==
  R \union F \union h.events
    \union (IF f.phase = "answered" THEN f.page.events ELSE {})
    \union {e \in Range(s.wire) : e.kind # "signal"}
Identity(R, F, h, f, s) == \A e, d \in Known(R, F, h, f, s) : e.seq = d.seq => e.key = d.key

FeedInvAt(F) ==
  /\ RecordOK(rows, revision, run, running)
  /\ history # NoPage => PageOK(rows, run, cut, history)
  /\ FetchOK(rows, run, cut, history, F, fetch)
  /\ LiveOK(rows, cut, history, live) /\ LiveOK(rows, cut, history, F)
  /\ PendingOK(live, pending, F)
  /\ StreamOK(rows, history, pending, F, stream)
  /\ WireOK(rows, cut, F, stream.wire, Point(stream))
  /\ Identity(rows, F, history, fetch, stream)
  /\ mounted \in BOOLEAN /\ turbulence \in Nat /\ cut \subseteq Keys
  /\ ~mounted => stream = NoStream /\ pending = <<>> /\ fetch.phase = "idle"

(***************************************************************************)
(* Numbers and sequences                                                   *)
(***************************************************************************)
\* A set of numbers that is closed under the next one has them all.
LEMMA SetInduction ==
  ASSUME NEW S, 0 \in S, \A k \in Nat : k \in S => k + 1 \in S
  PROVE  Nat \subseteq S
<1> SUFFICES ASSUME NEW n \in Nat, n \notin S PROVE FALSE
  OBVIOUS
<1> DEFINE T == {k \in 0..n : k \in S}
           f == [k \in T |-> k + 1]
<1>1. IsFiniteSet(T)
  <2>1. IsFiniteSet(0..n)
    BY FS_Interval
  <2> QED
    BY <2>1, FS_Subset
<1>2. 0 \in T /\ \A k \in T : k \in Nat /\ k + 1 \in T \ {0}
  <2>1. \A k \in T : k \in Nat /\ k + 1 \in S /\ k # n /\ k <= n
    OBVIOUS
  <2> QED
    BY <2>1
<1> HIDE DEF T
<1>3. f \in Injection(T, T \ {0})
  BY <1>2 DEF Injection, IsInjective
<1>4. IsFiniteSet(T \ {0}) /\ Cardinality(T \ {0}) = Cardinality(T) - 1
  BY <1>1, <1>2, FS_RemoveElement
<1>5. Cardinality(T) <= Cardinality(T \ {0})
  <2> HIDE DEF f
  <2> QED
    BY <1>3, <1>4, FS_Injection
<1> QED
  BY <1>1, <1>4, <1>5, FS_CardinalityType

\* A bounded set of numbers has a greatest.
LEMMA Greatest ==
  ASSUME NEW S, S \subseteq Nat, S # {}, NEW n \in Nat, \A x \in S : x <= n
  PROVE  Max(S) \in S /\ \A x \in S : x <= Max(S)
<1> DEFINE B == {k \in Nat : \A x \in S : x <= n - k}
           E == \E m \in S : \A x \in S : x <= m
<1>1. E
  <2> SUFFICES ASSUME ~ E PROVE FALSE
    OBVIOUS
  <2>1. 0 \in B
    OBVIOUS
  <2>2. ASSUME NEW k \in Nat, k \in B PROVE k + 1 \in B
    <3> SUFFICES ASSUME NEW x \in S PROVE x <= n - (k + 1)
      OBVIOUS
    <3>1. x <= n - k /\ \A y \in S : y <= n - k
      BY <2>2
    <3>2. PICK y \in S : ~ (y <= x)
      OBVIOUS
    <3> QED
      BY <3>1, <3>2
  <2>3. n + 1 \in B
    <3> HIDE DEF B
    <3> QED
      BY <2>1, <2>2, SetInduction
  <2>4. PICK x \in S : x \in Nat
    OBVIOUS
  <2>5. x <= n - (n + 1)
    BY <2>3
  <2> QED
    BY <2>4, <2>5
<1>2. \E m \in S : \A y \in S : m >= y
  BY <1>1
<1>3. Max(S) \in S /\ \A y \in S : Max(S) >= y
  BY <1>2 DEF Max
<1> QED
  BY <1>3

\* The newest sequence number of some events.
LEMMA NewestOf ==
  ASSUME NEW events, \A e \in events : e.seq \in 1..MaxEvents
  PROVE  /\ Newest(events) \in Nat /\ Newest(events) <= MaxEvents
         /\ \A e \in events : e.seq <= Newest(events)
         /\ Newest(events) = 0 \/ \E e \in events : e.seq = Newest(events)
         /\ \A n \in Nat : (\A e \in events : e.seq <= n) => Newest(events) <= n
<1> DEFINE S == SeqsOf(events) \union {0}
<1>1. S \subseteq Nat /\ S # {} /\ \A x \in S : x <= MaxEvents
  BY FeedBounds DEF SeqsOf
<1>2. Max(S) \in S /\ \A x \in S : x <= Max(S)
  <2> HIDE DEF S
  <2> QED
    BY <1>1, FeedBounds, Greatest
<1>3. Newest(events) = Max(S)
  BY DEF Newest
<1>4. \A x \in S : x = 0 \/ \E e \in events : e.seq = x
  BY DEF SeqsOf
<1>5. \A e \in events : e.seq \in S
  BY DEF SeqsOf
<1> HIDE DEF S
<1>6. Newest(events) \in Nat /\ Newest(events) <= MaxEvents
  BY <1>1, <1>2, <1>3
<1>7. \A e \in events : e.seq <= Newest(events)
  BY <1>2, <1>3, <1>5
<1>8. Newest(events) = 0 \/ \E e \in events : e.seq = Newest(events)
  BY <1>2, <1>3, <1>4
<1>9. ASSUME NEW n \in Nat, \A e \in events : e.seq <= n PROVE Newest(events) <= n
  BY <1>8, <1>9
<1> QED
  BY <1>6, <1>7, <1>8, <1>9

(***************************************************************************)
(* Events in their order                                                   *)
(***************************************************************************)
\* Events of a bounded record are finitely many.
LEMMA Finitely ==
  ASSUME NEW E, \A e \in E : e.seq \in 1..MaxEvents, Numbered(E)
  PROVE  IsFiniteSet(E)
<1> DEFINE f == [e \in E |-> e.seq]
<1>1. f \in Injection(E, 1..MaxEvents)
  BY DEF Injection, IsInjective, Numbered
<1>2. IsFiniteSet(1..MaxEvents)
  BY FeedBounds, FS_Interval
<1> QED
  <2> HIDE DEF f
  <2> QED
    BY <1>1, <1>2, FS_Injection

\* Events of which fewer come before one that comes earlier.
Before(E, e) == {d \in E : d.seq < e.seq}
Rank(E, e) == Cardinality(Before(E, e))

LEMMA Ranks ==
  ASSUME NEW E, \A e \in E : e.seq \in 1..MaxEvents, Numbered(E)
  PROVE  /\ Cardinality(E) \in Nat
         /\ \A e \in E : Rank(E, e) \in 0..(Cardinality(E) - 1)
         /\ \A e, d \in E : e.seq < d.seq => Rank(E, e) < Rank(E, d)
         /\ \A e, d \in E : Rank(E, e) = Rank(E, d) => e = d
         /\ \A i \in 0..(Cardinality(E) - 1) : \E e \in E : Rank(E, e) = i
<1>1. IsFiniteSet(E) /\ Cardinality(E) \in Nat
  BY Finitely, FS_CardinalityType
<1>2. ASSUME NEW e \in E
      PROVE  IsFiniteSet(Before(E, e)) /\ Rank(E, e) \in Nat /\ Rank(E, e) < Cardinality(E)
  <2>1. Before(E, e) \in SUBSET E /\ e \notin Before(E, e)
    BY DEF Before
  <2>2. /\ IsFiniteSet(Before(E, e)) /\ Rank(E, e) <= Cardinality(E)
        /\ Cardinality(E) = Rank(E, e) => E = Before(E, e)
    BY <1>1, <2>1, FS_Subset DEF Rank
  <2>3. Rank(E, e) \in Nat
    BY <2>2, FS_CardinalityType DEF Rank
  <2> QED
    BY <1>1, <2>1, <2>2, <2>3
<1>3. ASSUME NEW e \in E, NEW d \in E, e.seq < d.seq PROVE Rank(E, e) < Rank(E, d)
  <2>1. Before(E, e) \in SUBSET Before(E, d) /\ e \in Before(E, d) /\ e \notin Before(E, e)
    BY <1>3 DEF Before
  <2>2. /\ Rank(E, e) <= Rank(E, d)
        /\ Rank(E, d) = Rank(E, e) => Before(E, d) = Before(E, e)
    BY <1>2, <2>1, FS_Subset DEF Rank
  <2>3. Rank(E, e) \in Nat /\ Rank(E, d) \in Nat
    BY <1>2
  <2> QED
    BY <2>1, <2>2, <2>3
<1>4. ASSUME NEW e \in E, NEW d \in E, Rank(E, e) = Rank(E, d) PROVE e = d
  <2>1. ~ (e.seq < d.seq) /\ ~ (d.seq < e.seq)
    BY <1>2, <1>3, <1>4
  <2> QED
    BY <2>1 DEF Numbered
<1>5. \A i \in 0..(Cardinality(E) - 1) : \E e \in E : Rank(E, e) = i
  <2> DEFINE n == Cardinality(E)
             f == [e \in E |-> Rank(E, e)]
  <2>1. f \in Injection(E, 0..(n - 1))
    BY <1>1, <1>2, <1>4 DEF Injection, IsInjective
  <2>2. IsFiniteSet(0..(n - 1)) /\ Cardinality(0..(n - 1)) = n
    BY <1>1, FS_Interval
  <2>3. f \in Surjection(E, 0..(n - 1))
    <3> HIDE DEF f, n
    <3>1. Cardinality(E) = n
      BY DEF n
    <3> QED
      BY <2>1, <2>2, <3>1, FS_Injection
  <2> QED
    BY <2>3 DEF Surjection
<1> QED
  BY <1>1, <1>2, <1>3, <1>4, <1>5

LEMMA Ordered ==
  ASSUME NEW E, \A e \in E : e.seq \in 1..MaxEvents, Numbered(E)
  PROVE  /\ InOrder(E) \in Seq(E) /\ Len(InOrder(E)) \in Nat
         /\ DOMAIN InOrder(E) = 1..Len(InOrder(E))
         /\ Range(InOrder(E)) = E
         /\ \A i \in 1..Len(InOrder(E)) : InOrder(E)[i] \in E
         /\ \A i, j \in 1..Len(InOrder(E)) : i < j => InOrder(E)[i].seq < InOrder(E)[j].seq
<1> DEFINE n == Cardinality(E)
           L == InOrder(E)
<1>1. n \in Nat
  BY Ranks
<1>2. L = [i \in 1..n |-> CHOOSE e \in E : Rank(E, e) = i - 1]
  BY DEF InOrder, Rank, Before
<1>3. ASSUME NEW i \in 1..n PROVE L[i] \in E /\ Rank(E, L[i]) = i - 1
  <2>1. i - 1 \in 0..(n - 1)
    BY <1>1
  <2>2. \E e \in E : Rank(E, e) = i - 1
    BY <2>1, Ranks
  <2> HIDE DEF L, n
  <2> QED
    BY <1>2, <2>2
<1> HIDE DEF L
<1>4. L \in [1..n -> E]
  BY <1>2, <1>3
<1>5. L \in Seq(E) /\ Len(L) = n /\ DOMAIN L = 1..n
  BY <1>1, <1>4
<1>6. \A e \in E : \E i \in 1..n : L[i] = e
  <2> SUFFICES ASSUME NEW e \in E PROVE \E i \in 1..n : L[i] = e
    OBVIOUS
  <2>1. Rank(E, e) \in 0..(n - 1)
    BY Ranks
  <2>2. PICK i \in 1..n : Rank(E, e) = i - 1
    <3>1. Rank(E, e) + 1 \in 1..n /\ Rank(E, e) = (Rank(E, e) + 1) - 1
      BY <1>1, <2>1
    <3> QED
      BY <3>1
  <2> QED
    BY <1>3, <2>2, Ranks
<1>7. Range(L) = E
  BY <1>3, <1>5, <1>6 DEF Range
<1>8. ASSUME NEW i \in 1..n, NEW j \in 1..n, i < j PROVE L[i].seq < L[j].seq
  <2>1. L[i] \in E /\ L[j] \in E /\ Rank(E, L[i]) = i - 1 /\ Rank(E, L[j]) = j - 1
    BY <1>3
  <2>2. ~ (L[j].seq < L[i].seq) /\ L[i] # L[j]
    <3>1. i - 1 < j - 1 /\ ~ (j - 1 < i - 1)
      BY <1>1, <1>8
    <3> QED
      BY <2>1, <3>1, Ranks
  <2>3. L[i].seq # L[j].seq
    BY <2>1, <2>2 DEF Numbered
  <2>4. L[i].seq \in Nat /\ L[j].seq \in Nat
    BY <2>1, FeedBounds
  <2> QED
    BY <2>2, <2>3, <2>4
<1> QED
  BY <1>1, <1>3, <1>5, <1>7, <1>8 DEF L

(***************************************************************************)
(* What the events of one projection are together                          *)
(***************************************************************************)
\* f[i] is what the first i events of a list are together.
Joins(f, list, n) == f = [i \in 1..n |-> IF i = 1 THEN list[1] ELSE Projected(f[i - 1], list[i])]

LEMMA JoinExists ==
  ASSUME NEW list, NEW n \in Nat
  PROVE  \E f : Joins(f, list, n)
<1> DEFINE S == {k \in Nat : \E f : Joins(f, list, k)}
<1>1. 0 \in S
  <2>1. Joins(<<>>, list, 0)
    BY DEF Joins
  <2> QED
    BY <2>1
<1>2. ASSUME NEW k \in Nat, k \in S PROVE k + 1 \in S
  <2>1. PICK f : Joins(f, list, k)
    BY <1>2
  <2> DEFINE g == [i \in 1..(k + 1) |->
                     IF i = 1 THEN list[1] ELSE Projected(f[i - 1], list[i])]
  <2>2. \A i \in 1..k : f[i] = IF i = 1 THEN list[1] ELSE Projected(f[i - 1], list[i])
    BY <2>1 DEF Joins
  <2>3. ASSUME NEW i \in 1..(k + 1), i # 1 PROVE g[i - 1] = f[i - 1]
    <3>1. i - 1 \in 1..k /\ i - 1 \in 1..(k + 1)
      BY <2>3
    <3>2. g[i - 1] = IF i - 1 = 1 THEN list[1] ELSE Projected(f[(i - 1) - 1], list[i - 1])
      BY <3>1
    <3> QED
      BY <2>2, <3>1, <3>2
  <2>4. g = [i \in 1..(k + 1) |-> IF i = 1 THEN list[1] ELSE Projected(g[i - 1], list[i])]
    <3>1. \A i \in 1..(k + 1) : (IF i = 1 THEN list[1] ELSE Projected(f[i - 1], list[i]))
                              = (IF i = 1 THEN list[1] ELSE Projected(g[i - 1], list[i]))
      BY <2>3
    <3> QED
      BY <3>1
  <2>5. Joins(g, list, k + 1)
    BY <2>4 DEF Joins
  <2> QED
    BY <2>5
<1>3. n \in S
  <2> HIDE DEF S
  <2> QED
    BY <1>1, <1>2, SetInduction
<1> QED
  BY <1>3

LEMMA WholeJoins ==
  ASSUME NEW E, Len(InOrder(E)) \in Nat
  PROVE  \E f : Joins(f, InOrder(E), Len(InOrder(E))) /\ Whole(E) = f[Len(InOrder(E))]
<1> DEFINE L == InOrder(E)
           n == Len(L)
           f == CHOOSE g : g = [i \in 1..n |-> IF i = 1 THEN L[1] ELSE Projected(g[i - 1], L[i])]
<1>1. Whole(E) = f[n]
  BY DEF Whole
<1>2. \E g : g = [i \in 1..n |-> IF i = 1 THEN L[1] ELSE Projected(g[i - 1], L[i])]
  BY JoinExists DEF Joins
<1>3. f = [i \in 1..n |-> IF i = 1 THEN L[1] ELSE Projected(f[i - 1], L[i])]
  BY <1>2
<1> QED
  BY <1>1, <1>3 DEF Joins

LEMMA EventFields ==
  ASSUME NEW e \in Event
  PROVE  /\ e.seq \in 1..MaxEvents /\ e.seq \in Nat /\ e.key \in Keys /\ e.key # NoRun
         /\ e.kind \in Kind /\ e.text \in Seq(1..MaxEvents)
         /\ e = [seq |-> e.seq, key |-> e.key, kind |-> e.kind, text |-> e.text]
         /\ e.kind = "text" <=> e.key[1] = "text"
         /\ e.kind = "text" => e.key[2] <= e.seq
         /\ e.kind # "text" => e.text = <<e.seq>>
         /\ e.seq \in Range(e.text) /\ \A d \in Range(e.text) : d <= e.seq
BY FeedBounds DEF Event

LEMMA RangeOf == ASSUME NEW S, NEW s \in Seq(S) PROVE Range(s) \subseteq S
<1>1. \A i \in 1..Len(s) : s[i] \in S
  OBVIOUS
<1>2. DOMAIN s = 1..Len(s)
  OBVIOUS
<1> QED
  BY <1>1, <1>2 DEF Range

LEMMA EventText ==
  ASSUME NEW e \in Event
  PROVE  /\ \A d \in Range(e.text) : d \in 1..MaxEvents /\ d \in Nat /\ d <= e.seq
         /\ DOMAIN e.text = 1..Len(e.text) /\ Len(e.text) \in Nat
         /\ ~ (Len(e.text) > 1) => e.text = <<e.seq>>
<1>1. e.text \in Seq(1..MaxEvents) /\ e.seq \in Range(e.text) /\ \A d \in Range(e.text) : d <= e.seq
  BY EventFields
<1>2. Range(e.text) \subseteq 1..MaxEvents
  BY <1>1, RangeOf
<1>3. PICK t \in Seq(1..MaxEvents) : t = e.text
  BY <1>1
<1>4. Len(t) \in Nat /\ DOMAIN t = 1..Len(t)
  BY LenProperties
<1>5. PICK i \in 1..Len(t) : t[i] = e.seq
  BY <1>1, <1>3, <1>4 DEF Range
<1>6. ASSUME ~ (Len(t) > 1) PROVE t = <<e.seq>>
  <2>1. Len(t) = 1 /\ i = 1
    BY <1>4, <1>5, <1>6
  <2> QED
    BY <1>3, <1>4, <1>5, <2>1
<1> QED
  BY <1>1, <1>2, <1>3, <1>4, <1>6, FeedBounds

\* One text after another.
LEMMA TextsJoin ==
  ASSUME NEW a \in Seq(1..MaxEvents), NEW b \in Seq(1..MaxEvents)
  PROVE  /\ a \o b \in Seq(1..MaxEvents)
         /\ Range(a \o b) = Range(a) \union Range(b)
         /\ Sorted(a) /\ Sorted(b) /\ (\A x \in Range(a), y \in Range(b) : x < y) => Sorted(a \o b)
<1> DEFINE n == Len(a)
           k == Len(b)
           t == a \o b
<1>1. /\ t \in Seq(1..MaxEvents) /\ Len(t) = n + k /\ n \in Nat /\ k \in Nat
      /\ DOMAIN a = 1..n /\ DOMAIN b = 1..k /\ DOMAIN t = 1..(n + k)
  OBVIOUS
<1>2. \A i \in 1..(n + k) : t[i] = IF i <= n THEN a[i] ELSE b[i - n]
  OBVIOUS
<1> HIDE DEF n, k, t
<1>3. \A i \in 1..n : i \in 1..(n + k) /\ t[i] = a[i]
  BY <1>1, <1>2
<1>4. \A i \in 1..k : n + i \in 1..(n + k) /\ t[n + i] = b[i]
  <2> SUFFICES ASSUME NEW i \in 1..k PROVE n + i \in 1..(n + k) /\ t[n + i] = b[i]
    OBVIOUS
  <2>1. n + i \in 1..(n + k) /\ ~(n + i <= n) /\ (n + i) - n = i
    BY <1>1
  <2> QED
    BY <1>2, <2>1
<1>5. \A i \in 1..(n + k) : i \in 1..n \/ (i - n \in 1..k /\ i = n + (i - n))
  BY <1>1
<1>6. Range(t) = Range(a) \union Range(b)
  <2>1. ASSUME NEW i \in 1..(n + k) PROVE t[i] \in Range(a) \union Range(b)
    <3>1. CASE i \in 1..n
      BY <1>1, <1>3, <3>1 DEF Range
    <3>2. CASE i - n \in 1..k /\ i = n + (i - n)
      <4>1. t[i] = b[i - n]
        BY <1>4, <3>2
      <4> QED
        BY <1>1, <3>2, <4>1 DEF Range
    <3> QED
      BY <1>5, <3>1, <3>2
  <2>2. \A x \in Range(a) \union Range(b) : x \in Range(t)
    BY <1>1, <1>3, <1>4 DEF Range
  <2>3. \A x \in Range(t) : x \in Range(a) \union Range(b)
    BY <1>1, <2>1 DEF Range
  <2> QED
    BY <2>2, <2>3
<1>7. ASSUME Sorted(a), Sorted(b), \A x \in Range(a), y \in Range(b) : x < y PROVE Sorted(t)
  <2> SUFFICES ASSUME NEW i \in 2..(n + k) PROVE t[i - 1] < t[i]
    BY <1>1 DEF Sorted
  <2>1. i - 1 \in 1..(n + k) /\ i \in 1..(n + k) /\ i \in Nat
    BY <1>1
  <2>2. CASE i <= n
    <3>1. i \in 2..n /\ i - 1 <= n
      BY <1>1, <2>2
    <3>2. a[i - 1] < a[i]
      BY <1>7, <3>1 DEF Sorted, n
    <3> QED
      BY <1>2, <2>1, <2>2, <3>1, <3>2
  <2>3. CASE i = n + 1
    <3>1. i - 1 <= n /\ ~ (i <= n) /\ i - n = 1 /\ i - 1 \in 1..n /\ 1 \in 1..k
      BY <1>1, <2>1, <2>3
    <3>2. a[i - 1] \in Range(a) /\ b[1] \in Range(b)
      BY <1>1, <3>1 DEF Range
    <3>3. t[i - 1] = a[i - 1] /\ t[i] = b[1]
      BY <1>2, <2>1, <3>1
    <3> QED
      BY <1>7, <3>2, <3>3
  <2>4. CASE i > n + 1
    <3>1. ~ (i - 1 <= n) /\ ~ (i <= n) /\ i - n \in 2..k /\ (i - 1) - n = (i - n) - 1
      BY <1>1, <2>1, <2>4
    <3>2. b[(i - n) - 1] < b[i - n]
      BY <1>7, <3>1 DEF Sorted, k
    <3>3. t[i - 1] = b[(i - 1) - n] /\ t[i] = b[i - n]
      BY <1>2, <2>1, <3>1
    <3> QED
      BY <3>1, <3>2, <3>3
  <2> QED
    BY <1>1, <2>1, <2>2, <2>3, <2>4
<1> QED
  BY <1>1, <1>6, <1>7 DEF t

LEMMA ProjectedFields ==
  ASSUME NEW p, NEW e \in Event
  PROVE  /\ Projected(p, e).seq = e.seq /\ Projected(p, e).key = e.key
         /\ Projected(p, e).kind = e.kind
         /\ e.kind # "text" => Projected(p, e) = e
         /\ e.kind = "text" => Projected(p, e).text = p.text \o e.text
         /\ Projected(p, e) = [seq |-> e.seq, key |-> e.key, kind |-> e.kind,
                               text |-> Projected(p, e).text]
<1> DEFINE T == IF e.kind = "text" THEN p.text \o e.text ELSE e.text
<1>1. e \in [seq : 1..MaxEvents, key : Keys, kind : Kind, text : Seq(1..MaxEvents)]
  BY DEF Event
<1>2. Projected(p, e) = [e EXCEPT !.text = T]
  BY DEF Projected
<1> HIDE DEF T
<1>3. [e EXCEPT !.text = T] = [seq |-> e.seq, key |-> e.key, kind |-> e.kind, text |-> T]
  BY <1>1
<1>4. e = [seq |-> e.seq, key |-> e.key, kind |-> e.kind, text |-> e.text]
  BY <1>1
<1>5. /\ Projected(p, e).seq = e.seq /\ Projected(p, e).key = e.key
      /\ Projected(p, e).kind = e.kind /\ Projected(p, e).text = T
  BY <1>2, <1>3
<1>6. Projected(p, e) = [seq |-> e.seq, key |-> e.key, kind |-> e.kind,
                         text |-> Projected(p, e).text]
  BY <1>2, <1>3, <1>5
<1>7. e.kind # "text" => Projected(p, e) = e
  BY <1>4, <1>5, <1>6 DEF T
<1> QED
  BY <1>5, <1>6, <1>7 DEF T

\* A run of text grows by an event.
LEMMA TextGrows ==
  ASSUME NEW p, p.text \in Seq(1..MaxEvents), NEW e \in Event, e.kind = "text",
         \A d \in Range(p.text) : d <= e.seq
  PROVE  Projected(p, e) \in Event /\ Range(Projected(p, e).text) = Range(p.text) \union Range(e.text)
<1> DEFINE q == Projected(p, e)
<1>1. /\ q = [seq |-> e.seq, key |-> e.key, kind |-> e.kind, text |-> q.text]
      /\ q.text = p.text \o e.text
  BY ProjectedFields
<1>2. q.text \in Seq(1..MaxEvents) /\ Range(q.text) = Range(p.text) \union Range(e.text)
  BY <1>1, EventFields, TextsJoin
<1> HIDE DEF q
<1>3. q.seq = e.seq /\ q.key = e.key /\ q.kind = e.kind
  BY <1>1
<1>4. q \in [seq : 1..MaxEvents, key : Keys, kind : Kind, text : Seq(1..MaxEvents)]
  <2>1. e.seq \in 1..MaxEvents /\ e.key \in Keys /\ e.kind \in Kind
    BY EventFields
  <2>2. PICK t : t = q.text
    OBVIOUS
  <2>3. q = [seq |-> e.seq, key |-> e.key, kind |-> e.kind, text |-> t]
    BY <1>1, <2>2
  <2>4. t \in Seq(1..MaxEvents)
    BY <1>2, <2>2
  <2> QED
    BY <2>1, <2>3, <2>4
<1>5. q.seq \in Range(q.text) /\ \A d \in Range(q.text) : d <= q.seq
  BY <1>2, <1>3, EventFields
<1>6. q \in Event
  BY <1>3, <1>4, <1>5, EventFields DEF Event
<1> QED
  BY <1>2, <1>6 DEF q

\* The events of one projection: of one kind, as far as text is concerned.
OneKey(E) == E \subseteq Event /\ Numbered(E) /\ E # {} /\ \A e, d \in E : e.key = d.key

\* The deltas of the first i events of a list.
UpTo(L, i) == UNION {Range(L[j].text) : j \in 1..i}

LEMMA JoinedText ==
  ASSUME NEW E, OneKey(E), NEW f, NEW L, L = InOrder(E), Joins(f, L, Len(L))
  PROVE  /\ Len(L) \in Nat \ {0} /\ \A i \in 1..Len(L) : L[i] \in E
         /\ \A i \in 1..Len(L) : f[i].seq = L[i].seq /\ f[i].key = L[i].key /\ f[i].kind = L[i].kind
         /\ \A i \in 1..Len(L) : L[i].kind # "text" => f[i] = L[i]
         /\ \A i \in 1..Len(L) : L[i].kind = "text" =>
               f[i] \in Event /\ Range(f[i].text) = UpTo(L, i)
<1> DEFINE n == Len(L)
<1>1. \A e \in E : e.seq \in 1..MaxEvents
  BY EventFields DEF OneKey
<1>2. /\ L \in Seq(E) /\ n \in Nat /\ Range(L) = E /\ DOMAIN L = 1..n
      /\ \A i \in 1..n : L[i] \in E
      /\ \A i, j \in 1..n : i < j => L[i].seq < L[j].seq
  BY <1>1, Ordered DEF OneKey
<1>3. n # 0
  BY <1>2 DEF OneKey, Range
<1>4. \A i \in 1..n : f[i] = IF i = 1 THEN L[1] ELSE Projected(f[i - 1], L[i])
  BY DEF Joins
<1>5. \A e \in E : e \in Event
  BY DEF OneKey
<1> HIDE DEF n
<1>6. ASSUME NEW i \in 1..n
      PROVE  /\ f[i].seq = L[i].seq /\ f[i].key = L[i].key /\ f[i].kind = L[i].kind
             /\ L[i].kind # "text" => f[i] = L[i]
  <2>1. L[i] \in Event /\ f[i] = IF i = 1 THEN L[1] ELSE Projected(f[i - 1], L[i])
    BY <1>2, <1>4, <1>5
  <2>2. CASE i = 1
    BY <2>1, <2>2
  <2>3. CASE i # 1
    <3>1. PICK q : q = f[i - 1]
      OBVIOUS
    <3>2. PICK e \in Event : e = L[i]
      BY <2>1
    <3>3. f[i] = Projected(q, e)
      BY <2>1, <2>3, <3>1, <3>2
    <3>4. /\ Projected(q, e).seq = e.seq /\ Projected(q, e).key = e.key
          /\ Projected(q, e).kind = e.kind
          /\ e.kind # "text" => Projected(q, e) = e
      BY ProjectedFields
    <3> QED
      BY <3>2, <3>3, <3>4
  <2> QED
    BY <2>2, <2>3
<1> DEFINE S == {i \in Nat : i \in 1..n /\ L[i].kind = "text" =>
                               f[i] \in Event /\ Range(f[i].text) = UpTo(L, i)}
<1>7. 0 \in S
  OBVIOUS
<1>8. ASSUME NEW i \in Nat, i \in S PROVE i + 1 \in S
  <2> SUFFICES ASSUME i + 1 \in 1..n, L[i + 1].kind = "text"
               PROVE  f[i + 1] \in Event /\ Range(f[i + 1].text) = UpTo(L, i + 1)
    OBVIOUS
  <2>1. L[i + 1] \in Event /\ L[i + 1] \in E
    BY <1>2, <1>5
  <2>2. CASE i = 0
    <3>1. f[i + 1] = L[1] /\ L[i + 1] = L[1]
      BY <1>4, <2>2
    <3>2. UpTo(L, 1) = Range(L[1].text)
      <4>1. \A j : j \in 1..1 <=> j = 1
        OBVIOUS
      <4> QED
        BY <4>1 DEF UpTo
    <3> QED
      BY <2>1, <2>2, <3>1, <3>2
  <2>3. CASE i # 0
    <3>1. i \in 1..n /\ (i + 1) - 1 = i /\ i + 1 # 1 /\ i < i + 1
      BY <1>2, <2>3
    <3>2. L[i].kind = "text" /\ L[i] \in Event /\ L[i].seq < L[i + 1].seq
      <4>1. L[i] \in E /\ L[i] \in Event /\ L[i].key = L[i + 1].key
        BY <1>2, <1>5, <2>1, <3>1 DEF OneKey
      <4>2. L[i].kind = "text"
        BY <2>1, <4>1, EventFields
      <4> QED
        BY <1>2, <3>1, <4>1, <4>2
    <3>3. f[i] \in Event /\ Range(f[i].text) = UpTo(L, i)
      BY <1>8, <3>1, <3>2
    <3>4. f[i + 1] = Projected(f[i], L[i + 1])
      BY <1>4, <3>1
    <3>5. \A d \in Range(f[i].text) : d <= L[i + 1].seq
      <4>1. f[i].seq = L[i].seq /\ f[i].seq \in Nat /\ L[i + 1].seq \in Nat
        BY <1>6, <2>1, <3>1, <3>3, EventFields
      <4>2. ASSUME NEW d \in Range(f[i].text) PROVE d <= L[i + 1].seq
        <5>1. d <= f[i].seq /\ d \in Nat
          BY <3>3, EventText
        <5> QED
          BY <3>2, <4>1, <5>1
      <4> QED
        BY <4>2
    <3>6. /\ f[i + 1] \in Event
          /\ Range(f[i + 1].text) = Range(f[i].text) \union Range(L[i + 1].text)
      <4>1. f[i].text \in Seq(1..MaxEvents)
        BY <3>3, EventFields
      <4> QED
        BY <2>1, <3>4, <3>5, <4>1, TextGrows
    <3>7. UpTo(L, i + 1) = UpTo(L, i) \union Range(L[i + 1].text)
      <4>1. \A j : j \in 1..(i + 1) <=> j \in 1..i \/ j = i + 1
        OBVIOUS
      <4> QED
        BY <4>1 DEF UpTo
    <3> QED
      BY <3>3, <3>6, <3>7
  <2> QED
    BY <2>2, <2>3
<1>9. \A i \in 1..n : L[i].kind = "text" => f[i] \in Event /\ Range(f[i].text) = UpTo(L, i)
  <2> HIDE DEF S
  <2>1. Nat \subseteq S
    BY <1>7, <1>8, SetInduction
  <2> QED
    BY <2>1 DEF S
<1> QED
  BY <1>2, <1>3, <1>6, <1>9 DEF n

\* Texts that follow one another.
Follow(E) == \A e \in E : /\ Sorted(e.text)
                          /\ \A d \in E : d.key = e.key /\ d.seq < e.seq
                                            => \A x \in Range(e.text) : x > d.seq

LEMMA JoinedSorted ==
  ASSUME NEW E, OneKey(E), Follow(E), NEW f, NEW L, L = InOrder(E), Joins(f, L, Len(L)),
         \A e \in E : e.kind = "text"
  PROVE  \A i \in 1..Len(L) : Sorted(f[i].text)
<1> DEFINE n == Len(L)
           S == {i \in Nat : i \in 1..n => Sorted(f[i].text)}
<1>1. \A e \in E : e.seq \in 1..MaxEvents
  BY EventFields DEF OneKey
<1>2. n \in Nat /\ \A i, j \in 1..n : i < j => L[i].seq < L[j].seq
  BY <1>1, Ordered DEF OneKey
<1>3. /\ \A i \in 1..n : L[i] \in E /\ L[i] \in Event /\ L[i].kind = "text"
      /\ \A i \in 1..n : f[i].seq = L[i].seq /\ f[i] \in Event
  BY JoinedText DEF OneKey
<1>4. \A i \in 1..n : f[i] = IF i = 1 THEN L[1] ELSE Projected(f[i - 1], L[i])
  BY DEF Joins
<1> HIDE DEF n
<1>5. 0 \in S
  OBVIOUS
<1>6. ASSUME NEW i \in Nat, i \in S PROVE i + 1 \in S
  <2> SUFFICES ASSUME i + 1 \in 1..n PROVE Sorted(f[i + 1].text)
    OBVIOUS
  <2>1. CASE i = 0
    <3>1. f[i + 1] = L[1] /\ 1 \in 1..n
      BY <1>4, <2>1
    <3> QED
      BY <1>3, <3>1 DEF Follow
  <2>2. CASE i # 0
    <3>1. i \in 1..n /\ (i + 1) - 1 = i /\ i + 1 # 1 /\ i < i + 1
      BY <1>2, <2>2
    <3>2. PICK p \in Event : p = f[i]
      BY <1>3, <3>1
    <3>3. PICK e \in Event : e = L[i + 1]
      BY <1>3
    <3>4. f[i + 1] = Projected(p, e) /\ e.kind = "text" /\ e \in E
      BY <1>3, <1>4, <3>1, <3>2, <3>3
    <3>5. f[i + 1].text = p.text \o e.text
      BY <3>4, ProjectedFields
    <3>6. Sorted(p.text) /\ Sorted(e.text)
      BY <1>6, <3>1, <3>2, <3>4 DEF Follow
    <3>7. p.seq < e.seq /\ \A y \in Range(e.text) : y > p.seq
      <4>1. L[i].seq < L[i + 1].seq /\ L[i] \in E /\ p.seq = L[i].seq
        BY <1>2, <1>3, <3>1, <3>2
      <4>2. L[i].key = e.key
        BY <3>4, <4>1 DEF OneKey
      <4> QED
        BY <3>3, <3>4, <4>1, <4>2 DEF Follow
    <3>8. \A x \in Range(p.text), y \in Range(e.text) : x < y
      <4> SUFFICES ASSUME NEW x \in Range(p.text), NEW y \in Range(e.text) PROVE x < y
        OBVIOUS
      <4>1. x \in Nat /\ x <= p.seq /\ y \in Nat /\ p.seq \in Nat
        BY EventText, EventFields
      <4> QED
        BY <3>7, <4>1
    <3>9. p.text \in Seq(1..MaxEvents) /\ e.text \in Seq(1..MaxEvents)
      BY EventFields
    <3> QED
      BY <3>5, <3>6, <3>8, <3>9, TextsJoin
  <2> QED
    BY <2>1, <2>2
<1>7. \A i \in 1..n : Sorted(f[i].text)
  <2> HIDE DEF S
  <2>1. Nat \subseteq S
    BY <1>5, <1>6, SetInduction
  <2> QED
    BY <2>1 DEF S
<1> QED
  BY <1>7 DEF n

LEMMA WholeOf ==
  ASSUME NEW E, OneKey(E)
  PROVE  /\ Whole(E) \in Event
         /\ \A e \in E : /\ Whole(E).key = e.key /\ e.seq <= Whole(E).seq
                         /\ Whole(E).kind = "text" <=> e.kind = "text"
         /\ \E e \in E : e.seq = Whole(E).seq /\ e.kind = Whole(E).kind /\ e.key = Whole(E).key
         /\ Whole(E).kind = "text" => Range(Whole(E).text) = UNION {Range(e.text) : e \in E}
         /\ Whole(E).kind = "text" /\ Follow(E) => Sorted(Whole(E).text)
         /\ \A e : E = {e} => Whole(E) = e
<1>1. PICK L : L = InOrder(E)
  OBVIOUS
<1> DEFINE n == Len(L)
<1>2. \A e \in E : e.seq \in 1..MaxEvents /\ e \in Event
  BY EventFields DEF OneKey
<1>3. /\ L \in Seq(E) /\ n \in Nat /\ Range(L) = E /\ DOMAIN L = 1..n
      /\ \A i \in 1..n : L[i] \in E
      /\ \A i, j \in 1..n : i < j => L[i].seq < L[j].seq
  BY <1>1, <1>2, Ordered DEF OneKey
<1>4. PICK f : Joins(f, L, n) /\ Whole(E) = f[n]
  BY <1>1, <1>3, WholeJoins
<1>5. /\ n \in Nat \ {0}
      /\ \A i \in 1..n : f[i].seq = L[i].seq /\ f[i].key = L[i].key /\ f[i].kind = L[i].kind
      /\ \A i \in 1..n : L[i].kind # "text" => f[i] = L[i]
      /\ \A i \in 1..n : L[i].kind = "text" =>
            f[i] \in Event /\ Range(f[i].text) = UpTo(L, i)
  BY <1>1, <1>4, JoinedText
<1>6. ASSUME Follow(E), \A e \in E : e.kind = "text" PROVE Sorted(f[n].text)
  <2>1. \A i \in 1..n : Sorted(f[i].text)
    BY <1>1, <1>4, <1>6, JoinedSorted
  <2> QED
    BY <1>5, <2>1
<1>7. UpTo(L, n) = UNION {Range(e.text) : e \in E}
  <2>1. \A e \in E : \E j \in 1..n : L[j] = e
    BY <1>3 DEF Range
  <2> QED
    BY <1>3, <2>1 DEF UpTo
<1>8. \A i \in 1..n : f[1] = L[1]
  BY <1>4 DEF Joins
<1> HIDE DEF n
<1>9. n \in 1..n /\ 1 \in 1..n
  BY <1>5
<1>10. L[n] \in E /\ L[n] \in Event
  BY <1>2, <1>3, <1>9
<1>11. \A e \in E : e.key = L[n].key /\ (e.kind = "text" <=> L[n].kind = "text")
  <2>1. \A e \in E : e.key = L[n].key
    BY <1>10 DEF OneKey
  <2>2. \A e \in E : e.kind = "text" <=> e.key[1] = "text"
    BY <1>2, EventFields
  <2> QED
    BY <1>10, <2>1, <2>2
<1>12. \A e \in E : e.seq <= L[n].seq
  <2> SUFFICES ASSUME NEW e \in E PROVE e.seq <= L[n].seq
    OBVIOUS
  <2>1. PICK j \in 1..n : L[j] = e
    BY <1>3 DEF Range
  <2>2. j = n \/ j < n
    BY <1>5
  <2>3. e.seq \in Nat /\ L[n].seq \in Nat
    BY <1>2, <1>10, FeedBounds
  <2>4. j < n => e.seq < L[n].seq
    BY <1>3, <1>9, <2>1
  <2> QED
    BY <2>1, <2>2, <2>3, <2>4
<1>13. f[n].seq = L[n].seq /\ f[n].key = L[n].key /\ f[n].kind = L[n].kind
  BY <1>5, <1>9
<1>14. f[n] \in Event /\ (L[n].kind = "text" => Range(f[n].text) = UNION {Range(e.text) : e \in E})
  <2>1. L[n].kind # "text" => f[n] = L[n]
    BY <1>5, <1>9
  <2>2. L[n].kind = "text" =>
            f[n] \in Event /\ Range(f[n].text) = UpTo(L, n)
    BY <1>5, <1>9
  <2> QED
    BY <1>7, <1>10, <2>1, <2>2
<1>15. ASSUME NEW e, E = {e} PROVE f[n] = e
  <2>1. n = 1
    <3> SUFFICES ASSUME 1 < n PROVE FALSE
      BY <1>5
    <3>1. L[1] = e /\ L[n] = e /\ L[1].seq < L[n].seq
      BY <1>3, <1>9, <1>15
    <3>2. e.seq \in Nat
      BY <1>2, <1>15, FeedBounds
    <3> QED
      BY <3>1, <3>2
  <2> QED
    BY <1>3, <1>8, <1>9, <1>15, <2>1
<1>16. /\ \A e \in E : f[n].key = e.key /\ e.seq <= f[n].seq /\ (f[n].kind = "text" <=> e.kind = "text")
       /\ \E e \in E : e.seq = f[n].seq /\ e.kind = f[n].kind /\ e.key = f[n].key
  BY <1>10, <1>11, <1>12, <1>13
<1>17. f[n].kind = "text" /\ Follow(E) => Sorted(f[n].text)
  BY <1>6, <1>16
<1> QED
  BY <1>4, <1>13, <1>14, <1>15, <1>16, <1>17

(***************************************************************************)
(* Two lists that become one                                               *)
(***************************************************************************)
Both(A, B) == A \union {e \in B : e.seq \notin SeqsOf(A)}
Of(E, key) == {e \in E : e.key = key}

\* c is what the events of its projection among E are together.
Together(c, E) ==
  /\ \E e \in E : e.key = c.key /\ e.seq = c.seq /\ e.kind = c.kind
  /\ \A e \in E : e.key = c.key => e.seq <= c.seq /\ (e.kind = "text" <=> c.kind = "text")
  /\ c.kind = "text" => \A d : d \in Range(c.text) <=>
                                \E e \in E : e.key = c.key /\ d \in Range(e.text)
  /\ c.kind = "text" /\ Follow(Of(E, c.key)) => Sorted(c.text)
  /\ \A e : Of(E, c.key) = {e} => c = e

LEMMA BothOf ==
  ASSUME NEW A, NEW B, A \subseteq Event, B \subseteq Event, Numbered(A), Numbered(B)
  PROVE  Both(A, B) \subseteq Event /\ Numbered(Both(A, B))
<1>1. Both(A, B) \subseteq Event
  BY DEF Both
<1>2. ASSUME NEW e \in Both(A, B), NEW d \in Both(A, B), e.seq = d.seq PROVE e = d
  <2>1. \A x \in A : x.seq \in SeqsOf(A)
    BY DEF SeqsOf
  <2> QED
    BY <1>2, <2>1 DEF Both, Numbered
<1> QED
  BY <1>1, <1>2 DEF Numbered

LEMMA CoalescedOf ==
  ASSUME NEW A, NEW B, A \subseteq Event, B \subseteq Event, Numbered(A), Numbered(B),
         NEW C, C = Coalesced(A, B), NEW E, E = Both(A, B)
  PROVE  /\ C \subseteq Event /\ Single(C) /\ Numbered(C)
         /\ \A e \in E : \E c \in C : c.key = e.key /\ c.seq >= e.seq
         /\ \A c \in C : Together(c, E)
<1>1. E \subseteq Event /\ Numbered(E)
  BY BothOf
<1>2. C = {Whole(Of(E, key)) : key \in KeysOf(E)}
  BY DEF Coalesced, Both, Of
<1>3. ASSUME NEW e \in E PROVE OneKey(Of(E, e.key)) /\ e.key \in KeysOf(E)
  BY <1>1 DEF OneKey, Of, Numbered, KeysOf
<1>4. ASSUME NEW e \in E, NEW c, c = Whole(Of(E, e.key))
      PROVE  c \in Event /\ c.key = e.key /\ Together(c, E)
  <2>1. PICK G : G = Of(E, e.key)
    OBVIOUS
  <2>2. OneKey(G) /\ e \in G /\ c = Whole(G)
    BY <1>3, <1>4, <2>1 DEF Of
  <2>3. /\ c \in Event
        /\ \A x \in G : c.key = x.key /\ x.seq <= c.seq /\ (c.kind = "text" <=> x.kind = "text")
        /\ \E x \in G : x.seq = c.seq /\ x.kind = c.kind /\ x.key = c.key
    BY <2>2, WholeOf
  <2>4. c.kind = "text" => Range(c.text) = UNION {Range(x.text) : x \in G}
    BY <2>2, WholeOf
  <2>5. c.kind = "text" /\ Follow(G) => Sorted(c.text)
    BY <2>2, WholeOf
  <2>6. \A x : G = {x} => c = x
    BY <2>2, WholeOf
  <2>7. c.key = e.key /\ G = Of(E, c.key) /\ \A x : x \in G <=> x \in E /\ x.key = c.key
    BY <2>1, <2>2, <2>3 DEF Of
  <2>8. ASSUME c.kind = "text", NEW d
        PROVE  d \in Range(c.text) <=> \E x \in E : x.key = c.key /\ d \in Range(x.text)
    BY <2>4, <2>7, <2>8
  <2> QED
    BY <2>3, <2>5, <2>6, <2>7, <2>8 DEF Together
<1>5. \A c \in C : \E e \in E : c = Whole(Of(E, e.key))
  BY <1>2 DEF KeysOf
<1>6. \A e \in E : Whole(Of(E, e.key)) \in C
  BY <1>2, <1>3
<1>7. C \subseteq Event
  BY <1>4, <1>5
<1>8. Single(C)
  <2> SUFFICES ASSUME NEW c \in C, NEW d \in C, c.key = d.key PROVE c = d
    BY DEF Single
  <2>1. PICK e \in E : c = Whole(Of(E, e.key))
    BY <1>5
  <2>2. PICK x \in E : d = Whole(Of(E, x.key))
    BY <1>5
  <2>3. e.key = x.key
    BY <1>4, <2>1, <2>2
  <2> QED
    BY <2>1, <2>2, <2>3
<1>9. \A c \in C : Together(c, E)
  BY <1>4, <1>5
<1>10. Numbered(C)
  <2> SUFFICES ASSUME NEW c \in C, NEW d \in C, c.seq = d.seq PROVE c = d
    BY DEF Numbered
  <2>1. PICK e \in E : e.key = c.key /\ e.seq = c.seq
    BY <1>9 DEF Together
  <2>2. PICK x \in E : x.key = d.key /\ x.seq = d.seq
    BY <1>9 DEF Together
  <2>3. e = x
    BY <1>1, <2>1, <2>2 DEF Numbered
  <2> QED
    BY <1>8, <2>1, <2>2, <2>3 DEF Single
<1>11. ASSUME NEW e \in E PROVE \E c \in C : c.key = e.key /\ c.seq >= e.seq
  <2>1. PICK c : c = Whole(Of(E, e.key))
    OBVIOUS
  <2>2. c \in C /\ c.key = e.key /\ e.seq <= c.seq
    BY <1>4, <1>6, <2>1 DEF Together
  <2>3. e.seq \in Nat /\ c.seq \in Nat
    BY <1>1, <1>7, <2>2, EventFields
  <2> QED
    BY <2>2, <2>3
<1> QED
  BY <1>7, <1>8, <1>9, <1>10, <1>11

(***************************************************************************)
(* The live cache                                                          *)
(***************************************************************************)
\* What the cache l is once the events p are flushed into it.
FlushedOf(l, p) ==
  LET upTo[i \in 0..Len(p)] == IF i = 0 THEN l ELSE Merged(upTo[i - 1], p[i])
  IN  upTo[Len(p)]

LEMMA FlushedNow == Flushed = FlushedOf(live, pending) /\ Flushed' = FlushedOf(live', pending')
BY DEF Flushed, FlushedOf

Merges(f, l, p, n) == f = [i \in 0..n |-> IF i = 0 THEN l ELSE Merged(f[i - 1], p[i])]

LEMMA MergeExists ==
  ASSUME NEW l, NEW p, NEW n \in Nat
  PROVE  \E f : Merges(f, l, p, n)
<1> DEFINE S == {k \in Nat : \E f : Merges(f, l, p, k)}
<1>1. 0 \in S
  <2>1. PICK f : f = [i \in 0..0 |-> l]
    OBVIOUS
  <2>2. \A i \in 0..0 : i = 0
    OBVIOUS
  <2>3. Merges(f, l, p, 0)
    BY <2>1, <2>2 DEF Merges
  <2> QED
    BY <2>3
<1>2. ASSUME NEW k \in Nat, k \in S PROVE k + 1 \in S
  <2>1. PICK f : Merges(f, l, p, k)
    BY <1>2
  <2> DEFINE g == [i \in 0..(k + 1) |-> IF i = 0 THEN l ELSE Merged(f[i - 1], p[i])]
  <2>2. \A i \in 0..k : f[i] = IF i = 0 THEN l ELSE Merged(f[i - 1], p[i])
    BY <2>1 DEF Merges
  <2>3. ASSUME NEW i \in 0..(k + 1), i # 0 PROVE g[i - 1] = f[i - 1]
    <3>1. i - 1 \in 0..k /\ i - 1 \in 0..(k + 1)
      BY <2>3
    <3>2. g[i - 1] = IF i - 1 = 0 THEN l ELSE Merged(f[(i - 1) - 1], p[i - 1])
      BY <3>1
    <3> QED
      BY <2>2, <3>1, <3>2
  <2>4. \A i \in 0..(k + 1) : (IF i = 0 THEN l ELSE Merged(f[i - 1], p[i]))
                              = (IF i = 0 THEN l ELSE Merged(g[i - 1], p[i]))
    BY <2>3
  <2>5. Merges(g, l, p, k + 1)
    BY <2>4 DEF Merges
  <2> QED
    BY <2>5
<1>3. n \in S
  <2> HIDE DEF S
  <2> QED
    BY <1>1, <1>2, SetInduction
<1> QED
  BY <1>3

LEMMA FlushedMerges ==
  ASSUME NEW l, NEW p, Len(p) \in Nat
  PROVE  \E f : Merges(f, l, p, Len(p)) /\ FlushedOf(l, p) = f[Len(p)]
<1> DEFINE n == Len(p)
           f == CHOOSE g : g = [i \in 0..n |-> IF i = 0 THEN l ELSE Merged(g[i - 1], p[i])]
<1>1. FlushedOf(l, p) = f[n]
  BY DEF FlushedOf
<1>2. \E g : g = [i \in 0..n |-> IF i = 0 THEN l ELSE Merged(g[i - 1], p[i])]
  <2>1. \E g : Merges(g, l, p, n)
    BY MergeExists
  <2> QED
    BY <2>1 DEF Merges
<1>3. f = [i \in 0..n |-> IF i = 0 THEN l ELSE Merged(f[i - 1], p[i])]
  BY <1>2
<1> QED
  BY <1>1, <1>3 DEF Merges

LEMMA NothingFlushed == ASSUME NEW l PROVE FlushedOf(l, <<>>) = l
<1>1. Len(<<>>) = 0
  OBVIOUS
<1>2. PICK f : Merges(f, l, <<>>, 0) /\ FlushedOf(l, <<>>) = f[0]
  BY <1>1, FlushedMerges
<1> QED
  BY <1>2 DEF Merges

LEMMA OneMoreFlushed ==
  ASSUME NEW l, NEW p \in Seq(Event), NEW e \in Event
  PROVE  FlushedOf(l, Append(p, e)) = Merged(FlushedOf(l, p), e)
<1> DEFINE n == Len(p)
<1>1. PICK q : q = Append(p, e)
  OBVIOUS
<1>2. n \in Nat /\ Len(q) = n + 1 /\ q[n + 1] = e /\ \A i \in 1..n : q[i] = p[i]
  BY <1>1, AppendProperties
<1>3. PICK f : Merges(f, l, p, n) /\ FlushedOf(l, p) = f[n]
  BY <1>2, FlushedMerges
<1>4. PICK g : Merges(g, l, q, n + 1) /\ FlushedOf(l, q) = g[n + 1]
  BY <1>2, FlushedMerges
<1> HIDE DEF n
<1> DEFINE S == {i \in Nat : i \in 0..n => f[i] = g[i]}
<1>5. 0 \in S
  BY <1>2, <1>3, <1>4 DEF Merges
<1>6. ASSUME NEW i \in Nat, i \in S PROVE i + 1 \in S
  <2> SUFFICES ASSUME i + 1 \in 0..n PROVE f[i + 1] = g[i + 1]
    OBVIOUS
  <2>1. i \in 0..n /\ i + 1 \in 1..n /\ i + 1 \in 0..(n + 1) /\ i + 1 # 0 /\ (i + 1) - 1 = i
    BY <1>2
  <2>2. f[i + 1] = Merged(f[i], p[i + 1])
    BY <1>3, <2>1 DEF Merges
  <2>3. g[i + 1] = Merged(g[i], q[i + 1])
    BY <1>4, <2>1 DEF Merges
  <2> QED
    BY <1>2, <1>6, <2>1, <2>2, <2>3
<1>7. f[n] = g[n]
  <2> HIDE DEF S
  <2>1. Nat \subseteq S
    BY <1>5, <1>6, SetInduction
  <2> QED
    BY <1>2, <2>1 DEF S
<1>8. g[n + 1] = Merged(g[n], q[n + 1])
  <2>1. n + 1 \in 0..(n + 1) /\ n + 1 # 0 /\ (n + 1) - 1 = n
    BY <1>2
  <2> QED
    BY <1>4, <2>1 DEF Merges
<1> QED
  BY <1>1, <1>2, <1>3, <1>4, <1>7, <1>8

\* An event in the cache: it is put together with what was there of its projection, unless that
\* is newer.
\* In the cache X an event e, newer than what X has of its projection, becomes y.
Taken(X, e, Y, y) ==
  /\ Y = {x \in X : x.key # e.key} \union {y}
  /\ \A x \in X : x.seq # e.seq /\ (x.key = e.key => x.seq < e.seq)
  /\ y.seq = e.seq /\ y.key = e.key /\ y.kind = e.kind
  /\ (\A x \in X : x.key # e.key) => y = e
  /\ \A x \in X : x.key = e.key /\ e.kind = "text" =>
        /\ x.kind = "text"
        /\ Range(y.text) = Range(x.text) \union Range(e.text)
        /\ Sorted(x.text) /\ Sorted(e.text) /\ (\A d \in Range(e.text) : d > x.seq)
              => Sorted(y.text)

LEMMA MergedOf ==
  ASSUME NEW X, X \subseteq Event, Numbered(X), Single(X), NEW e \in Event,
         \A x \in X : x.seq = e.seq => x.key = e.key,
         NEW Y, Y = Merged(X, e)
  PROVE  \/ Y = X /\ \E x \in X : x.key = e.key /\ x.seq >= e.seq
         \/ \E y \in Event : Taken(X, e, Y, y)
<1> DEFINE same == {x \in X : x.key = e.key}
<1>1. Y = IF e.seq \in SeqsOf(X) \/ \E x \in same : x.seq >= e.seq
          THEN X
          ELSE (X \ same) \union {IF same = {} THEN e ELSE Projected(CHOOSE x \in same : TRUE, e)}
  BY DEF Merged
<1>2. e.seq \in Nat /\ \A x \in X : x.seq \in Nat /\ x \in Event
  BY EventFields
<1>3. CASE e.seq \in SeqsOf(X) \/ \E x \in same : x.seq >= e.seq
  <2>1. \E x \in X : x.key = e.key /\ x.seq >= e.seq
    BY <1>2, <1>3 DEF SeqsOf
  <2> QED
    BY <1>1, <1>3, <2>1
<1>4. CASE ~ (e.seq \in SeqsOf(X) \/ \E x \in same : x.seq >= e.seq)
  <2>1. \A x \in X : x.seq # e.seq /\ (x.key = e.key => x.seq < e.seq)
    BY <1>2, <1>4 DEF SeqsOf
  <2>2. X \ same = {x \in X : x.key # e.key}
    OBVIOUS
  <2>3. PICK y : y = IF same = {} THEN e ELSE Projected(CHOOSE x \in same : TRUE, e)
    OBVIOUS
  <2>4. Y = {x \in X : x.key # e.key} \union {y}
    BY <1>1, <1>4, <2>2, <2>3
  <2>5. CASE same = {}
    <3>1. y = e /\ \A x \in X : x.key # e.key
      BY <2>3, <2>5
    <3>2. \A u \in X : ~ (u.key = e.key /\ e.kind = "text")
      BY <3>1
    <3> QED
      BY <2>1, <2>4, <3>1, <3>2 DEF Taken
  <2>6. CASE same # {}
    <3>1. PICK p : p = CHOOSE x \in same : TRUE
      OBVIOUS
    <3>2. p \in X /\ p.key = e.key /\ p \in Event
      BY <1>2, <2>6, <3>1
    <3>3. \A x \in X : x.key = e.key => x = p
      BY <3>2 DEF Single
    <3>4. y = Projected(p, e)
      BY <2>3, <2>6, <3>1
    <3>5. /\ y.seq = e.seq /\ y.key = e.key /\ y.kind = e.kind
          /\ e.kind # "text" => y = e
          /\ e.kind = "text" => y.text = p.text \o e.text
      BY <3>4, ProjectedFields
    <3>6. p.text \in Seq(1..MaxEvents) /\ e.text \in Seq(1..MaxEvents) /\ p.seq < e.seq /\ p.seq \in Nat
      BY <1>2, <2>1, <3>2, EventFields
    <3>7. /\ \A d \in Range(p.text) : d \in Nat /\ d <= p.seq
          /\ \A d \in Range(e.text) : d \in Nat
      BY <3>2, EventText
    <3>8. e.kind = "text" => y \in Event /\ Range(y.text) = Range(p.text) \union Range(e.text)
      <4>1. \A d \in Range(p.text) : d <= e.seq
        BY <1>2, <3>6, <3>7
      <4> QED
        BY <3>4, <3>6, <4>1, TextGrows
    <3>9. e.kind = "text" => p.kind = "text"
      BY <3>2, EventFields
    <3>10. ASSUME e.kind = "text", Sorted(p.text), Sorted(e.text), \A d \in Range(e.text) : d > p.seq
           PROVE  Sorted(y.text)
      <4>1. \A u \in Range(p.text), v \in Range(e.text) : u < v
        BY <3>6, <3>7, <3>10
      <4> QED
        BY <3>5, <3>6, <3>10, <4>1, TextsJoin
    <3>11. y \in Event
      BY <3>5, <3>8
    <3>12. ASSUME NEW x \in X, x.key = e.key, e.kind = "text"
           PROVE  /\ x.kind = "text" /\ Range(y.text) = Range(x.text) \union Range(e.text)
                  /\ Sorted(x.text) /\ Sorted(e.text) /\ (\A d \in Range(e.text) : d > x.seq)
                        => Sorted(y.text)
      BY <3>3, <3>8, <3>9, <3>10, <3>12
    <3> QED
      BY <2>1, <2>4, <3>2, <3>5, <3>11, <3>12 DEF Taken
  <2> QED
    BY <2>5, <2>6
<1> QED
  BY <1>3, <1>4

(***************************************************************************)
(* The record                                                              *)
(***************************************************************************)

LEMMA HeldBy ==
  ASSUME NEW R, NEW key, NEW d
  PROVE  d \in Held(R, key) <=> \E r \in R : r.key = key /\ d \in Range(r.text)
BY DEF Held

LEMMA KeyParts ==
  ASSUME NEW key \in Keys
  PROVE  key[2] \in Nat
BY FeedBounds DEF Keys, NoRun

LEMMA RecordFacts ==
  ASSUME NEW R, R \subseteq Event
  PROVE  /\ \A r \in R : /\ r \in Event /\ r.seq \in 1..MaxEvents /\ r.seq \in Nat
                         /\ r.seq \in Range(r.text)
                         /\ \A d \in Range(r.text) : d \in Nat /\ d <= r.seq
         /\ Newest(R) \in Nat /\ Newest(R) <= MaxEvents
         /\ \A r \in R : r.seq <= Newest(R)
         /\ Newest(R) = 0 \/ \E r \in R : r.seq = Newest(R)
         /\ \A n \in Nat : (\A r \in R : r.seq <= n) => Newest(R) <= n
<1>1. \A r \in R : /\ r \in Event /\ r.seq \in 1..MaxEvents /\ r.seq \in Nat
                   /\ r.seq \in Range(r.text)
                   /\ \A d \in Range(r.text) : d \in Nat /\ d <= r.seq
  BY EventFields, EventText
<1> QED
  BY <1>1, NewestOf

LEMMA SameKind ==
  ASSUME NEW e \in Event, NEW d \in Event, e.key = d.key
  PROVE  e.kind = "text" <=> d.kind = "text"
BY EventFields

(***************************************************************************)
(* A record that grows                                                     *)
(***************************************************************************)
\* What the record has is kept, though rows may be put together; what is new is newer, and belongs
\* to the open run or to a run that starts with it.
Grown(R, k, R2, k2) ==
  /\ R \subseteq Event /\ R2 \subseteq Event /\ Newest(R) <= Newest(R2)
  /\ \A r \in R2 : r.seq > Newest(R) \/ \E q \in R : q.key = r.key /\ q.seq = r.seq
  /\ \A r \in R : r.kind = "text" =>
        \A d \in Range(r.text) : \E q \in R2 : q.key = r.key /\ d \in Range(q.text)
  /\ \A r \in R2 : \A d \in Range(r.text) :
        \/ \E q \in R : q.key = r.key /\ d \in Range(q.text)
        \/ d > Newest(R) /\ (r.kind = "text" => r.key = k \/ r.key[2] > Newest(R))
  /\ \A r \in R : Len(r.text) > 1 => r \in R2
  /\ k2 \in {k, NoRun} \/ k2[2] > Newest(R)

LEMMA GrownByNothing ==
  ASSUME NEW R, R \subseteq Event, NEW k
  PROVE  Grown(R, k, R, k)
BY RecordFacts DEF Grown

\* A text event of the record: its deltas stay in the record, and new ones are newer than it.
LEMMA GrownText ==
  ASSUME NEW R, NEW k, NEW R2, NEW k2, Grown(R, k, R2, k2),
         NEW e \in Event, e.kind = "text", e.seq <= Newest(R)
  PROVE  /\ Held(R, e.key) \subseteq Held(R2, e.key)
         /\ \A d \in Held(R2, e.key) : d \in Nat /\ (d \in Held(R, e.key) \/ d > Newest(R))
         /\ \A d \in Held(R2, e.key) : d \in Held(R, e.key) \/ e.key = k
         /\ e.key # k => e.key # k2
<1>1. e.key[2] \in Nat /\ e.key[2] <= e.seq /\ e.seq \in Nat /\ e.key # NoRun /\ Newest(R) \in Nat
  BY EventFields, KeyParts, RecordFacts DEF Grown
<1>2. R \subseteq Event /\ R2 \subseteq Event
  BY DEF Grown
<1>3. ASSUME NEW d \in Held(R, e.key) PROVE d \in Held(R2, e.key)
  <2>1. PICK r \in R : r.key = e.key /\ d \in Range(r.text)
    BY HeldBy
  <2>2. r.kind = "text"
    BY <1>2, <2>1, SameKind
  <2>3. PICK q \in R2 : q.key = r.key /\ d \in Range(q.text)
    BY <2>1, <2>2 DEF Grown
  <2> QED
    BY <2>1, <2>3, HeldBy
<1>4. ASSUME NEW d \in Held(R2, e.key)
      PROVE  d \in Nat /\ (d \in Held(R, e.key) \/ (d > Newest(R) /\ e.key = k))
  <2>1. PICK r \in R2 : r.key = e.key /\ d \in Range(r.text)
    BY HeldBy
  <2>2. r.kind = "text" /\ d \in Nat
    BY <1>2, <2>1, SameKind, RecordFacts
  <2>3. CASE \E q \in R : q.key = r.key /\ d \in Range(q.text)
    BY <2>1, <2>2, <2>3, HeldBy
  <2>4. CASE d > Newest(R) /\ (r.key = k \/ r.key[2] > Newest(R))
    BY <1>1, <2>1, <2>2, <2>4
  <2> QED
    BY <2>1, <2>2, <2>3, <2>4 DEF Grown
<1>5. e.key # k => e.key # k2
  BY <1>1 DEF Grown
<1> QED
  BY <1>3, <1>4, <1>5

LEMMA CoversKept ==
  ASSUME NEW R, NEW k, NEW R2, NEW k2, Grown(R, k, R2, k2),
         NEW events, NEW point \in Nat, point <= Newest(R), Covers(events, R, point)
  PROVE  Covers(events, R2, point)
<1>1. ASSUME NEW r \in R2, NEW d \in Range(r.text), d <= point
      PROVE  \E e \in events : e.key = r.key /\ e.seq >= d
  <2>1. d \in Nat /\ Newest(R) \in Nat
    BY RecordFacts DEF Grown
  <2>2. PICK q \in R : q.key = r.key /\ d \in Range(q.text)
    BY <1>1, <2>1 DEF Grown
  <2> QED
    BY <1>1, <2>2 DEF Covers
<1> QED
  BY <1>1 DEF Covers

LEMMA PageKept ==
  ASSUME NEW R, NEW k, NEW R2, NEW k2, Grown(R, k, R2, k2), NEW c, NEW c2, c \subseteq c2,
         NEW page, PageOK(R, k, c, page)
  PROVE  PageOK(R2, k2, c2, page)
<1>1. Newest(R) \in Nat /\ Newest(R2) \in Nat /\ Newest(R) <= Newest(R2) /\ page.latest \in Nat
      /\ page.latest <= Newest(R)
  BY RecordFacts DEF Grown, PageOK
<1>2. Covers(page.events, R2, page.latest)
  BY <1>1, CoversKept DEF PageOK
<1>3. ASSUME NEW e \in page.events
      PROVE  /\ e.seq <= page.latest /\ OfRecord(R2, e)
             /\ e.kind = "text" => \A d \in Held(R2, e.key) : d <= e.seq => d \in Range(e.text)
             /\ e.kind = "text" /\ e.key \notin c2 => Sorted(e.text) /\ Complete(R2, k2, e)
  <2>1. e \in Event /\ e.seq \in Nat /\ e.seq <= page.latest /\ e.seq <= Newest(R)
    BY <1>1, EventFields DEF PageOK
  <2>2. CASE e.kind # "text"
    BY <2>1, <2>2 DEF OfRecord
  <2>3. CASE e.kind = "text"
    <3>1. /\ Held(R, e.key) \subseteq Held(R2, e.key)
          /\ \A d \in Held(R2, e.key) : d \in Nat /\ (d \in Held(R, e.key) \/ d > Newest(R))
          /\ \A d \in Held(R2, e.key) : d \in Held(R, e.key) \/ e.key = k
          /\ e.key # k => e.key # k2
      BY <2>1, <2>3, GrownText
    <3>2. OfRecord(R2, e)
      BY <2>3, <3>1 DEF PageOK, OfRecord
    <3>3. \A d \in Held(R2, e.key) : d <= e.seq => d \in Range(e.text)
      BY <1>1, <2>1, <2>3, <3>1 DEF PageOK
    <3>4. e.key \notin c2 => Sorted(e.text) /\ Complete(R2, k2, e)
      BY <2>3, <3>1 DEF PageOK, Complete
    <3> QED
      BY <2>1, <3>2, <3>3, <3>4
  <2> QED
    BY <2>2, <2>3
<1> QED
  BY <1>1, <1>2, <1>3 DEF PageOK

LEMMA LiveKept ==
  ASSUME NEW R, NEW k, NEW R2, NEW k2, Grown(R, k, R2, k2), NEW c, NEW c2, c \subseteq c2,
         NEW h, NEW E, LiveOK(R, c, h, E)
  PROVE  LiveOK(R2, c2, h, E)
<1>1. Newest(R) \in Nat /\ Newest(R2) \in Nat /\ Newest(R) <= Newest(R2)
  BY RecordFacts DEF Grown
<1>2. ASSUME NEW e \in E
      PROVE  /\ e.seq <= Newest(R2) /\ OfRecord(R2, e)
             /\ e.kind = "text" /\ e.key \notin c2 => Sorted(e.text)
             /\ h # NoPage /\ e.kind = "text" =>
                  \A d \in Held(R2, e.key) :
                     d <= e.seq => \/ d \in Range(e.text)
                                   \/ \E g \in h.events : g.key = e.key /\ g.seq >= d
  <2>1. e \in Event /\ e.seq \in Nat /\ e.seq <= Newest(R)
    BY EventFields DEF LiveOK
  <2>2. CASE e.kind # "text"
    BY <1>1, <2>1, <2>2 DEF OfRecord
  <2>3. CASE e.kind = "text"
    <3>1. /\ Held(R, e.key) \subseteq Held(R2, e.key)
          /\ \A d \in Held(R2, e.key) : d \in Nat /\ (d \in Held(R, e.key) \/ d > Newest(R))
      BY <2>1, <2>3, GrownText
    <3>2. OfRecord(R2, e)
      BY <2>3, <3>1 DEF LiveOK, OfRecord
    <3>3. e.key \notin c2 => Sorted(e.text)
      BY <2>3 DEF LiveOK
    <3>4. ASSUME h # NoPage, NEW d \in Held(R2, e.key), d <= e.seq
          PROVE  d \in Range(e.text) \/ \E g \in h.events : g.key = e.key /\ g.seq >= d
      <4>1. d \in Held(R, e.key)
        BY <1>1, <2>1, <3>1, <3>4
      <4> QED
        BY <2>3, <3>4, <4>1 DEF LiveOK
    <3> QED
      BY <1>1, <2>1, <3>2, <3>3, <3>4
  <2> QED
    BY <2>2, <2>3
<1> QED
  BY <1>2 DEF LiveOK

LEMMA FetchKept ==
  ASSUME NEW R, NEW k, NEW R2, NEW k2, Grown(R, k, R2, k2), NEW c, NEW c2, c \subseteq c2,
         NEW h, NEW F, NEW f, FetchOK(R, k, c, h, F, f)
  PROVE  FetchOK(R2, k2, c2, h, F, f)
<1>1. f.phase = "answered" => PageOK(R2, k2, c2, f.page)
  BY PageKept DEF FetchOK
<1> QED
  BY <1>1 DEF FetchOK

LEMMA Appended ==
  ASSUME NEW S, NEW w \in Seq(S), NEW e \in S, NEW w2, w2 = Append(w, e)
  PROVE  /\ w2 \in Seq(S) /\ Len(w) \in Nat /\ Len(w2) = Len(w) + 1
         /\ \A i \in 1..Len(w) : w2[i] = w[i] /\ w2[i] \in S
         /\ w2[Len(w) + 1] = e
<1>1. w2 \in Seq(S) /\ Len(w) \in Nat /\ Len(w2) = Len(w) + 1 /\ w2[Len(w) + 1] = e
      /\ \A i \in 1..Len(w) : w2[i] = w[i]
  BY AppendProperties, LenProperties
<1>2. \A i \in 1..Len(w) : w[i] \in S
  BY ElementOfSeq
<1> QED
  BY <1>1, <1>2

LEMMA SentOn ==
  ASSUME NEW S, NEW w \in Seq(S), NEW e \in S, NEW key, NEW d
  PROVE  OnWire(Append(w, e), key, d) <=> OnWire(w, key, d) \/ (e.key = key /\ d \in Range(e.text))
<1>1. PICK w2 : w2 = Append(w, e)
  OBVIOUS
<1>2. Len(w) \in Nat /\ Len(w2) = Len(w) + 1 /\ w2[Len(w) + 1] = e
      /\ \A i \in 1..Len(w) : w2[i] = w[i]
  BY <1>1, Appended
<1>3. OnWire(w2, key, d) <=> OnWire(w, key, d) \/ (e.key = key /\ d \in Range(e.text))
  BY <1>2 DEF OnWire
<1> QED
  BY <1>1, <1>3

Sending(s, e) == IF s.phase = "open" THEN [s EXCEPT !.wire = Append(@, e)] ELSE s

LEMMA SendingFields ==
  ASSUME NEW s \in [phase : {"closed", "connecting", "open"}, after : Nat, last : Nat,
                    wire : Seq(Event \union {Signal})],
         NEW e \in Event \union {Signal}, NEW s2, s2 = Sending(s, e)
  PROVE  /\ s2 \in [phase : {"closed", "connecting", "open"}, after : Nat, last : Nat,
                    wire : Seq(Event \union {Signal})]
         /\ s2.phase = s.phase /\ s2.after = s.after /\ s2.last = s.last /\ Point(s2) = Point(s)
         /\ s.phase # "open" => s2 = s
         /\ s.phase = "open" => s2.wire = Append(s.wire, e)
         /\ s2.wire = s.wire \/ s2.wire = Append(s.wire, e)
         /\ s.wire \in Seq(Event \union {Signal}) /\ Point(s) \in Nat
<1>1. s.wire \in Seq(Event \union {Signal}) /\ Append(s.wire, e) \in Seq(Event \union {Signal})
  BY AppendProperties
<1>2. s.phase = "open" => s2 = [s EXCEPT !.wire = Append(s.wire, e)]
  BY DEF Sending
<1>3. s.phase # "open" => s2 = s
  BY DEF Sending
<1>4. CASE s.phase = "open"
  <2>1. /\ s2 \in [phase : {"closed", "connecting", "open"}, after : Nat, last : Nat,
                    wire : Seq(Event \union {Signal})]
        /\ s2.phase = s.phase /\ s2.after = s.after /\ s2.last = s.last /\ s2.wire = Append(s.wire, e)
    BY <1>1, <1>2, <1>4
  <2> QED
    BY <1>1, <1>4, <2>1 DEF Point
<1>5. CASE s.phase # "open"
  BY <1>1, <1>3, <1>5 DEF Point
<1> QED
  BY <1>4, <1>5

\* The stream holds on while the record grows, if what is new is sent on it.
LEMMA StreamKept ==
  ASSUME NEW R, NEW k, NEW R2, NEW k2, Grown(R, k, R2, k2), NEW h, NEW p, NEW F, NEW s,
         StreamOK(R, h, p, F, s), NEW e \in Event \union {Signal}, NEW s2,
         s2 = s \/ s2 = Sending(s, e),
         \A r \in R2 : \A d \in Range(r.text) :
            \/ \E q \in R : q.key = r.key /\ d \in Range(q.text)
            \/ s2 = Sending(s, e) /\ e.key = r.key /\ d \in Range(e.text)
  PROVE  StreamOK(R2, h, p, F, s2)
<1> DEFINE Streams == [phase : {"closed", "connecting", "open"}, after : Nat, last : Nat,
                       wire : Seq(Event \union {Signal})]
<1>1. s \in Streams
  BY DEF StreamOK
<1>2. PICK x : x = Sending(s, e)
  OBVIOUS
<1>3. /\ s2 \in Streams
      /\ s2.phase = s.phase /\ s2.after = s.after /\ s2.last = s.last /\ Point(s2) = Point(s)
      /\ s.phase # "open" => s2 = s
      /\ s2 = x /\ s.phase = "open" => s2.wire = Append(s.wire, e)
      /\ s2.wire = s.wire \/ s2.wire = Append(s.wire, e)
      /\ s.wire \in Seq(Event \union {Signal}) /\ Point(s) \in Nat
  BY <1>1, <1>2, SendingFields
<1>4. Newest(R) \in Nat /\ Newest(R2) \in Nat /\ Newest(R) <= Newest(R2)
  BY RecordFacts DEF Grown
<1>5. s2.phase # "closed" => /\ s2.after = h.latest /\ Point(s2) <= Newest(R2)
                             /\ s2.last = 0 \/ s2.after < s2.last
  BY <1>3, <1>4 DEF StreamOK
<1>6. ASSUME s2.phase = "connecting", NEW r \in R2, r.seq <= Point(s2)
      PROVE  Reached(h, F, r.key, r.seq)
  <2>1. Point(s) <= Newest(R) /\ s.phase = "connecting"
    BY <1>3, <1>6 DEF StreamOK
  <2>2. r.seq \in Nat
    BY RecordFacts DEF Grown
  <2>3. PICK q \in R : q.key = r.key /\ q.seq = r.seq
    BY <1>3, <1>4, <1>6, <2>1, <2>2 DEF Grown
  <2> QED
    BY <1>3, <1>6, <2>1, <2>3 DEF StreamOK
<1>7. ASSUME s2.phase = "open", NEW r \in R2, NEW d \in Range(r.text)
      PROVE  Reached(h, F, r.key, d) \/ OnWire(s2.wire, r.key, d)
  <2>1. PICK w : w = Append(s.wire, e)
    OBVIOUS
  <2>2. PICK u : u = s.wire
    OBVIOUS
  <2>3. \A key, y : OnWire(w, key, y) <=> OnWire(u, key, y) \/ (e.key = key /\ y \in Range(e.text))
    <3>1. PICK S : S = Event \union {Signal}
      OBVIOUS
    <3>2. u \in Seq(S) /\ w = Append(u, e) /\ e \in S
      BY <1>3, <2>1, <2>2, <3>1
    <3> QED
      BY <3>2, SentOn
  <2>4. \A key : OnWire(s.wire, key, d) => OnWire(s2.wire, key, d)
    BY <1>3, <2>1, <2>3, <2>2
  <2>5. CASE \E q \in R : q.key = r.key /\ d \in Range(q.text)
    BY <1>3, <1>7, <2>4, <2>5 DEF StreamOK
  <2>6. CASE s2 = Sending(s, e) /\ e.key = r.key /\ d \in Range(e.text)
    <3>1. s2.wire = Append(s.wire, e)
      BY <1>2, <1>3, <1>7, <2>6
    <3> QED
      BY <2>1, <2>6, <2>3, <3>1
  <2> QED
    BY <2>5, <2>6
<1>8. (h = NoPage => s2.phase = "closed" /\ p = <<>>) /\ (s2.phase # "open" => s2.wire = <<>>)
  BY <1>3 DEF StreamOK
<1> QED
  BY <1>3, <1>5, <1>6, <1>7, <1>8 DEF StreamOK

LEMMA WireKept ==
  ASSUME NEW R, NEW k, NEW R2, NEW k2, Grown(R, k, R2, k2), NEW c, NEW c2, c \subseteq c2,
         NEW F, NEW w \in Seq(Event \union {Signal}), NEW from, WireOK(R, c, F, w, from)
  PROVE  WireOK(R2, c2, F, w, from)
<1>1. Newest(R) \in Nat /\ Newest(R2) \in Nat /\ Newest(R) <= Newest(R2)
  BY RecordFacts DEF Grown
<1>2. ASSUME NEW i \in 1..Len(w), w[i].kind # "signal"
      PROVE  /\ w[i].seq <= Newest(R2) /\ OfRecord(R2, w[i])
             /\ Len(w[i].text) > 1 => w[i] \in R2
  <2>1. w[i] \in Event
    BY <1>2, ElementOfSeq DEF Signal
  <2>2. w[i].seq \in Nat /\ w[i].seq <= Newest(R)
    BY <1>2, <2>1, EventFields DEF WireOK
  <2>3. w[i].kind = "text" => Held(R, w[i].key) \subseteq Held(R2, w[i].key)
    BY <2>1, <2>2, GrownText
  <2>4. OfRecord(R2, w[i])
    BY <1>2, <2>3 DEF WireOK, OfRecord
  <2>5. Len(w[i].text) > 1 => w[i] \in R2
    BY <1>2 DEF WireOK, Grown
  <2> QED
    BY <1>1, <2>2, <2>4, <2>5
<1>3. ASSUME NEW i \in 1..Len(w), w[i].kind # "signal", Len(w[i].text) > 1, w[i].key \notin c2
      PROVE  \A e \in F : e.key # w[i].key
  BY <1>3 DEF WireOK
<1> QED
  BY <1>2, <1>3 DEF WireOK

\* A signal is sent after what is under way.
LEMMA WireSignal ==
  ASSUME NEW R, NEW c, NEW F, NEW w \in Seq(Event \union {Signal}), NEW from, WireOK(R, c, F, w, from)
  PROVE  WireOK(R, c, F, Append(w, Signal), from)
<1>1. PICK w2 : w2 = Append(w, Signal)
  OBVIOUS
<1>2. Len(w) \in Nat /\ Len(w2) = Len(w) + 1 /\ w2[Len(w) + 1] = Signal
      /\ \A i \in 1..Len(w) : w2[i] = w[i]
  BY <1>1, Appended
<1>3. Signal.kind = "signal" /\ Signal.key = NoRun
  BY DEF Signal
<1>4. \A i \in 1..Len(w) : w[i].kind # "signal" => w[i] \in Event /\ w[i].key # NoRun
  BY <1>3, ElementOfSeq, EventFields
<1>5. ASSUME NEW i \in 1..Len(w2), w2[i].kind # "signal"
      PROVE  /\ i \in 1..Len(w) /\ w2[i] = w[i]
             /\ Len(w[i].text) > 1 => \A j \in 1..Len(w2) : j # i => w2[j].key # w2[i].key
             /\ \A j \in 1..Len(w2) : j < i => j \in 1..Len(w) /\ w2[j] = w[j]
  <2>1. i \in 1..Len(w) /\ w2[i] = w[i]
    BY <1>2, <1>3, <1>5
  <2>2. ASSUME Len(w[i].text) > 1, NEW j \in 1..Len(w2), j # i PROVE w2[j].key # w2[i].key
    <3>1. CASE j \in 1..Len(w)
      BY <1>2, <1>5, <2>1, <2>2, <3>1 DEF WireOK
    <3>2. CASE j = Len(w) + 1
      BY <1>2, <1>3, <1>4, <1>5, <2>1, <3>2
    <3> QED
      BY <1>2, <3>1, <3>2
  <2>3. \A j \in 1..Len(w2) : j < i => j \in 1..Len(w) /\ w2[j] = w[j]
    BY <1>2, <2>1
  <2> QED
    BY <2>1, <2>2, <2>3
<1>6. WireOK(R, c, F, w2, from)
  BY <1>5 DEF WireOK
<1> QED
  BY <1>1, <1>6

\* A newer event of one delta is sent after what is under way.
LEMMA WireEvent ==
  ASSUME NEW R, R \subseteq Event, NEW c, NEW F, NEW w \in Seq(Event \union {Signal}),
         NEW from \in Nat, WireOK(R, c, F, w, from),
         NEW e \in R, e.text = <<e.seq>>, from < e.seq,
         \A i \in 1..Len(w) : w[i].kind # "signal" => w[i].seq < e.seq,
         \A i \in 1..Len(w) : w[i].kind # "signal" /\ Len(w[i].text) > 1 => w[i].key # e.key
  PROVE  WireOK(R, c, F, Append(w, e), from)
<1>1. PICK w2 : w2 = Append(w, e)
  OBVIOUS
<1>2. Len(w) \in Nat /\ Len(w2) = Len(w) + 1 /\ w2[Len(w) + 1] = e
      /\ \A i \in 1..Len(w) : w2[i] = w[i]
  BY <1>1, Appended
<1>3. e \in Event /\ e.seq \in Nat /\ e.seq <= Newest(R)
  BY RecordFacts
<1>4. Len(e.text) = 1 /\ Range(e.text) = {e.seq}
  <2>1. PICK n : n = e.seq
    OBVIOUS
  <2>2. Len(<<n>>) = 1 /\ DOMAIN <<n>> = 1..1 /\ <<n>>[1] = n
    OBVIOUS
  <2>3. Range(<<n>>) = {n}
    BY <2>2 DEF Range
  <2> QED
    BY <2>1, <2>2, <2>3
<1>5. OfRecord(R, e) /\ Sorted(e.text)
  <2>1. \A d \in Range(e.text) : d \in Held(R, e.key)
    BY HeldBy
  <2>2. Sorted(e.text)
    BY <1>4 DEF Sorted
  <2> QED
    BY <2>1, <2>2 DEF OfRecord
<1>6. ASSUME NEW i \in 1..Len(w2), w2[i].kind # "signal"
      PROVE  /\ w2[i].seq > from /\ w2[i].seq <= Newest(R)
             /\ OfRecord(R, w2[i]) /\ Sorted(w2[i].text)
             /\ Len(w2[i].text) > 1 =>
                  /\ w2[i] \in R
                  /\ w2[i].key \notin c => \A x \in F : x.key # w2[i].key
                  /\ \A j \in 1..Len(w2) : j # i => w2[j].key # w2[i].key
             /\ \A j \in 1..Len(w2) : j < i /\ w2[j].kind # "signal" =>
                  /\ w2[j].seq < w2[i].seq
                  /\ w2[j].key = w2[i].key => \A d \in Range(w2[i].text) : d > w2[j].seq
  <2>1. CASE i \in 1..Len(w)
    <3>1. w2[i] = w[i] /\ \A j \in 1..Len(w2) : j < i => j \in 1..Len(w) /\ w2[j] = w[j]
      BY <1>2, <2>1
    <3>2. ASSUME Len(w[i].text) > 1, NEW j \in 1..Len(w2), j # i PROVE w2[j].key # w[i].key
      <4>1. CASE j \in 1..Len(w)
        BY <1>2, <1>6, <2>1, <3>1, <3>2, <4>1 DEF WireOK
      <4>2. CASE j = Len(w) + 1
        BY <1>2, <1>6, <2>1, <3>1, <3>2, <4>2
      <4> QED
        BY <1>2, <4>1, <4>2
    <3> QED
      BY <1>6, <2>1, <3>1, <3>2 DEF WireOK
  <2>2. CASE i = Len(w) + 1
    <3>1. w2[i] = e
      BY <1>2, <2>2
    <3>2. \A j \in 1..Len(w2) : j < i => j \in 1..Len(w) /\ w2[j] = w[j]
      BY <1>2, <2>2
    <3>3. \A j \in 1..Len(w2) : j < i /\ w2[j].kind # "signal" =>
             w2[j].seq < e.seq /\ \A d \in Range(e.text) : d > w2[j].seq
      <4>1. ASSUME NEW j \in 1..Len(w2), j < i, w2[j].kind # "signal" PROVE w2[j].seq \in Nat /\ w2[j].seq < e.seq
        <5>1. w2[j] \in Event \union {Signal}
          BY <3>2, <4>1, ElementOfSeq
        <5>2. w2[j].seq \in Nat
          BY <4>1, <5>1, EventFields DEF Signal
        <5> QED
          BY <3>2, <4>1, <5>2
      <4> QED
        BY <1>3, <1>4, <4>1
    <3>4. e.seq > from /\ ~ (Len(e.text) > 1)
      BY <1>3, <1>4
    <3> QED
      BY <1>3, <1>5, <3>1, <3>3, <3>4
  <2> QED
    BY <1>2, <2>1, <2>2
<1>7. WireOK(R, c, F, w2, from)
  BY <1>6 DEF WireOK
<1> QED
  BY <1>1, <1>7

\* Names stay with their projections while every event is an older one, or has a new number.
LEMMA IdentityKept ==
  ASSUME NEW K, NEW K2, \A e, d \in K : e.seq = d.seq => e.key = d.key, NEW n,
         \A e \in K : e.seq # n.seq,
         \A e \in K2 : (\E d \in K : d.seq = e.seq /\ d.key = e.key) \/ e = n
  PROVE  \A e, d \in K2 : e.seq = d.seq => e.key = d.key
<1>1. ASSUME NEW e \in K2, NEW d \in K2, e.seq = d.seq PROVE e.key = d.key
  <2>1. CASE e = n \/ d = n
    BY <1>1, <2>1
  <2>2. CASE e # n /\ d # n
    BY <1>1, <2>2
  <2> QED
    BY <2>1, <2>2
<1> QED
  BY <1>1

LEMMA IdentityStays ==
  ASSUME NEW K, NEW K2, \A e, d \in K : e.seq = d.seq => e.key = d.key,
         \A e \in K2 : \E d \in K : d.seq = e.seq /\ d.key = e.key
  PROVE  \A e, d \in K2 : e.seq = d.seq => e.key = d.key
<1>1. ASSUME NEW e \in K2, NEW d \in K2, e.seq = d.seq PROVE e.key = d.key
  BY <1>1
<1> QED
  BY <1>1

(***************************************************************************)
(* Pages                                                                   *)
(***************************************************************************)
\* The rows of one run follow one another.
LEMMA RowsFollow ==
  ASSUME NEW R, NEW v, NEW k, NEW g, RecordOK(R, v, k, g), NEW key
  PROVE  Follow(Of(R, key))
BY DEF Follow, Of, RecordOK

LEMMA ReadPage ==
  ASSUME NEW R, NEW v, NEW k, NEW g, RecordOK(R, v, k, g), NEW c2, k = NoRun \/ k \in c2,
         NEW C, C = Coalesced({}, R),
         NEW page, page.events = C, page.latest = Newest(R), page.revision = v,
         DOMAIN page = {"events", "latest", "revision"}
  PROVE  /\ PageOK(R, k, c2, page) /\ page.latest = Newest(R)
         /\ \A e \in page.events : \E r \in R : r.seq = e.seq /\ r.key = e.key
<1>1. R \subseteq Event /\ Numbered(R) /\ v \in Nat \ {0}
  BY DEF RecordOK
<1>2. R = Both({}, R) /\ {} \subseteq Event /\ Numbered({})
  BY DEF Both, SeqsOf, Numbered
<1>3. /\ C \subseteq Event /\ Single(C) /\ Numbered(C)
      /\ \A e \in R : \E x \in C : x.key = e.key /\ x.seq >= e.seq
      /\ \A x \in C : Together(x, R)
  BY <1>1, <1>2, CoalescedOf
<1>4. Newest(R) \in Nat /\ \A r \in R : /\ r \in Event /\ r.seq \in Nat /\ r.seq <= Newest(R)
                                        /\ \A d \in Range(r.text) : d \in Nat /\ d <= r.seq
  BY <1>1, RecordFacts
<1>5. ASSUME NEW e \in C
      PROVE  /\ e.seq <= Newest(R) /\ OfRecord(R, e)
             /\ e.kind = "text" => \A d \in Held(R, e.key) : d <= e.seq => d \in Range(e.text)
             /\ e.kind = "text" /\ e.key \notin c2 => Sorted(e.text) /\ Complete(R, k, e)
             /\ \E r \in R : r.seq = e.seq /\ r.key = e.key
  <2>1. Together(e, R) /\ e \in Event /\ e.seq \in Nat /\ e.key # NoRun
    BY <1>3, EventFields
  <2>2. \E r \in R : r.seq = e.seq /\ r.key = e.key
    BY <2>1 DEF Together
  <2>3. e.seq <= Newest(R)
    BY <1>4, <2>2
  <2>4. e.kind = "text" => \A d : d \in Range(e.text) <=> d \in Held(R, e.key)
    BY <2>1, HeldBy DEF Together
  <2>5. e.kind = "text" => Sorted(e.text)
    BY <2>1, RowsFollow DEF Together
  <2>6. ASSUME NEW d \in Held(R, e.key) PROVE d <= e.seq
    <3>1. PICK r \in R : r.key = e.key /\ d \in Range(r.text)
      BY HeldBy
    <3> QED
      BY <1>4, <2>1, <3>1 DEF Together
  <2>7. e.key \notin c2 => e.key # k
    BY <2>1
  <2> QED
    BY <2>2, <2>3, <2>4, <2>5, <2>6, <2>7 DEF OfRecord, Complete
<1>6. Covers(C, R, Newest(R))
  <2>1. ASSUME NEW r \in R, NEW d \in Range(r.text) PROVE \E e \in C : e.key = r.key /\ e.seq >= d
    <3>1. PICK e \in C : e.key = r.key /\ e.seq >= r.seq
      BY <1>3
    <3>2. e.seq \in Nat /\ r.seq \in Nat /\ d \in Nat /\ d <= r.seq
      BY <1>3, <1>4, EventFields
    <3> QED
      BY <3>1, <3>2
  <2> QED
    BY <2>1 DEF Covers
<1> QED
  BY <1>1, <1>3, <1>4, <1>5, <1>6 DEF PageOK

LEMMA MergedPage ==
  ASSUME NEW R, R \subseteq Event, NEW k, NEW c, NEW h, PageOK(R, k, c, h), NEW P, PageOK(R, k, c, P),
         h.latest <= P.latest, \A e \in h.events, d \in P.events : e.seq = d.seq => e.key = d.key,
         NEW C, C = Coalesced(h.events, P.events),
         NEW page, page.events = C, page.latest = P.latest, page.revision = P.revision,
         DOMAIN page = {"events", "latest", "revision"}
  PROVE  /\ PageOK(R, k, c, page) /\ page.latest = P.latest
         /\ \A e \in page.events : \E d \in h.events \union P.events : d.seq = e.seq /\ d.key = e.key
<1>1. PICK A, B : A = h.events /\ B = P.events
  OBVIOUS
<1>2. C = Coalesced(A, B)
  BY <1>1
<1>3. PICK E : E = Both(A, B)
  OBVIOUS
<1>4. A \subseteq Event /\ Numbered(A) /\ Single(A) /\ B \subseteq Event /\ Numbered(B) /\ Single(B)
  BY <1>1 DEF PageOK
<1>5. /\ C \subseteq Event /\ Single(C) /\ Numbered(C)
      /\ \A e \in E : \E x \in C : x.key = e.key /\ x.seq >= e.seq
      /\ \A x \in C : Together(x, E)
  BY <1>2, <1>3, <1>4, CoalescedOf
<1>6. \A e : e \in E <=> e \in A \/ (e \in B /\ \A a \in A : a.seq # e.seq)
  BY <1>3 DEF Both, SeqsOf
<1>7. h.latest \in Nat /\ P.latest \in Nat /\ P.revision \in Nat \ {0} /\ P.latest <= Newest(R)
  BY DEF PageOK
<1>8. ASSUME NEW e \in E
      PROVE  /\ e \in Event /\ e.seq \in Nat /\ e.seq <= P.latest /\ OfRecord(R, e)
             /\ e.kind = "text" => \A d \in Held(R, e.key) : d <= e.seq => d \in Range(e.text)
             /\ e.kind = "text" /\ e.key \notin c => Sorted(e.text) /\ Complete(R, k, e)
  <2>1. e \in Event /\ e.seq \in Nat
    BY <1>4, <1>6, EventFields
  <2>2. CASE e \in A
    BY <1>1, <1>7, <2>1, <2>2 DEF PageOK
  <2>3. CASE e \in B
    BY <1>1, <1>7, <2>1, <2>3 DEF PageOK
  <2> QED
    BY <1>6, <2>1, <2>2, <2>3
<1>9. \* Two events of a run that is over and whole in both are one.
       ASSUME NEW e \in E, NEW d \in E, e.key = d.key, e.kind = "text", e.key \notin c
       PROVE  e = d
  <2>1. d.kind = "text" /\ Complete(R, k, e) /\ Complete(R, k, d)
    BY <1>8, <1>9, SameKind
  <2>2. e.seq \in Held(R, e.key) /\ d.seq \in Held(R, e.key)
    <3>1. e.seq \in Range(e.text) /\ d.seq \in Range(d.text)
      BY <1>8, EventFields
    <3> QED
      BY <1>8, <1>9, <2>1, <3>1 DEF OfRecord
  <2>3. e.seq = d.seq
    BY <1>8, <1>9, <2>1, <2>2 DEF Complete
  <2> QED
    BY <1>4, <1>6, <1>9, <2>3 DEF Single
<1>10. ASSUME NEW x \in C
       PROVE  /\ x.seq <= P.latest /\ OfRecord(R, x)
              /\ x.kind = "text" => \A d \in Held(R, x.key) : d <= x.seq => d \in Range(x.text)
              /\ x.kind = "text" /\ x.key \notin c => Sorted(x.text) /\ Complete(R, k, x)
              /\ \E d \in A \union B : d.seq = x.seq /\ d.key = x.key
  <2>1. PICK e \in E : e.key = x.key /\ e.seq = x.seq /\ e.kind = x.kind
    BY <1>5 DEF Together
  <2>2. x.kind = "text" => \A d : d \in Range(x.text) <=> \E y \in E : y.key = x.key /\ d \in Range(y.text)
    BY <1>5 DEF Together
  <2>3. ASSUME x.kind = "text", NEW d \in Range(x.text) PROVE d \in Held(R, x.key)
    <3>1. PICK y \in E : y.key = x.key /\ d \in Range(y.text)
      BY <2>2, <2>3
    <3>2. y.kind = "text"
      BY <1>8, <2>1, <2>3, <3>1, SameKind
    <3> QED
      BY <1>8, <3>1, <3>2 DEF OfRecord
  <2>4. ASSUME x.kind = "text", NEW d \in Held(R, x.key), d <= x.seq PROVE d \in Range(x.text)
    BY <1>8, <2>1, <2>2, <2>4
  <2>5. ASSUME x.kind = "text", x.key \notin c PROVE Sorted(x.text) /\ Complete(R, k, x)
    <3>1. Of(E, x.key) = {e}
      BY <1>9, <2>1, <2>5 DEF Of
    <3>2. x = e
      BY <1>5, <3>1 DEF Together
    <3> QED
      BY <1>8, <2>5, <3>2
  <2>6. \E d \in A \union B : d.seq = x.seq /\ d.key = x.key
    BY <1>6, <2>1
  <2>7. x.seq <= P.latest
    BY <1>8, <2>1
  <2> QED
    BY <2>3, <2>4, <2>5, <2>6, <2>7 DEF OfRecord
<1>11. Covers(C, R, P.latest)
  <2>1. ASSUME NEW r \in R, NEW d \in Range(r.text), d <= P.latest
        PROVE  \E x \in C : x.key = r.key /\ x.seq >= d
    <3>1. PICK b \in B : b.key = r.key /\ b.seq >= d
      BY <1>1, <2>1 DEF PageOK, Covers
    <3>2. PICK e \in E : e.key = b.key /\ e.seq = b.seq
      BY <1>1, <1>6, <3>1
    <3>3. PICK x \in C : x.key = e.key /\ x.seq >= e.seq
      BY <1>5
    <3>4. x.seq \in Nat /\ e.seq \in Nat /\ d \in Nat
      BY <1>5, <1>8, RecordFacts, EventFields
    <3> QED
      BY <3>1, <3>2, <3>3, <3>4
  <2> QED
    BY <2>1 DEF Covers
<1> QED
  BY <1>1, <1>5, <1>7, <1>10, <1>11 DEF PageOK

(***************************************************************************)
(* The server's steps                                                      *)
(***************************************************************************)
LEMMA OneDelta ==
  ASSUME NEW n \in 1..MaxEvents
  PROVE  /\ <<n>> \in Seq(1..MaxEvents) /\ Len(<<n>>) = 1 /\ Range(<<n>>) = {n} /\ Sorted(<<n>>)
<1>1. <<n>> \in Seq(1..MaxEvents) /\ Len(<<n>>) = 1 /\ DOMAIN <<n>> = 1..1 /\ <<n>>[1] = n
  OBVIOUS
<1>2. Range(<<n>>) = {n}
  BY <1>1 DEF Range
<1>3. Sorted(<<n>>)
  BY <1>1 DEF Sorted
<1> QED
  BY <1>1, <1>2, <1>3

LEMMA RecordReports ==
  ASSUME RecordOK(rows, revision, run, running), NEW kind \in Kind, Reports(kind)
  PROVE  \E e \in rows' :
           /\ RecordOK(rows', revision', run', running') /\ Grown(rows, run, rows', run')
           /\ e.seq = Newest(rows) + 1 /\ e.text = <<e.seq>>
           /\ \A r \in rows' : r = e \/ r \in rows
           /\ \A q \in rows : Len(q.text) > 1 => q.key # e.key
           /\ stream' = Sending(stream, e)
<1>1. PICK n : n = Newest(rows) + 1
  OBVIOUS
<1>2. PICK key : key = CASE kind = "text" -> IF run = NoRun THEN <<"text", n>> ELSE run
                         [] kind = "tool" -> <<"tool", 0>>
                         [] OTHER -> <<"status", 0>>
  OBVIOUS
<1>3. PICK e : e = [seq |-> n, key |-> key, kind |-> kind, text |-> <<n>>]
  OBVIOUS
<1>4. PICK gone : gone = {r \in rows : kind \in {"tool", "running"} /\ r.kind = kind}
  OBVIOUS
<1>5. /\ n <= MaxEvents
      /\ kind # "running" => running
      /\ rows' = (rows \ gone) \union {e}
      /\ revision' = IF gone = {} THEN revision ELSE revision + 1
      /\ run' = CASE kind = "text" -> key [] kind = "end" -> NoRun [] OTHER -> run
      /\ running' = (kind # "end")
      /\ Published(e)
  BY <1>1, <1>2, <1>3, <1>4 DEF Reports
<1>6. /\ \A r \in rows : /\ r \in Event /\ r.seq \in Nat /\ r.seq <= Newest(rows)
                         /\ \A d \in Range(r.text) : d \in Nat /\ d <= r.seq
      /\ Newest(rows) \in Nat /\ rows \subseteq Event
  BY RecordFacts DEF RecordOK
<1>7. n \in 1..MaxEvents /\ n \in Nat /\ Newest(rows) < n
  BY <1>1, <1>5, <1>6, FeedBounds
<1>8. <<n>> \in Seq(1..MaxEvents) /\ Len(<<n>>) = 1 /\ Range(<<n>>) = {n} /\ Sorted(<<n>>)
  BY <1>7, OneDelta
<1>9. /\ kind = "text" => (key = run /\ run # NoRun) \/ (key = <<"text", n>> /\ run = NoRun)
      /\ kind = "tool" => key = <<"tool", 0>>
      /\ kind \in {"running", "end"} => key = <<"status", 0>>
  BY <1>2
<1>10. run \in Keys /\ (run # NoRun => run[1] = "text" /\ run[2] <= Newest(rows) /\ running)
  BY DEF RecordOK
<1>11. key \in Keys /\ key # NoRun /\ (kind = "text" <=> key[1] = "text")
  <2>1. CASE kind = "text" /\ key = run /\ run # NoRun
    BY <1>10, <2>1
  <2>2. CASE kind = "text" /\ key = <<"text", n>>
    BY <1>7, <2>2 DEF Keys, NoRun
  <2>3. CASE kind = "tool"
    BY <1>9, <2>3 DEF Keys, NoRun
  <2>4. CASE kind \in {"running", "end"}
    BY <1>9, <2>4 DEF Keys, NoRun
  <2> QED
    BY <1>9, <2>1, <2>2, <2>3, <2>4 DEF Kind
<1>12. kind = "text" => key[2] <= n
  <2>1. CASE key = run /\ run # NoRun
    BY <1>6, <1>7, <1>10, <2>1, KeyParts
  <2>2. CASE key = <<"text", n>>
    BY <1>7, <2>2
  <2> QED
    BY <1>9, <2>1, <2>2
<1>13. /\ e.seq = n /\ e.key = key /\ e.kind = kind /\ e.text = <<n>>
       /\ e \in [seq : 1..MaxEvents, key : Keys, kind : Kind, text : Seq(1..MaxEvents)]
  BY <1>3, <1>7, <1>8, <1>11
<1>14. e \in Event
  BY <1>7, <1>8, <1>11, <1>12, <1>13 DEF Event
<1>15. rows' \subseteq Event /\ e \in rows' /\ \A r \in rows' : r = e \/ r \in rows
  BY <1>5, <1>6, <1>14
<1>16. \A r \in rows : r.kind = "text" => r \in rows'
  BY <1>4, <1>5
<1>17. \A r \in rows : r.seq < n /\ r.seq # n
  BY <1>6, <1>7
<1>18. Newest(rows') = n
  <2>1. Newest(rows') \in Nat /\ \A r \in rows' : r.seq <= Newest(rows')
    BY <1>15, RecordFacts
  <2>2. \A r \in rows' : r.seq <= n
    BY <1>6, <1>7, <1>13, <1>15, <1>17
  <2>3. Newest(rows') <= n
    BY <1>7, <1>15, <2>2, RecordFacts
  <2> QED
    BY <1>7, <1>13, <1>15, <2>1, <2>3
<1>19. ASSUME NEW r \in rows, Len(r.text) > 1 PROVE r \in rows' /\ r.kind = "text" /\ r.key # key /\ r.key # run'
  <2>1. r \in Event /\ r.seq \in Nat
    BY <1>6
  <2>2. r.kind = "text"
    <3>1. SUFFICES ASSUME r.kind # "text" PROVE FALSE
      OBVIOUS
    <3>2. r.text = <<r.seq>> /\ r.seq \in 1..MaxEvents
      BY <2>1, <3>1, EventFields
    <3>3. Len(r.text) = 1
      BY <3>2, OneDelta
    <3> QED
      BY <1>19, <3>3
  <2>3. r.key # run /\ r.key[2] \in Nat /\ r.key[2] <= r.seq /\ r.key[1] = "text" /\ r.key # NoRun
    BY <1>19, <2>1, <2>2, EventFields, KeyParts DEF RecordOK
  <2>4. r.key # <<"text", n>>
    <3>1. <<"text", n>>[2] = n
      OBVIOUS
    <3> QED
      BY <1>7, <1>17, <2>1, <2>3, <3>1
  <2>5. r.key # <<"tool", 0>> /\ r.key # <<"status", 0>>
    <3>1. <<"tool", 0>>[1] = "tool" /\ <<"status", 0>>[1] = "status"
      OBVIOUS
    <3> QED
      BY <2>3, <3>1
  <2>6. r.key # key
    BY <1>9, <2>3, <2>4, <2>5 DEF Kind
  <2>7. run' \in {key, NoRun, run}
    BY <1>5
  <2> QED
    BY <1>16, <2>2, <2>3, <2>6, <2>7
<1>20. /\ run' \in Keys
       /\ run' # NoRun => run'[1] = "text" /\ run'[2] <= n /\ running'
       /\ run' \in {run, NoRun} \/ run'[2] > Newest(rows)
  <2>1. CASE kind = "text"
    <3>1. run' = key /\ running' = TRUE
      BY <1>5, <2>1
    <3>2. key = run \/ key[2] > Newest(rows)
      BY <1>7, <1>9, <2>1
    <3> QED
      BY <1>11, <1>12, <2>1, <3>1, <3>2
  <2>2. CASE kind = "end"
    BY <1>5, <2>2 DEF Keys
  <2>3. CASE kind \in {"tool", "running"}
    <3>1. run' = run /\ running' = TRUE
      BY <1>5, <2>3
    <3>2. run # NoRun => run[2] \in Nat
      BY <1>10, KeyParts
    <3> QED
      BY <1>6, <1>7, <1>10, <3>1, <3>2
  <2> QED
    BY <2>1, <2>2, <2>3 DEF Kind
<1>21. revision' \in Nat \ {0} /\ running' \in BOOLEAN
  BY <1>5 DEF RecordOK
<1>22. Numbered(rows')
  BY <1>13, <1>15, <1>17 DEF Numbered, RecordOK
<1>23. ASSUME NEW r \in rows'
       PROVE  /\ Sorted(r.text)
              /\ Len(r.text) > 1 => r.key # run' /\ \A q \in rows' : q.key = r.key => q = r
              /\ \A q \in rows' : r.key = q.key /\ q.seq < r.seq => \A d \in Range(r.text) : d > q.seq
  <2>1. CASE r = e
    <3>1. PICK t : t = <<n>>
      OBVIOUS
    <3>2. Sorted(t) /\ ~ (Len(t) > 1) /\ Range(t) = {n}
      BY <1>8, <3>1
    <3>3. r.text = t /\ r.seq = n
      BY <1>13, <2>1, <3>1
    <3> QED
      BY <3>2, <3>3
  <2>2. CASE r # e
    <3>1. r \in rows
      BY <1>15, <2>2
    <3>2. Sorted(r.text)
      BY <3>1 DEF RecordOK
    <3>3. Len(r.text) > 1 => r.key # run' /\ \A q \in rows' : q.key = r.key => q = r
      BY <1>13, <1>15, <1>19, <3>1 DEF RecordOK
    <3>4. ASSUME NEW q \in rows', r.key = q.key, q.seq < r.seq, NEW d \in Range(r.text) PROVE d > q.seq
      <4>1. q # e
        BY <1>6, <1>13, <1>17, <1>7, <3>1, <3>4
      <4> QED
        BY <1>15, <3>1, <3>4, <4>1 DEF RecordOK
    <3> QED
      BY <3>2, <3>3, <3>4
  <2> QED
    BY <2>1, <2>2
<1>24. RecordOK(rows', revision', run', running')
  BY <1>15, <1>18, <1>20, <1>21, <1>22, <1>23 DEF RecordOK
<1>25. Grown(rows, run, rows', run')
  <2>1. Newest(rows) <= Newest(rows')
    BY <1>6, <1>7, <1>18
  <2>2. \A r \in rows' : r.seq > Newest(rows) \/ \E q \in rows : q.key = r.key /\ q.seq = r.seq
    BY <1>7, <1>13, <1>15
  <2>3. ASSUME NEW r \in rows', NEW d \in Range(r.text)
        PROVE  \/ \E q \in rows : q.key = r.key /\ d \in Range(q.text)
               \/ d > Newest(rows) /\ (r.kind = "text" => r.key = run \/ r.key[2] > Newest(rows))
    <3>1. CASE r \in rows
      BY <2>3, <3>1
    <3>2. CASE r = e
      <4>1. d = n /\ d > Newest(rows)
        BY <1>7, <1>8, <1>13, <2>3, <3>2
      <4>2. kind = "text" => key = run \/ key[2] > Newest(rows)
        BY <1>7, <1>9
      <4> QED
        BY <1>13, <3>2, <4>1, <4>2
    <3> QED
      BY <1>15, <3>1, <3>2
  <2> QED
    BY <1>6, <1>15, <1>16, <1>19, <1>20, <2>1, <2>2, <2>3 DEF Grown
<1>26. stream' = Sending(stream, e)
  BY <1>5 DEF Published, Sending
<1> QED
  BY <1>1, <1>13, <1>15, <1>19, <1>24, <1>25, <1>26

LEMMA RecordCompacts ==
  ASSUME RecordOK(rows, revision, run, running), Compact
  PROVE  /\ RecordOK(rows', revision', run', running') /\ Grown(rows, run, rows', run')
         /\ \A r \in rows' : \E q \in rows : q.seq = r.seq /\ q.key = r.key
         /\ \A r \in rows' : \A d \in Range(r.text) :
               \E q \in rows : q.key = r.key /\ d \in Range(q.text)
<1>0. PICK keys \in SUBSET KeysOf(rows) :
       LET parts == {r \in rows : r.kind = "text" /\ r.key \in keys}
           whole == Coalesced({}, parts)
       IN  /\ ~running /\ rows' = (rows \ parts) \union whole
           /\ revision' = revision + 1 /\ UNCHANGED <<run, running>>
  BY DEF Compact
<1>1. PICK T : T = {r \in rows : r.kind = "text" /\ r.key \in keys}
  OBVIOUS
<1>2. PICK O : O = rows \ T
  OBVIOUS
<1>3. PICK W : W = Coalesced({}, T)
  OBVIOUS
<1>4. ~ running /\ rows' = W \union O /\ revision' = revision + 1 /\ run' = run /\ running' = running
  BY <1>0, <1>1, <1>2, <1>3
<1>5. run = NoRun /\ rows \subseteq Event /\ Numbered(rows)
  BY <1>4 DEF RecordOK
<1>6. /\ \A r \in rows : /\ r \in Event /\ r.seq \in Nat /\ r.seq <= Newest(rows) /\ r.key # NoRun
                         /\ \A d \in Range(r.text) : d \in Nat /\ d <= r.seq
      /\ Newest(rows) \in Nat
  BY <1>5, RecordFacts, EventFields
<1>7. /\ W \subseteq Event /\ Single(W) /\ Numbered(W)
      /\ \A e \in T : \E x \in W : x.key = e.key /\ x.seq >= e.seq
      /\ \A x \in W : Together(x, T)
  <2>1. T = Both({}, T) /\ {} \subseteq Event /\ Numbered({})
    BY DEF Both, SeqsOf, Numbered
  <2>2. T \subseteq Event /\ Numbered(T)
    BY <1>1, <1>5 DEF Numbered
  <2> QED
    BY <1>3, <2>1, <2>2, CoalescedOf
<1>8. ASSUME NEW x \in W
      PROVE  /\ x \in Event /\ x.kind = "text" /\ x.seq \in Nat /\ Sorted(x.text)
             /\ \E e \in T : e.key = x.key /\ e.seq = x.seq
             /\ \A r \in rows : r.key = x.key => r \in T /\ r.seq <= x.seq
             /\ \A d : d \in Range(x.text) <=> \E e \in rows : e.key = x.key /\ d \in Range(e.text)
             /\ \A r \in rows : r.key = x.key /\ Len(r.text) > 1 => x = r
  <2>1. Together(x, T) /\ x \in Event /\ x.seq \in Nat
    BY <1>7, EventFields
  <2>2. PICK e \in T : e.key = x.key /\ e.seq = x.seq /\ e.kind = x.kind
    BY <2>1 DEF Together
  <2>3. x.kind = "text"
    BY <1>1, <2>2
  <2>4. ASSUME NEW r \in rows, r.key = x.key PROVE r \in T /\ r.seq <= x.seq
    <3>1. r.kind = "text"
      BY <1>6, <2>1, <2>3, <2>4, SameKind
    <3>2. r.key \in keys
      BY <1>1, <2>2, <2>4
    <3>3. r \in T
      BY <1>1, <3>1, <3>2
    <3> QED
      BY <2>1, <2>4, <3>3 DEF Together
  <2>5. \A d : d \in Range(x.text) <=> \E y \in rows : y.key = x.key /\ d \in Range(y.text)
    <3>1. \A d : d \in Range(x.text) <=> \E y \in T : y.key = x.key /\ d \in Range(y.text)
      BY <2>1, <2>3 DEF Together
    <3> QED
      BY <1>1, <2>4, <3>1
  <2>6. Of(T, x.key) = Of(rows, x.key)
    BY <1>1, <2>4 DEF Of
  <2>7. Sorted(x.text)
    <3>1. Follow(Of(rows, x.key))
      BY RowsFollow
    <3> QED
      BY <2>1, <2>3, <2>6, <3>1 DEF Together
  <2>8. ASSUME NEW r \in rows, r.key = x.key, Len(r.text) > 1 PROVE x = r
    <3>1. \A q \in rows : q.key = x.key => q = r
      BY <2>8 DEF RecordOK
    <3>2. Of(T, x.key) = {r}
      BY <2>4, <2>6, <2>8, <3>1 DEF Of
    <3> QED
      BY <2>1, <3>2 DEF Together
  <2> QED
    BY <2>1, <2>2, <2>3, <2>4, <2>5, <2>7, <2>8
<1>9. ASSUME NEW r \in O
      PROVE  /\ r \in rows /\ r \in Event /\ \A x \in W : x.key # r.key /\ x.seq # r.seq
  <2>1. r \in rows /\ r \notin T /\ r \in Event
    BY <1>2, <1>6
  <2> SUFFICES ASSUME NEW x \in W PROVE x.key # r.key /\ x.seq # r.seq
    BY <2>1
  <2>2. x.key # r.key
    BY <1>8, <2>1
  <2>3. PICK e \in T : e.key = x.key /\ e.seq = x.seq
    BY <1>8
  <2>4. e \in rows /\ e # r
    BY <1>1, <2>1
  <2> QED
    BY <1>5, <2>1, <2>2, <2>3, <2>4 DEF Numbered
<1>10. rows' \subseteq Event
  BY <1>4, <1>7, <1>9
<1>11. ASSUME NEW r \in rows' PROVE \E q \in rows : q.seq = r.seq /\ q.key = r.key /\ q.kind = r.kind
  <2>1. CASE r \in O
    BY <1>9, <2>1
  <2>2. CASE r \in W
    <3>1. PICK e \in T : e.key = r.key /\ e.seq = r.seq
      BY <1>8, <2>2
    <3> QED
      BY <1>1, <1>8, <2>2, <3>1
  <2> QED
    BY <1>4, <2>1, <2>2
<1>12. ASSUME NEW r \in rows', NEW d \in Range(r.text)
       PROVE  \E q \in rows : q.key = r.key /\ d \in Range(q.text)
  BY <1>4, <1>8, <1>9, <1>12
<1>13. ASSUME NEW r \in rows
       PROVE  \E x \in rows' : /\ x.key = r.key /\ x.seq >= r.seq
                               /\ \A d \in Range(r.text) : d \in Range(x.text)
  <2>1. CASE r \in T
    <3>1. PICK x \in W : x.key = r.key /\ x.seq >= r.seq
      BY <1>7, <2>1
    <3> QED
      BY <1>4, <1>8, <1>13, <3>1
  <2>2. CASE r \in O
    <3>1. r.seq >= r.seq
      BY <1>6
    <3> QED
      BY <1>4, <2>2, <3>1
  <2> QED
    BY <1>1, <1>2, <2>1, <2>2
<1>14. Newest(rows') = Newest(rows)
  <2>1. /\ Newest(rows') \in Nat /\ \A r \in rows' : r.seq \in Nat /\ r.seq <= Newest(rows')
        /\ \A n \in Nat : (\A r \in rows' : r.seq <= n) => Newest(rows') <= n
    BY <1>10, RecordFacts
  <2>2. Newest(rows') <= Newest(rows)
    <3>1. \A r \in rows' : r.seq <= Newest(rows)
      BY <1>6, <1>11
    <3> QED
      BY <1>6, <2>1, <3>1
  <2>3. Newest(rows) <= Newest(rows')
    <3>1. \A r \in rows : r.seq <= Newest(rows')
      BY <1>6, <1>13, <2>1
    <3> QED
      BY <1>5, <2>1, <3>1, RecordFacts
  <2> QED
    BY <1>6, <2>1, <2>2, <2>3
<1>15. Numbered(rows')
  <2> SUFFICES ASSUME NEW r \in rows', NEW q \in rows', r.seq = q.seq PROVE r = q
    BY DEF Numbered
  <2>2. CASE r \in W /\ q \in W
    BY <1>7, <2>2 DEF Numbered
  <2>3. CASE r \in O /\ q \in O
    BY <1>5, <1>9, <2>3 DEF Numbered
  <2> QED
    BY <1>4, <1>9, <2>2, <2>3
<1>16. ASSUME NEW r \in rows'
       PROVE  /\ Sorted(r.text)
              /\ Len(r.text) > 1 => r.key # run' /\ \A q \in rows' : q.key = r.key => q = r
              /\ \A q \in rows' : r.key = q.key /\ q.seq < r.seq => \A d \in Range(r.text) : d > q.seq
  <2>1. CASE r \in W
    <3>1. \A q \in rows' : q.key = r.key => q = r
      <4> SUFFICES ASSUME NEW q \in rows', q.key = r.key PROVE q = r
        OBVIOUS
      <4>1. q \in W
        BY <1>4, <1>9, <2>1
      <4> QED
        BY <1>7, <2>1, <4>1 DEF Single
    <3>2. r.key # run' /\ Sorted(r.text) /\ r.seq \in Nat
      BY <1>4, <1>5, <1>8, <2>1, EventFields
    <3>3. \A q \in rows' : r.key = q.key => ~ (q.seq < r.seq)
      BY <3>1, <3>2
    <3> QED
      BY <3>1, <3>2, <3>3
  <2>2. CASE r \in O
    <3>1. r \in rows
      BY <1>9, <2>2
    <3>2. \A q \in rows' : q.key = r.key => q \in rows
      BY <1>4, <1>9, <2>2
    <3>3. Sorted(r.text)
      BY <3>1 DEF RecordOK
    <3>4. Len(r.text) > 1 => r.key # run' /\ \A q \in rows' : q.key = r.key => q = r
      <4>1. Len(r.text) > 1 => r.key # run /\ \A q \in rows : q.key = r.key => q = r
        BY <3>1 DEF RecordOK
      <4> QED
        BY <1>4, <3>2, <4>1
    <3>5. \A q \in rows' : r.key = q.key /\ q.seq < r.seq => \A d \in Range(r.text) : d > q.seq
      <4>1. \A q \in rows : r.key = q.key /\ q.seq < r.seq => \A d \in Range(r.text) : d > q.seq
        BY <3>1 DEF RecordOK
      <4> QED
        BY <3>2, <4>1
    <3> QED
      BY <3>3, <3>4, <3>5
  <2> QED
    BY <1>4, <2>1, <2>2
<1>17. RecordOK(rows', revision', run', running')
  <2>1. revision' \in Nat \ {0} /\ run' \in Keys /\ running' \in BOOLEAN /\ run' = NoRun
    BY <1>4, <1>5 DEF RecordOK
  <2> QED
    BY <1>10, <1>15, <1>16, <2>1 DEF RecordOK
<1>18. Grown(rows, run, rows', run')
  <2>1. \A r \in rows : Len(r.text) > 1 => r \in rows'
    <3> SUFFICES ASSUME NEW r \in rows, Len(r.text) > 1 PROVE r \in rows'
      OBVIOUS
    <3>1. CASE r \in O
      BY <1>4, <3>1
    <3>2. CASE r \in T
      <4>1. PICK x \in W : x.key = r.key
        BY <1>7, <3>2
      <4> QED
        BY <1>4, <1>8, <4>1
    <3> QED
      BY <1>1, <1>2, <3>1, <3>2
  <2>2. \A r \in rows : \A d \in Range(r.text) : \E q \in rows' : q.key = r.key /\ d \in Range(q.text)
    BY <1>13
  <2>3. Newest(rows) <= Newest(rows')
    BY <1>6, <1>14
  <2> QED
    BY <1>4, <1>5, <1>10, <1>11, <1>12, <2>1, <2>2, <2>3 DEF Grown
<1> QED
  BY <1>11, <1>12, <1>17, <1>18

(***************************************************************************)
(* The steps                                                               *)
(***************************************************************************)
FeedInv == \E F : F = FlushedOf(live, pending) /\ FeedInvAt(F)

LEMMA RangeAppended ==
  ASSUME NEW S, NEW w \in Seq(S), NEW e \in S
  PROVE  Range(Append(w, e)) = Range(w) \union {e}
<1>1. PICK w2 : w2 = Append(w, e)
  OBVIOUS
<1>2. Len(w) \in Nat /\ Len(w2) = Len(w) + 1 /\ w2[Len(w) + 1] = e /\ w2 \in Seq(S)
      /\ \A i \in 1..Len(w) : w2[i] = w[i]
  BY <1>1, Appended
<1>3. DOMAIN w2 = 1..(Len(w) + 1) /\ DOMAIN w = 1..Len(w)
  BY <1>2, LenProperties
<1>4. Range(w2) = Range(w) \union {e}
  BY <1>2, <1>3 DEF Range
<1> QED
  BY <1>1, <1>4

LEMMA SendingCarries ==
  ASSUME NEW s \in [phase : {"closed", "connecting", "open"}, after : Nat, last : Nat,
                    wire : Seq(Event \union {Signal})],
         NEW e \in Event \union {Signal}
  PROVE  Range(Sending(s, e).wire) \subseteq Range(s.wire) \union {e}
<1>1. PICK S : S = Event \union {Signal}
  OBVIOUS
<1>2. PICK w : w = s.wire
  OBVIOUS
<1>3. PICK w2 : w2 = Append(w, e)
  OBVIOUS
<1>4. w \in Seq(S) /\ e \in S
  BY <1>1, <1>2
<1>5. Range(w2) = Range(w) \union {e}
  BY <1>3, <1>4, RangeAppended
<1>6. PICK s2 : s2 = Sending(s, e)
  OBVIOUS
<1>7. s2.wire = s.wire \/ s2.wire = Append(s.wire, e)
  BY <1>6, SendingFields
<1> QED
  BY <1>2, <1>3, <1>5, <1>6, <1>7

LEMMA WireEvents ==
  ASSUME NEW R, NEW c, NEW F, NEW w \in Seq(Event \union {Signal}), NEW from, WireOK(R, c, F, w, from),
         NEW e \in Range(w), e.kind # "signal"
  PROVE  e \in Event /\ e.seq \in Nat /\ e.seq <= Newest(R) /\ \E i \in 1..Len(w) : w[i] = e
<1>1. PICK i \in 1..Len(w) : w[i] = e
  BY LenProperties DEF Range
<1>2. e \in Event
  BY <1>1, ElementOfSeq DEF Signal
<1> QED
  BY <1>1, <1>2, EventFields DEF WireOK

LEMMA KnownOld ==
  ASSUME NEW F, FeedInvAt(F), NEW e \in Known(rows, F, history, fetch, stream)
  PROVE  e \in Event /\ e.seq \in Nat /\ e.seq <= Newest(rows)
<1>1. rows \subseteq Event /\ Newest(rows) \in Nat
  BY RecordFacts DEF FeedInvAt, RecordOK
<1>2. CASE e \in rows
  BY <1>1, <1>2, RecordFacts
<1>3. CASE e \in F
  BY <1>3, EventFields DEF FeedInvAt, LiveOK
<1>4. ASSUME NEW k, NEW c, NEW page, PageOK(rows, k, c, page), e \in page.events
      PROVE  e \in Event /\ e.seq \in Nat /\ e.seq <= Newest(rows)
  <2>1. e \in Event /\ e.seq \in Nat /\ page.latest \in Nat /\ page.latest <= Newest(rows)
        /\ e.seq <= page.latest
    BY <1>4, EventFields DEF PageOK
  <2> QED
    BY <1>1, <2>1
<1>5. CASE e \in history.events
  <2>1. history # NoPage
    BY <1>5 DEF NoPage
  <2> QED
    BY <1>4, <1>5, <2>1 DEF FeedInvAt
<1>6. CASE fetch.phase = "answered" /\ e \in fetch.page.events
  BY <1>4, <1>6 DEF FeedInvAt, FetchOK
<1>7. CASE e \in Range(stream.wire) /\ e.kind # "signal"
  <2>1. stream.wire \in Seq(Event \union {Signal})
    BY DEF FeedInvAt, StreamOK
  <2>2. PICK w, from : w = stream.wire /\ from = Point(stream)
    OBVIOUS
  <2>3. w \in Seq(Event \union {Signal}) /\ WireOK(rows, cut, F, w, from) /\ e \in Range(w)
    BY <1>7, <2>1, <2>2 DEF FeedInvAt
  <2> QED
    BY <1>7, <2>3, WireEvents
<1> QED
  BY <1>2, <1>3, <1>5, <1>6, <1>7 DEF Known

\* An agent reports.
LEMMA StepReports ==
  ASSUME NEW F, FeedInvAt(F), NEW kind \in Kind, Reports(kind)
  PROVE  FeedInvAt(F)'
<1>1. PICK e \in rows' :
         /\ RecordOK(rows', revision', run', running') /\ Grown(rows, run, rows', run')
         /\ e.seq = Newest(rows) + 1 /\ e.text = <<e.seq>>
         /\ \A r \in rows' : r = e \/ r \in rows
         /\ \A q \in rows : Len(q.text) > 1 => q.key # e.key
         /\ stream' = Sending(stream, e)
  BY RecordReports DEF FeedInvAt
<1>2. UNCHANGED <<mounted, history, fetch, live, pending, turbulence, cut>>
  BY DEF Reports, historyVars
<1>3. rows' \subseteq Event /\ e \in Event /\ e.seq \in Nat /\ Newest(rows) \in Nat /\ Newest(rows) < e.seq
      /\ rows \subseteq Event /\ cut \subseteq cut
  BY <1>1, RecordFacts DEF RecordOK, Grown
<1>4. history # NoPage => PageOK(rows', run', cut, history)
  BY <1>1, <1>3, PageKept DEF FeedInvAt
<1>5. FetchOK(rows', run', cut, history, F, fetch)
  BY <1>1, <1>3, FetchKept DEF FeedInvAt
<1>6. LiveOK(rows', cut, history, live) /\ LiveOK(rows', cut, history, F)
  BY <1>1, <1>3, LiveKept DEF FeedInvAt
<1>7. /\ stream \in [phase : {"closed", "connecting", "open"}, after : Nat, last : Nat,
                     wire : Seq(Event \union {Signal})]
      /\ StreamOK(rows, history, pending, F, stream)
  BY DEF FeedInvAt, StreamOK
<1>8. PICK s2 : s2 = Sending(stream, e)
  OBVIOUS
<1>9. /\ s2.phase = stream.phase /\ Point(s2) = Point(stream) /\ Point(stream) \in Nat
      /\ stream.phase # "open" => s2 = stream
      /\ stream.phase = "open" => s2.wire = Append(stream.wire, e)
      /\ stream.wire \in Seq(Event \union {Signal})
  BY <1>3, <1>7, <1>8, SendingFields
<1>10. StreamOK(rows', history, pending, F, s2)
  <2>1. \A r \in rows' : \A d \in Range(r.text) :
           \/ \E q \in rows : q.key = r.key /\ d \in Range(q.text)
           \/ s2 = Sending(stream, e) /\ e.key = r.key /\ d \in Range(e.text)
    BY <1>1, <1>8
  <2>2. e \in Event \union {Signal}
    BY <1>3
  <2> QED
    BY <1>1, <1>7, <1>8, <2>1, <2>2, StreamKept
<1>11. WireOK(rows', cut, F, s2.wire, Point(s2))
  <2>1. PICK w, from : w = stream.wire /\ from = Point(stream)
    OBVIOUS
  <2>2. w \in Seq(Event \union {Signal}) /\ from \in Nat /\ WireOK(rows, cut, F, w, from)
    BY <1>9, <2>1 DEF FeedInvAt
  <2>3. WireOK(rows', cut, F, w, from)
    BY <1>1, <1>3, <2>2, WireKept
  <2>4. CASE stream.phase = "open"
    <3>1. from <= Newest(rows)
      BY <1>7, <2>1, <2>4 DEF StreamOK
    <3>2. \A i \in 1..Len(w) : w[i].kind # "signal" => w[i].seq \in Nat /\ w[i].seq < e.seq
      <4> SUFFICES ASSUME NEW i \in 1..Len(w), w[i].kind # "signal" PROVE w[i].seq \in Nat /\ w[i].seq < e.seq
        OBVIOUS
      <4>1. w[i] \in Event
        BY <2>2, ElementOfSeq DEF Signal
      <4>2. w[i].seq \in Nat /\ w[i].seq <= Newest(rows)
        BY <2>2, <4>1, EventFields DEF WireOK
      <4> QED
        BY <1>3, <4>2
    <3>3. \A i \in 1..Len(w) : w[i].kind # "signal" /\ Len(w[i].text) > 1 => w[i].key # e.key
      BY <1>1, <2>2 DEF WireOK
    <3>4. from < e.seq
      BY <1>3, <2>2, <3>1
    <3>5. WireOK(rows', cut, F, Append(w, e), from)
      BY <1>1, <1>3, <2>2, <2>3, <3>2, <3>3, <3>4, WireEvent
    <3> QED
      BY <1>9, <2>1, <2>4, <3>5
  <2>5. CASE stream.phase # "open"
    BY <1>9, <2>1, <2>3, <2>5
  <2> QED
    BY <2>4, <2>5
<1>12. Identity(rows', F, history, fetch, s2)
  <2>1. PICK K : K = Known(rows, F, history, fetch, stream)
    OBVIOUS
  <2>2. PICK K2 : K2 = Known(rows', F, history, fetch, s2)
    OBVIOUS
  <2>3. \A x, d \in K : x.seq = d.seq => x.key = d.key
    BY <2>1 DEF FeedInvAt, Identity
  <2>4. \A x \in K : x.seq # e.seq
    BY <1>3, <2>1, KnownOld
  <2>5. Range(s2.wire) \subseteq Range(stream.wire) \union {e}
    BY <1>3, <1>7, <1>8, SendingCarries
  <2>6. \A x \in K2 : x \in K \/ x = e
    BY <1>1, <2>1, <2>2, <2>5 DEF Known
  <2>7. \A x, d \in K2 : x.seq = d.seq => x.key = d.key
    BY <2>3, <2>4, <2>6, IdentityKept
  <2> QED
    BY <2>2, <2>7 DEF Identity
<1>13. ~ mounted => s2 = NoStream
  BY <1>9 DEF FeedInvAt, NoStream
<1> QED
  BY <1>1, <1>2, <1>4, <1>5, <1>6, <1>8, <1>10, <1>11, <1>12, <1>13 DEF FeedInvAt

\* The store puts the rows of finished runs together.
LEMMA StepCompact ==
  ASSUME NEW F, FeedInvAt(F), Compact
  PROVE  FeedInvAt(F)'
<1>1. /\ RecordOK(rows', revision', run', running') /\ Grown(rows, run, rows', run')
      /\ \A r \in rows' : \E q \in rows : q.seq = r.seq /\ q.key = r.key
      /\ \A r \in rows' : \A d \in Range(r.text) : \E q \in rows : q.key = r.key /\ d \in Range(q.text)
  BY RecordCompacts DEF FeedInvAt
<1>2. UNCHANGED <<mounted, history, fetch, live, pending, stream, turbulence, cut>>
  BY DEF Compact, historyVars, liveVars
<1>3. cut \subseteq cut
  OBVIOUS
<1>4. history # NoPage => PageOK(rows', run', cut, history)
  BY <1>1, <1>3, PageKept DEF FeedInvAt
<1>5. FetchOK(rows', run', cut, history, F, fetch)
  BY <1>1, <1>3, FetchKept DEF FeedInvAt
<1>6. LiveOK(rows', cut, history, live) /\ LiveOK(rows', cut, history, F)
  BY <1>1, <1>3, LiveKept DEF FeedInvAt
<1>7. StreamOK(rows, history, pending, F, stream) /\ Signal \in Event \union {Signal}
  BY DEF FeedInvAt
<1>8. StreamOK(rows', history, pending, F, stream)
  <2>1. PICK s : s = stream
    OBVIOUS
  <2>2. StreamOK(rows, history, pending, F, s)
    BY <1>7, <2>1
  <2>3. StreamOK(rows', history, pending, F, s)
    BY <1>1, <1>7, <2>2, StreamKept
  <2> QED
    BY <2>1, <2>3
<1>9. WireOK(rows', cut, F, stream.wire, Point(stream))
  <2>1. PICK w, from : w = stream.wire /\ from = Point(stream)
    OBVIOUS
  <2>2. w \in Seq(Event \union {Signal}) /\ WireOK(rows, cut, F, w, from)
    BY <2>1 DEF FeedInvAt, StreamOK
  <2>3. WireOK(rows', cut, F, w, from)
    BY <1>1, <1>3, <2>2, WireKept
  <2> QED
    BY <2>1, <2>3
<1>10. Identity(rows', F, history, fetch, stream)
  <2>1. PICK K : K = Known(rows, F, history, fetch, stream)
    OBVIOUS
  <2>2. PICK K2 : K2 = Known(rows', F, history, fetch, stream)
    OBVIOUS
  <2>3. \A x, d \in K : x.seq = d.seq => x.key = d.key
    BY <2>1 DEF FeedInvAt, Identity
  <2>4. \A x \in K2 : \E d \in K : d.seq = x.seq /\ d.key = x.key
    BY <1>1, <2>1, <2>2 DEF Known
  <2>5. \A x, d \in K2 : x.seq = d.seq => x.key = d.key
    BY <2>3, <2>4, IdentityStays
  <2> QED
    BY <2>2, <2>5 DEF Identity
<1> QED
  BY <1>1, <1>2, <1>4, <1>5, <1>6, <1>8, <1>9, <1>10 DEF FeedInvAt

\* The pages are asked to read again.
LEMMA StepSignals ==
  ASSUME NEW F, FeedInvAt(F), Signals
  PROVE  FeedInvAt(F)'
<1>1. /\ turbulence' = turbulence + 1 /\ stream' = Sending(stream, Signal)
      /\ UNCHANGED <<rows, revision, run, running, mounted, history, fetch, live, pending, cut>>
  BY DEF Signals, Disturbed, Published, Sending, serverVars, historyVars
<1>2. rows \subseteq Event /\ Signal \in Event \union {Signal}
  BY DEF FeedInvAt, RecordOK
<1>3. Grown(rows, run, rows, run)
  BY <1>2, GrownByNothing
<1>4. /\ stream \in [phase : {"closed", "connecting", "open"}, after : Nat, last : Nat,
                     wire : Seq(Event \union {Signal})]
      /\ StreamOK(rows, history, pending, F, stream)
  BY DEF FeedInvAt, StreamOK
<1>5. PICK s2 : s2 = Sending(stream, Signal)
  OBVIOUS
<1>6. /\ s2.phase = stream.phase /\ Point(s2) = Point(stream)
      /\ stream.phase # "open" => s2 = stream
      /\ s2.wire = stream.wire \/ s2.wire = Append(stream.wire, Signal)
      /\ stream.wire \in Seq(Event \union {Signal})
  BY <1>2, <1>4, <1>5, SendingFields
<1>7. StreamOK(rows, history, pending, F, s2)
  BY <1>2, <1>3, <1>4, <1>5, StreamKept
<1>8. WireOK(rows, cut, F, s2.wire, Point(s2))
  <2>1. PICK w, from : w = stream.wire /\ from = Point(stream)
    OBVIOUS
  <2>2. w \in Seq(Event \union {Signal}) /\ WireOK(rows, cut, F, w, from)
    BY <1>6, <2>1 DEF FeedInvAt
  <2>3. WireOK(rows, cut, F, Append(w, Signal), from)
    BY <2>2, WireSignal
  <2> QED
    BY <1>6, <2>1, <2>2, <2>3
<1>9. Identity(rows, F, history, fetch, s2)
  <2>1. Range(s2.wire) \subseteq Range(stream.wire) \union {Signal}
    BY <1>2, <1>4, <1>5, SendingCarries
  <2>2. Signal.kind = "signal"
    BY DEF Signal
  <2>3. Known(rows, F, history, fetch, s2) \subseteq Known(rows, F, history, fetch, stream)
    BY <2>1, <2>2 DEF Known
  <2> QED
    BY <2>3 DEF FeedInvAt, Identity
<1>10. ~ mounted => s2 = NoStream
  BY <1>6 DEF FeedInvAt, NoStream
<1>11. turbulence' \in Nat
  BY <1>1 DEF FeedInvAt
<1> QED
  BY <1>1, <1>5, <1>7, <1>8, <1>9, <1>10, <1>11 DEF FeedInvAt

\* A page is read.
LEMMA StepServerReads ==
  ASSUME NEW F, FeedInvAt(F), ServerReads
  PROVE  FeedInvAt(F)'
<1>1. PICK page : page = [events |-> Coalesced({}, rows), latest |-> Newest(rows), revision |-> revision]
  OBVIOUS
<1>2. PICK c2 : c2 = cut \union ({run} \ {NoRun})
  OBVIOUS
<1>3. PICK f2 : f2 = [phase |-> "answered", page |-> page]
  OBVIOUS
<1>4. /\ fetch.phase = "asked" /\ fetch' = f2 /\ cut' = c2
      /\ UNCHANGED <<rows, revision, run, running, mounted, history, live, pending, stream, turbulence>>
  BY <1>1, <1>2, <1>3 DEF ServerReads, serverVars, liveVars
<1>5. f2.phase = "answered" /\ f2.page = page
  BY <1>3
<1>6. rows \subseteq Event /\ cut \subseteq c2 /\ c2 \subseteq Keys
  BY <1>2 DEF FeedInvAt, RecordOK
<1>7. Grown(rows, run, rows, run)
  BY <1>6, GrownByNothing
<1>8. /\ PageOK(rows, run, c2, page) /\ page.latest = Newest(rows)
      /\ \A e \in page.events : \E r \in rows : r.seq = e.seq /\ r.key = e.key
  <2>1. RecordOK(rows, revision, run, running)
    BY DEF FeedInvAt
  <2>2. PICK C : C = Coalesced({}, rows)
    OBVIOUS
  <2>3. /\ page.events = C /\ page.latest = Newest(rows) /\ page.revision = revision
        /\ DOMAIN page = {"events", "latest", "revision"}
    BY <1>1, <2>2
  <2>4. run = NoRun \/ run \in c2
    BY <1>2
  <2> QED
    BY <2>1, <2>2, <2>3, <2>4, ReadPage
<1>9. history # NoPage => PageOK(rows, run, c2, history)
  BY <1>6, <1>7, PageKept DEF FeedInvAt
<1>10. LiveOK(rows, c2, history, live) /\ LiveOK(rows, c2, history, F)
  BY <1>6, <1>7, LiveKept DEF FeedInvAt
<1>11. FetchOK(rows, run, c2, history, F, f2)
  <2>1. history.latest <= Newest(rows)
    <3>1. Newest(rows) \in Nat
      BY <1>6, RecordFacts
    <3>2. NoPage.latest = 0
      BY DEF NoPage
    <3> QED
      BY <3>1, <3>2 DEF FeedInvAt, PageOK
  <2>2. \A e \in F : e.seq <= Newest(rows)
    BY DEF FeedInvAt, LiveOK
  <2> QED
    BY <1>5, <1>8, <2>1, <2>2 DEF FetchOK
<1>12. WireOK(rows, c2, F, stream.wire, Point(stream))
  <2>1. PICK w, from : w = stream.wire /\ from = Point(stream)
    OBVIOUS
  <2>2. w \in Seq(Event \union {Signal}) /\ WireOK(rows, cut, F, w, from)
    BY <2>1 DEF FeedInvAt, StreamOK
  <2>3. WireOK(rows, c2, F, w, from)
    BY <1>6, <1>7, <2>2, WireKept
  <2> QED
    BY <2>1, <2>3
<1>13. Identity(rows, F, history, f2, stream)
  <2>1. PICK K : K = Known(rows, F, history, fetch, stream)
    OBVIOUS
  <2>2. PICK K2 : K2 = Known(rows, F, history, f2, stream)
    OBVIOUS
  <2>3. \A x, d \in K : x.seq = d.seq => x.key = d.key
    BY <2>1 DEF FeedInvAt, Identity
  <2>4. \A x \in K2 : \E d \in K : d.seq = x.seq /\ d.key = x.key
    BY <1>5, <1>8, <2>1, <2>2 DEF Known
  <2>5. \A x, d \in K2 : x.seq = d.seq => x.key = d.key
    BY <2>3, <2>4, IdentityStays
  <2> QED
    BY <2>2, <2>5 DEF Identity
<1>14. mounted
  BY <1>4 DEF FeedInvAt
<1> QED
  BY <1>4, <1>6, <1>9, <1>10, <1>11, <1>12, <1>13, <1>14 DEF FeedInvAt

\* What a page lacks of the record it does not reach: a page that follows another reaches what it did.
LEMMA ReachedAtPage ==
  ASSUME NEW R, R \subseteq Event, NEW k, NEW c, NEW h, PageOK(R, k, c, h), NEW page,
         PageOK(R, k, c, page), h.latest <= page.latest,
         NEW r \in R, NEW d \in Range(r.text), NEW g \in h.events, g.key = r.key, g.seq >= d
  PROVE  \E x \in page.events : x.key = r.key /\ x.seq >= d
<1>1. d \in Nat /\ g.seq \in Nat /\ h.latest \in Nat /\ page.latest \in Nat /\ g.seq <= h.latest
  BY RecordFacts, EventFields DEF PageOK
<1>2. d <= page.latest
  BY <1>1
<1> QED
  BY <1>2 DEF PageOK, Covers

LEMMA LiveAtPage ==
  ASSUME NEW R, R \subseteq Event, NEW k, NEW c, NEW h, h # NoPage, PageOK(R, k, c, h), NEW page,
         PageOK(R, k, c, page), h.latest <= page.latest,
         NEW E, LiveOK(R, c, h, E), NEW X, X \subseteq E, \A e \in X : e.seq > page.latest
  PROVE  LiveOK(R, c, page, X)
<1>1. ASSUME NEW e \in X, e.kind = "text", NEW d \in Held(R, e.key), d <= e.seq
      PROVE  d \in Range(e.text) \/ \E g \in page.events : g.key = e.key /\ g.seq >= d
  <2>1. PICK r \in R : r.key = e.key /\ d \in Range(r.text)
    BY HeldBy
  <2>2. CASE \E g \in h.events : g.key = e.key /\ g.seq >= d
    <3>1. \E x \in page.events : x.key = r.key /\ x.seq >= d
      BY <2>1, <2>2, ReachedAtPage
    <3> QED
      BY <2>1, <3>1
  <2> QED
    BY <1>1, <2>2 DEF LiveOK
<1> QED
  BY <1>1 DEF LiveOK, Numbered, Single

LEMMA SubscribedFields ==
  ASSUME NEW n \in Nat, NEW s, s = Subscribed(n)
  PROVE  /\ s \in [phase : {"closed", "connecting", "open"}, after : Nat, last : Nat,
                   wire : Seq(Event \union {Signal})]
         /\ s.phase = "connecting" /\ s.after = n /\ s.last = 0 /\ s.wire = <<>> /\ Point(s) = n
         /\ Range(s.wire) = {}
<1>1. <<>> \in Seq(Event \union {Signal}) /\ DOMAIN <<>> = {}
  OBVIOUS
<1>2. Range(<<>>) = {}
  BY <1>1 DEF Range
<1> QED
  BY <1>1, <1>2 DEF Subscribed, Point

LEMMA WireEmpty ==
  ASSUME NEW R, NEW c, NEW F, NEW from
  PROVE  WireOK(R, c, F, <<>>, from)
BY DEF WireOK

\* The stream starts over after a page.
LEMMA StreamStarts ==
  ASSUME NEW R, R \subseteq Event, NEW k, NEW c, NEW page, PageOK(R, k, c, page), page # NoPage,
         NEW p, NEW F, NEW s, s = Subscribed(page.latest)
  PROVE  StreamOK(R, page, p, F, s)
<1>1. page.latest \in Nat /\ page.latest <= Newest(R)
  BY DEF PageOK
<1>2. /\ s \in [phase : {"closed", "connecting", "open"}, after : Nat, last : Nat,
                wire : Seq(Event \union {Signal})]
      /\ s.phase = "connecting" /\ s.after = page.latest /\ s.last = 0 /\ s.wire = <<>>
      /\ Point(s) = page.latest
  BY <1>1, SubscribedFields
<1>3. \A r \in R : r.seq <= page.latest => Reached(page, F, r.key, r.seq)
  BY RecordFacts DEF PageOK, Covers, Reached
<1> QED
  BY <1>1, <1>2, <1>3 DEF StreamOK

\* The page of the history after a read has come.
LEMMA ArrivedPage ==
  ASSUME NEW F, FeedInvAt(F), fetch.phase = "answered", NEW page, page = MergedLatest(history, fetch.page)
  PROVE  /\ PageOK(rows, run, cut, page) /\ page.latest = fetch.page.latest /\ page # NoPage
         /\ history.latest <= page.latest
         /\ \A e \in page.events : \E d \in history.events \union fetch.page.events :
               d.seq = e.seq /\ d.key = e.key
<1>1. PICK P : P = fetch.page
  OBVIOUS
<1>2. PageOK(rows, run, cut, P) /\ history.latest <= P.latest
  BY <1>1 DEF FeedInvAt, FetchOK
<1>3. CASE history = NoPage \/ history.revision # P.revision
  <2>1. page = P
    BY <1>1, <1>3 DEF MergedLatest
  <2>2. P # NoPage
    BY <1>2 DEF PageOK, NoPage
  <2> QED
    BY <1>1, <1>2, <2>1, <2>2
<1>4. CASE ~ (history = NoPage \/ history.revision # P.revision)
  <2>1. PICK C : C = Coalesced(history.events, P.events)
    OBVIOUS
  <2>2. page = [P EXCEPT !.events = C]
    BY <1>1, <1>4, <2>1 DEF MergedLatest
  <2>3. DOMAIN P = {"events", "latest", "revision"} /\ P.revision # 0
    BY <1>2 DEF PageOK
  <2>4. /\ page.events = C /\ page.latest = P.latest /\ page.revision = P.revision
        /\ DOMAIN page = {"events", "latest", "revision"}
    BY <2>2, <2>3
  <2>5. PICK h : h = history
    OBVIOUS
  <2>6. PageOK(rows, run, cut, h) /\ rows \subseteq Event
    BY <1>4, <2>5 DEF FeedInvAt, RecordOK
  <2>7. \A e \in h.events, d \in P.events : e.seq = d.seq => e.key = d.key
    BY <1>1, <2>5 DEF FeedInvAt, Identity, Known
  <2>8. /\ PageOK(rows, run, cut, page) /\ page.latest = P.latest
        /\ \A e \in page.events : \E d \in h.events \union P.events : d.seq = e.seq /\ d.key = e.key
    BY <1>2, <2>1, <2>4, <2>5, <2>6, <2>7, MergedPage
  <2>9. page # NoPage
    BY <2>3, <2>4 DEF NoPage
  <2> QED
    BY <1>1, <1>2, <2>5, <2>8, <2>9
<1> QED
  BY <1>3, <1>4

LEMMA FetchIdle ==
  ASSUME NEW R, NEW k, NEW c, NEW h, NEW F, NEW f, f.phase \in {"idle", "asked"}
  PROVE  FetchOK(R, k, c, h, F, f)
BY DEF FetchOK

LEMMA IdentityLess ==
  ASSUME NEW R, NEW F, NEW h, NEW f, NEW s, Identity(R, F, h, f, s),
         NEW F2, NEW h2, NEW f2, NEW s2,
         \A e \in F2 \union h2.events : \E d \in Known(R, F, h, f, s) : d.seq = e.seq /\ d.key = e.key,
         f2 = f \/ f2.phase # "answered", Range(s2.wire) \subseteq Range(s.wire)
  PROVE  Identity(R, F2, h2, f2, s2)
<1>1. PICK K : K = Known(R, F, h, f, s)
  OBVIOUS
<1>2. PICK K2 : K2 = Known(R, F2, h2, f2, s2)
  OBVIOUS
<1>3. \A x, d \in K : x.seq = d.seq => x.key = d.key
  BY <1>1 DEF Identity
<1>4. ASSUME NEW e \in K2 PROVE \E d \in K : d.seq = e.seq /\ d.key = e.key
  <2>1. CASE e \in F2 \union h2.events
    BY <1>1, <2>1
  <2>2. CASE e \notin F2 \union h2.events
    BY <1>1, <1>2, <1>4, <2>2 DEF Known
  <2> QED
    BY <2>1, <2>2
<1>5. \A x, d \in K2 : x.seq = d.seq => x.key = d.key
  BY <1>3, <1>4, IdentityStays
<1> QED
  BY <1>2, <1>5 DEF Identity

\* The page comes.
LEMMA StepHistoryArrives ==
  ASSUME NEW F, F = FlushedOf(live, pending), FeedInvAt(F), HistoryArrives,
         NEW F2, F2 = FlushedOf(live', pending')
  PROVE  FeedInvAt(F2)'
<1>1. PICK page : page = MergedLatest(history, fetch.page)
  OBVIOUS
<1>2. PICK idle : idle = [phase |-> "idle"]
  OBVIOUS
<1>3. PICK left : left = {e \in F : e.seq > page.latest}
  OBVIOUS
<1>4. PICK started : started = Subscribed(page.latest)
  OBVIOUS
<1>5. /\ fetch.phase = "answered" /\ history' = page /\ fetch' = idle
      /\ UNCHANGED <<rows, revision, run, running, mounted, turbulence, cut>>
      /\ \/ /\ history # NoPage /\ page.latest = history.latest
            /\ UNCHANGED <<live, pending, stream>>
         \/ /\ ~ (history # NoPage /\ page.latest = history.latest)
            /\ live' = left /\ pending' = <<>> /\ stream' = started
  BY <1>1, <1>2, <1>3, <1>4, FlushedNow DEF HistoryArrives, serverVars, liveVars
<1>6. /\ PageOK(rows, run, cut, page) /\ page.latest = fetch.page.latest /\ page # NoPage
      /\ history.latest <= page.latest
      /\ \A e \in page.events : \E d \in history.events \union fetch.page.events :
            d.seq = e.seq /\ d.key = e.key
  BY <1>1, <1>5, ArrivedPage
<1>7. rows \subseteq Event /\ mounted /\ idle.phase = "idle"
  BY <1>2, <1>5 DEF FeedInvAt, RecordOK
<1>8. ASSUME NEW G, G \subseteq F, NEW s, Range(s.wire) \subseteq Range(stream.wire)
      PROVE  Identity(rows, G, page, idle, s)
  <2>1. Identity(rows, F, history, fetch, stream)
    BY DEF FeedInvAt
  <2>2. \A e \in G \union page.events :
           \E d \in Known(rows, F, history, fetch, stream) : d.seq = e.seq /\ d.key = e.key
    BY <1>5, <1>6, <1>8 DEF Known
  <2> QED
    BY <1>7, <1>8, <2>1, <2>2, IdentityLess
<1>9. CASE history # NoPage /\ page.latest = history.latest /\ UNCHANGED <<live, pending, stream>>
  <2>1. F2 = F
    BY <1>9
  <2>2. PICK h : h = history
    OBVIOUS
  <2>3. h # NoPage /\ PageOK(rows, run, cut, h) /\ h.latest = page.latest /\ h.latest <= page.latest
    BY <1>6, <1>9, <2>2 DEF FeedInvAt
  <2>4. ASSUME NEW E, LiveOK(rows, cut, h, E) PROVE LiveOK(rows, cut, page, E)
    <3>1. E \subseteq E /\ \A e \in E : e.seq > page.latest
      BY <2>3, <2>4 DEF LiveOK
    <3> QED
      BY <1>6, <1>7, <2>3, <2>4, <3>1, LiveAtPage
  <2>5. LiveOK(rows, cut, page, live) /\ LiveOK(rows, cut, page, F)
    BY <2>2, <2>4 DEF FeedInvAt
  <2>6. StreamOK(rows, page, pending, F, stream)
    <3>1. StreamOK(rows, h, pending, F, stream)
      BY <2>2 DEF FeedInvAt
    <3>2. ASSUME NEW r \in rows, NEW d \in Range(r.text), Reached(h, F, r.key, d)
          PROVE  Reached(page, F, r.key, d)
      <4>1. CASE \E e \in F : e.key = r.key /\ e.seq >= d
        BY <4>1 DEF Reached
      <4>2. CASE \E g \in h.events : g.key = r.key /\ g.seq >= d
        <5>1. \E x \in page.events : x.key = r.key /\ x.seq >= d
          BY <1>6, <1>7, <2>3, <4>2, ReachedAtPage
        <5> QED
          BY <5>1 DEF Reached
      <4> QED
        BY <3>2, <4>1, <4>2 DEF Reached
    <3>3. \A r \in rows : r.seq \in Range(r.text)
      BY <1>7, RecordFacts
    <3>4. stream.phase = "connecting" =>
             \A r \in rows : r.seq <= Point(stream) => Reached(page, F, r.key, r.seq)
      BY <3>1, <3>2, <3>3 DEF StreamOK
    <3>5. stream.phase = "open" =>
             \A r \in rows : \A d \in Range(r.text) : Reached(page, F, r.key, d) \/ OnWire(stream.wire, r.key, d)
      BY <3>1, <3>2 DEF StreamOK
    <3> QED
      BY <1>6, <2>3, <3>1, <3>4, <3>5 DEF StreamOK
  <2>7. Identity(rows, F, page, idle, stream)
    BY <1>8
  <2>8. FetchOK(rows, run, cut, page, F, idle)
    BY <1>7, FetchIdle
  <2> QED
    BY <1>5, <1>6, <1>7, <1>9, <2>1, <2>5, <2>6, <2>7, <2>8 DEF FeedInvAt
<1>10. CASE /\ ~ (history # NoPage /\ page.latest = history.latest)
            /\ live' = left /\ pending' = <<>> /\ stream' = started
  <2>1. F2 = left
    BY <1>10, NothingFlushed
  <2>2. page.latest \in Nat /\ rows \subseteq Event
    BY <1>6, <1>7 DEF PageOK
  <2>3. /\ started.phase = "connecting" /\ started.wire = <<>> /\ Point(started) = page.latest
        /\ Range(started.wire) = {}
    BY <1>4, <2>2, SubscribedFields
  <2>4. LiveOK(rows, cut, page, left)
    <3>1. LiveOK(rows, cut, history, F)
      BY DEF FeedInvAt
    <3>2. left \subseteq F /\ \A e \in left : e.seq > page.latest
      BY <1>3
    <3>3. CASE history = NoPage
      <4>1. \A e \in F : e.seq <= page.latest
        BY <1>5, <1>6, <3>3 DEF FeedInvAt, FetchOK
      <4>2. \A e \in F : e.seq \in Nat
        BY <3>1, EventFields DEF LiveOK
      <4>3. left = {}
        BY <2>2, <3>2, <4>1, <4>2
      <4> QED
        BY <4>3 DEF LiveOK, Numbered, Single
    <3>4. CASE history # NoPage
      <4>1. PICK h : h = history
        OBVIOUS
      <4>2. h # NoPage /\ PageOK(rows, run, cut, h) /\ h.latest <= page.latest /\ LiveOK(rows, cut, h, F)
        BY <1>6, <3>1, <3>4, <4>1 DEF FeedInvAt
      <4> QED
        BY <1>6, <1>7, <3>2, <4>2, LiveAtPage
    <3> QED
      BY <3>3, <3>4
  <2>5. StreamOK(rows, page, <<>>, left, started)
    BY <1>4, <1>6, <1>7, StreamStarts
  <2>6. WireOK(rows, cut, left, started.wire, Point(started))
    BY <2>3, WireEmpty
  <2>7. Identity(rows, left, page, idle, started)
    BY <1>3, <1>8, <2>3
  <2>8. FetchOK(rows, run, cut, page, left, idle)
    BY <1>7, FetchIdle
  <2>9. PendingOK(left, <<>>, left)
    BY DEF PendingOK
  <2> QED
    BY <1>5, <1>6, <1>7, <1>10, <2>1, <2>4, <2>5, <2>6, <2>7, <2>8, <2>9 DEF FeedInvAt
<1> QED
  BY <1>5, <1>9, <1>10

\* The server replays what came after the resume point.
LEMMA StepConnect ==
  ASSUME NEW F, FeedInvAt(F), Connect
  PROVE  FeedInvAt(F)'
<1>1. PICK from : from = Point(stream)
  OBVIOUS
<1>2. PICK replay : replay = {r \in rows : r.seq > from}
  OBVIOUS
<1>3. PICK held : held = KeysOf(live) \union KeysOf(Range(pending)) \union KeysOf(history.events)
  OBVIOUS
<1>4. PICK w : w = InOrder(replay)
  OBVIOUS
<1>5. PICK s2 : s2 = [stream EXCEPT !.phase = "open", !.wire = w]
  OBVIOUS
<1>6. PICK c2 : c2 = cut \union {r.key : r \in {r \in replay : Len(r.text) > 1 /\ r.key \in held}}
  OBVIOUS
<1>7. /\ stream.phase = "connecting" /\ stream' = s2 /\ cut' = c2
      /\ UNCHANGED <<rows, revision, run, running, mounted, history, fetch, live, pending, turbulence>>
  BY <1>1, <1>2, <1>3, <1>4, <1>5, <1>6 DEF Connect, Point, serverVars, historyVars
<1>8. /\ stream \in [phase : {"closed", "connecting", "open"}, after : Nat, last : Nat,
                     wire : Seq(Event \union {Signal})]
      /\ StreamOK(rows, history, pending, F, stream) /\ RecordOK(rows, revision, run, running)
      /\ rows \subseteq Event
  BY DEF FeedInvAt, StreamOK, RecordOK
<1>9. \A r \in rows : /\ r \in Event /\ r.seq \in 1..MaxEvents /\ r.seq \in Nat /\ r.seq <= Newest(rows)
                      /\ \A d \in Range(r.text) : d \in Nat /\ d <= r.seq
  BY <1>8, RecordFacts
<1>10. \A r \in replay : r \in rows /\ r.seq > from
  BY <1>2
<1>11. /\ w \in Seq(replay) /\ Len(w) \in Nat /\ DOMAIN w = 1..Len(w) /\ Range(w) = replay
       /\ \A i \in 1..Len(w) : w[i] \in replay
       /\ \A i, j \in 1..Len(w) : i < j => w[i].seq < w[j].seq
  <2>1. Numbered(replay)
    BY <1>8, <1>10 DEF RecordOK, Numbered
  <2>2. \A e \in replay : e.seq \in 1..MaxEvents
    BY <1>9, <1>10
  <2> QED
    BY <1>4, <2>1, <2>2, Ordered
<1>12. w \in Seq(Event \union {Signal})
  BY <1>8, <1>10, <1>11
<1>13. /\ s2 \in [phase : {"closed", "connecting", "open"}, after : Nat, last : Nat,
                  wire : Seq(Event \union {Signal})]
       /\ s2.phase = "open" /\ s2.wire = w /\ s2.after = stream.after /\ s2.last = stream.last
       /\ Point(s2) = from /\ from \in Nat
  BY <1>1, <1>5, <1>8, <1>12 DEF Point
<1>14. cut \subseteq c2 /\ c2 \subseteq Keys
  <2>1. \A r \in rows : r.key \in Keys
    BY <1>9, EventFields
  <2> QED
    BY <1>6, <1>10, <2>1 DEF FeedInvAt
<1>15. Grown(rows, run, rows, run)
  BY <1>8, GrownByNothing
<1>16. history # NoPage => PageOK(rows, run, c2, history)
  BY <1>14, <1>15, PageKept DEF FeedInvAt
<1>17. LiveOK(rows, c2, history, live) /\ LiveOK(rows, c2, history, F)
  BY <1>14, <1>15, LiveKept DEF FeedInvAt
<1>18. FetchOK(rows, run, c2, history, F, fetch)
  BY <1>14, <1>15, FetchKept DEF FeedInvAt
<1>19. ASSUME NEW r \in rows, NEW d \in Range(r.text)
       PROVE  Reached(history, F, r.key, d) \/ OnWire(w, r.key, d)
  <2>1. CASE r.seq <= from
    <3>1. PICK e \in history.events \union F : e.key = r.key /\ e.seq >= r.seq
      BY <1>1, <1>7, <1>8, <2>1 DEF StreamOK, Reached
    <3>2. e.seq \in Nat
      <4>1. e \in Known(rows, F, history, fetch, stream)
        BY <3>1 DEF Known
      <4> QED
        BY <4>1, KnownOld
    <3>3. e.seq >= d
      BY <1>9, <1>19, <3>1, <3>2
    <3> QED
      BY <3>1, <3>3 DEF Reached
  <2>2. CASE ~ (r.seq <= from)
    <3>1. r \in replay
      BY <1>2, <1>9, <1>13, <2>2
    <3>2. PICK i \in 1..Len(w) : w[i] = r
      BY <1>11, <3>1 DEF Range
    <3> QED
      BY <1>19, <3>2 DEF OnWire
  <2> QED
    BY <2>1, <2>2
<1>20. StreamOK(rows, history, pending, F, s2)
  BY <1>1, <1>7, <1>8, <1>13, <1>19 DEF StreamOK
<1>21. WireOK(rows, c2, F, w, from)
  <2> SUFFICES ASSUME NEW i \in 1..Len(w), w[i].kind # "signal"
               PROVE  /\ w[i].seq > from /\ w[i].seq <= Newest(rows)
                      /\ OfRecord(rows, w[i]) /\ Sorted(w[i].text)
                      /\ Len(w[i].text) > 1 =>
                           /\ w[i] \in rows
                           /\ w[i].key \notin c2 => \A e \in F : e.key # w[i].key
                           /\ \A j \in 1..Len(w) : j # i => w[j].key # w[i].key
                      /\ \A j \in 1..Len(w) : j < i /\ w[j].kind # "signal" =>
                           /\ w[j].seq < w[i].seq
                           /\ w[j].key = w[i].key => \A d \in Range(w[i].text) : d > w[j].seq
    BY DEF WireOK
  <2>1. w[i] \in replay /\ w[i] \in rows /\ w[i].seq > from /\ w[i].seq \in Nat
    BY <1>9, <1>10, <1>11
  <2>2. OfRecord(rows, w[i])
    BY <2>1, HeldBy DEF OfRecord
  <2>3. Sorted(w[i].text)
    BY <1>8, <2>1 DEF RecordOK
  <2>4. ASSUME Len(w[i].text) > 1, w[i].key \notin c2, NEW e \in F PROVE e.key # w[i].key
    <3>1. w[i].key \notin held
      BY <1>6, <2>1, <2>4
    <3>2. PICK d \in live \union Range(pending) : d.key = e.key
      BY DEF FeedInvAt, PendingOK
    <3>3. e.key \in held
      BY <1>3, <3>2 DEF KeysOf
    <3> QED
      BY <3>1, <3>3
  <2>5. ASSUME Len(w[i].text) > 1, NEW j \in 1..Len(w), j # i PROVE w[j].key # w[i].key
    <3>1. w[j] \in rows /\ w[j].seq \in Nat
      BY <1>9, <1>10, <1>11
    <3>2. w[j] # w[i]
      <4>1. CASE i < j
        BY <1>11, <2>1, <3>1, <4>1
      <4>2. CASE j < i
        BY <1>11, <2>1, <3>1, <4>2
      <4> QED
        BY <1>11, <2>5, <4>1, <4>2
    <3> QED
      BY <1>8, <2>1, <2>5, <3>1, <3>2 DEF RecordOK
  <2>6. ASSUME NEW j \in 1..Len(w), j < i
        PROVE  w[j].seq < w[i].seq /\ (w[j].key = w[i].key => \A d \in Range(w[i].text) : d > w[j].seq)
    <3>1. w[j] \in rows /\ w[j].seq < w[i].seq
      BY <1>10, <1>11, <2>6
    <3> QED
      BY <1>8, <2>1, <3>1 DEF RecordOK
  <2> QED
    BY <1>9, <2>1, <2>2, <2>3, <2>4, <2>5, <2>6
<1>22. Identity(rows, F, history, fetch, s2)
  <2>1. Known(rows, F, history, fetch, s2) \subseteq Known(rows, F, history, fetch, stream)
    BY <1>10, <1>11, <1>13 DEF Known
  <2> QED
    BY <2>1 DEF FeedInvAt, Identity
<1>23. mounted
  BY <1>7 DEF FeedInvAt, NoStream
<1> QED
  BY <1>7, <1>8, <1>13, <1>14, <1>16, <1>17, <1>18, <1>20, <1>21, <1>22, <1>23 DEF FeedInvAt

\* What the record holds up to the resume point is in the page or in the flushed cache, or past by
\* a newer event of its projection.
LEMMA UpToPoint ==
  ASSUME NEW F, FeedInvAt(F), stream.phase # "closed", NEW r \in rows, r.seq <= Point(stream)
  PROVE  Reached(history, F, r.key, r.seq)
<1>1. StreamOK(rows, history, pending, F, stream) /\ rows \subseteq Event
  BY DEF FeedInvAt, StreamOK, RecordOK
<1>2. CASE stream.phase = "connecting"
  BY <1>1, <1>2 DEF StreamOK
<1>3. CASE stream.phase = "open"
  <2>1. r.seq \in Range(r.text) /\ r.seq \in Nat
    BY <1>1, RecordFacts
  <2>2. SUFFICES ASSUME OnWire(stream.wire, r.key, r.seq) PROVE FALSE
    BY <1>1, <1>3, <2>1 DEF StreamOK
  <2>3. PICK w, from : w = stream.wire /\ from = Point(stream)
    OBVIOUS
  <2>4. w \in Seq(Event \union {Signal}) /\ WireOK(rows, cut, F, w, from) /\ from \in Nat
    BY <1>1, <2>3 DEF FeedInvAt, StreamOK, Point
  <2>5. PICK i \in 1..Len(w) : w[i].key = r.key /\ r.seq \in Range(w[i].text)
    BY <2>2, <2>3 DEF OnWire
  <2>6. r \in Event /\ r.key # NoRun
    BY <1>1, EventFields
  <2>7. w[i] \in Event /\ w[i].kind # "signal"
    <3>1. w[i] \in Event
      BY <2>4, <2>5, <2>6, ElementOfSeq DEF Signal
    <3> QED
      BY <3>1, EventFields DEF Kind
  <2>8. w[i].seq > from /\ w[i].seq \in Nat
    BY <2>4, <2>5, <2>7, EventFields DEF WireOK
  <2>9. CASE Len(w[i].text) > 1
    <3>1. w[i] \in rows
      BY <2>4, <2>5, <2>7, <2>9 DEF WireOK
    <3>2. r = w[i]
      BY <2>5, <2>9, <3>1 DEF FeedInvAt, RecordOK
    <3> QED
      BY <2>1, <2>3, <2>4, <2>8, <3>2
  <2>10. CASE ~ (Len(w[i].text) > 1)
    <3>1. PICK n : n = w[i].seq
      OBVIOUS
    <3>2. w[i].text = <<n>> /\ n \in 1..MaxEvents
      BY <2>7, <2>10, <3>1, EventText, EventFields
    <3>3. Range(w[i].text) = {n}
      BY <3>2, OneDelta
    <3> QED
      BY <2>1, <2>3, <2>4, <2>5, <2>8, <3>1, <3>3
  <2> QED
    BY <2>9, <2>10
<1> QED
  BY <1>1, <1>2, <1>3 DEF StreamOK

\* The events that came are put into the cache.
LEMMA StepFlush ==
  ASSUME NEW F, F = FlushedOf(live, pending), FeedInvAt(F), Flush,
         NEW F2, F2 = FlushedOf(live', pending')
  PROVE  FeedInvAt(F2)'
<1>1. /\ mounted /\ live' = F /\ pending' = <<>>
      /\ UNCHANGED <<rows, revision, run, running, mounted, history, fetch, stream, turbulence, cut>>
  BY FlushedNow DEF Flush, serverVars, historyVars
<1>2. F2 = F
  BY <1>1, NothingFlushed
<1>3. PendingOK(F, <<>>, F)
  BY DEF PendingOK
<1>4. StreamOK(rows, history, <<>>, F, stream)
  BY DEF FeedInvAt, StreamOK
<1> QED
  BY <1>1, <1>2, <1>3, <1>4 DEF FeedInvAt

\* The connection breaks.
LEMMA StepStreamFails ==
  ASSUME NEW F, FeedInvAt(F), StreamFails
  PROVE  FeedInvAt(F)'
<1>1. PICK s2 : s2 = [stream EXCEPT !.phase = "connecting", !.wire = <<>>]
  OBVIOUS
<1>2. /\ stream.phase # "closed" /\ stream' = s2 /\ turbulence' = turbulence + 1
      /\ UNCHANGED <<rows, revision, run, running, mounted, history, fetch, live, pending, cut>>
  BY <1>1 DEF StreamFails, Disturbed, serverVars, historyVars
<1>3. /\ stream \in [phase : {"closed", "connecting", "open"}, after : Nat, last : Nat,
                     wire : Seq(Event \union {Signal})]
      /\ StreamOK(rows, history, pending, F, stream)
  BY DEF FeedInvAt, StreamOK
<1>4. <<>> \in Seq(Event \union {Signal}) /\ Range(<<>>) = {}
  <2>1. <<>> \in Seq(Event \union {Signal}) /\ DOMAIN <<>> = {}
    OBVIOUS
  <2> QED
    BY <2>1 DEF Range
<1>5. /\ s2 \in [phase : {"closed", "connecting", "open"}, after : Nat, last : Nat,
                 wire : Seq(Event \union {Signal})]
      /\ s2.phase = "connecting" /\ s2.wire = <<>> /\ s2.after = stream.after /\ s2.last = stream.last
      /\ Point(s2) = Point(stream)
  BY <1>1, <1>3, <1>4 DEF Point
<1>6. StreamOK(rows, history, pending, F, s2)
  BY <1>2, <1>3, <1>5, UpToPoint DEF StreamOK
<1>7. WireOK(rows, cut, F, s2.wire, Point(s2))
  BY <1>5, WireEmpty
<1>8. Identity(rows, F, history, fetch, s2)
  <2>1. Known(rows, F, history, fetch, s2) \subseteq Known(rows, F, history, fetch, stream)
    BY <1>4, <1>5 DEF Known
  <2> QED
    BY <2>1 DEF FeedInvAt, Identity
<1>9. mounted /\ turbulence' \in Nat
  BY <1>2 DEF FeedInvAt, NoStream
<1> QED
  BY <1>2, <1>6, <1>7, <1>8, <1>9 DEF FeedInvAt

\* A stream that is closed.
LEMMA StreamClosed ==
  ASSUME NEW R, NEW c, NEW h, NEW p, NEW F, h = NoPage => p = <<>>
  PROVE  /\ StreamOK(R, h, p, F, NoStream) /\ WireOK(R, c, F, NoStream.wire, Point(NoStream))
         /\ Range(NoStream.wire) = {}
<1>1. <<>> \in Seq(Event \union {Signal}) /\ DOMAIN <<>> = {}
  OBVIOUS
<1>2. /\ NoStream \in [phase : {"closed", "connecting", "open"}, after : Nat, last : Nat,
                       wire : Seq(Event \union {Signal})]
      /\ NoStream.phase = "closed" /\ NoStream.wire = <<>>
  BY <1>1 DEF NoStream
<1>3. WireOK(R, c, F, NoStream.wire, Point(NoStream))
  BY <1>2, WireEmpty
<1>4. Range(<<>>) = {}
  BY <1>1 DEF Range
<1> QED
  BY <1>2, <1>3, <1>4 DEF StreamOK

\* The user goes elsewhere.
LEMMA StepLeaveThread ==
  ASSUME NEW F, F = FlushedOf(live, pending), FeedInvAt(F), LeaveThread,
         NEW F2, F2 = FlushedOf(live', pending')
  PROVE  FeedInvAt(F2)'
<1>1. PICK idle : idle = [phase |-> "idle"]
  OBVIOUS
<1>2. /\ mounted' = FALSE /\ fetch' = idle /\ stream' = NoStream /\ live' = F /\ pending' = <<>>
      /\ turbulence' = turbulence + 1
      /\ UNCHANGED <<rows, revision, run, running, history, cut>>
  BY <1>1, FlushedNow DEF LeaveThread, Disturbed, serverVars
<1>3. F2 = F
  BY <1>2, NothingFlushed
<1>4. idle.phase = "idle" /\ turbulence' \in Nat
  BY <1>1, <1>2 DEF FeedInvAt
<1>5. PendingOK(F, <<>>, F)
  BY DEF PendingOK
<1>6. /\ StreamOK(rows, history, <<>>, F, NoStream)
      /\ WireOK(rows, cut, F, NoStream.wire, Point(NoStream)) /\ Range(NoStream.wire) = {}
  BY StreamClosed
<1>7. FetchOK(rows, run, cut, history, F, idle)
  BY <1>4, FetchIdle
<1>8. Identity(rows, F, history, idle, NoStream)
  <2>1. Known(rows, F, history, idle, NoStream) \subseteq Known(rows, F, history, fetch, stream)
    BY <1>4, <1>6 DEF Known
  <2> QED
    BY <2>1 DEF FeedInvAt, Identity
<1> QED
  BY <1>2, <1>3, <1>4, <1>5, <1>6, <1>7, <1>8 DEF FeedInvAt

\* A page is forgotten.
LEMMA StepForget ==
  ASSUME NEW F, FeedInvAt(F), Forget
  PROVE  FeedInvAt(F)'
<1>1. /\ ~ mounted /\ history' = NoPage
      /\ UNCHANGED <<rows, revision, run, running, mounted, fetch, live, pending, stream, turbulence, cut>>
  BY DEF Forget, serverVars, liveVars
<1>2. stream = NoStream /\ pending = <<>> /\ fetch.phase = "idle"
  BY <1>1 DEF FeedInvAt
<1>3. LiveOK(rows, cut, NoPage, live) /\ LiveOK(rows, cut, NoPage, F)
  BY DEF FeedInvAt, LiveOK
<1>4. StreamOK(rows, NoPage, pending, F, stream)
  BY <1>2, StreamClosed
<1>5. FetchOK(rows, run, cut, NoPage, F, fetch)
  BY <1>2, FetchIdle
<1>6. Identity(rows, F, NoPage, fetch, stream)
  <2>1. NoPage.events = {}
    BY DEF NoPage
  <2>2. Known(rows, F, NoPage, fetch, stream) \subseteq Known(rows, F, history, fetch, stream)
    BY <2>1 DEF Known
  <2> QED
    BY <2>2 DEF FeedInvAt, Identity
<1> QED
  BY <1>1, <1>3, <1>4, <1>5, <1>6 DEF FeedInvAt

\* The thread is opened.
LEMMA StepOpenThread ==
  ASSUME NEW F, F = FlushedOf(live, pending), FeedInvAt(F), NEW fresh \in BOOLEAN, OpenThread(fresh),
         NEW F2, F2 = FlushedOf(live', pending')
  PROVE  FeedInvAt(F2)'
<1>1. PICK left : left = {e \in live : e.seq > history.latest \/ history.latest = 0}
  OBVIOUS
<1>2. PICK f2 : f2 = IF fresh THEN fetch ELSE [phase |-> "asked"]
  OBVIOUS
<1>3. PICK s2 : s2 = IF history = NoPage THEN NoStream ELSE Subscribed(history.latest)
  OBVIOUS
<1>4. /\ ~ mounted /\ mounted' = TRUE /\ fetch' = f2 /\ stream' = s2 /\ live' = left
      /\ UNCHANGED <<rows, revision, run, running, history, pending, turbulence, cut>>
  BY <1>1, <1>2, <1>3 DEF OpenThread, serverVars
<1>5. stream = NoStream /\ pending = <<>> /\ fetch.phase = "idle" /\ rows \subseteq Event
  BY <1>4 DEF FeedInvAt, RecordOK
<1>6. F = live /\ F2 = left
  BY <1>4, <1>5, NothingFlushed
<1>7. left \subseteq live
  BY <1>1
<1>8. f2.phase \in {"idle", "asked"}
  BY <1>2, <1>5
<1>9. LiveOK(rows, cut, history, left)
  BY <1>7 DEF FeedInvAt, LiveOK, Numbered, Single
<1>10. FetchOK(rows, run, cut, history, left, f2)
  BY <1>8, FetchIdle
<1>11. PendingOK(left, pending, left)
  BY <1>5 DEF PendingOK
<1>12. /\ StreamOK(rows, history, pending, left, s2) /\ WireOK(rows, cut, left, s2.wire, Point(s2))
       /\ Range(s2.wire) = {}
  <2>1. CASE history = NoPage
    BY <1>3, <1>5, <2>1, StreamClosed
  <2>2. CASE history # NoPage
    <3>1. PICK h : h = history
      OBVIOUS
    <3>2. PageOK(rows, run, cut, h) /\ h # NoPage /\ s2 = Subscribed(h.latest)
      BY <1>3, <2>2, <3>1 DEF FeedInvAt
    <3>3. StreamOK(rows, h, pending, left, s2)
      BY <1>5, <3>2, StreamStarts
    <3>4. s2.wire = <<>> /\ Range(s2.wire) = {}
      BY <3>2, SubscribedFields DEF PageOK
    <3>5. WireOK(rows, cut, left, s2.wire, Point(s2))
      BY <3>4, WireEmpty
    <3> QED
      BY <3>1, <3>3, <3>4, <3>5
  <2> QED
    BY <2>1, <2>2
<1>13. Identity(rows, left, history, f2, s2)
  <2>1. f2.phase # "answered"
    BY <1>8
  <2>2. Known(rows, left, history, f2, s2) \subseteq Known(rows, F, history, fetch, stream)
    BY <1>6, <1>7, <1>12, <2>1 DEF Known
  <2> QED
    BY <2>2 DEF FeedInvAt, Identity
<1> QED
  BY <1>4, <1>6, <1>9, <1>10, <1>11, <1>12, <1>13 DEF FeedInvAt

\* An event is put into the flushed cache: what it brings is past what the page has, and reaches all
\* that came before.
LEMMA LiveTakes ==
  ASSUME NEW F, FeedInvAt(F), stream.phase = "open", NEW e, Len(stream.wire) > 0, e = stream.wire[1],
         e.kind # "signal", NEW F2, F2 = Merged(F, e)
  PROVE  /\ e \in Event /\ LiveOK(rows, cut, history, F2)
         /\ \A x \in F2 : x \in F \/ (x.seq = e.seq /\ x.key = e.key)
         /\ \A x \in F : \E y \in F2 : y.key = x.key /\ y.seq >= x.seq
         /\ \E y \in F2 : y.key = e.key /\ y.seq >= e.seq
<1>1. PICK w, from : w = stream.wire /\ from = Point(stream)
  OBVIOUS
<1>2. /\ w \in Seq(Event \union {Signal}) /\ WireOK(rows, cut, F, w, from) /\ from \in Nat
      /\ Len(w) \in Nat /\ 1 \in 1..Len(w) /\ e = w[1]
  BY <1>1, LenProperties DEF FeedInvAt, StreamOK, Point
<1>3. e \in Event /\ e.seq \in Nat /\ e.key # NoRun
  BY <1>2, ElementOfSeq, EventFields DEF Signal
<1>4. /\ e.seq > from /\ e.seq <= Newest(rows) /\ OfRecord(rows, e) /\ Sorted(e.text)
      /\ Len(e.text) > 1 /\ e.key \notin cut => \A x \in F : x.key # e.key
  BY <1>2 DEF WireOK
<1>5. F \subseteq Event /\ Numbered(F) /\ Single(F) /\ rows \subseteq Event /\ LiveOK(rows, cut, history, F)
  BY DEF FeedInvAt, LiveOK, RecordOK
<1>6. /\ history # NoPage /\ e.seq > history.latest
  <2>1. history # NoPage /\ PageOK(rows, run, cut, history)
    BY DEF FeedInvAt, StreamOK
  <2>2. stream.after = history.latest /\ (stream.last = 0 \/ stream.after < stream.last)
        /\ stream.last \in Nat /\ stream.after \in Nat
    BY DEF FeedInvAt, StreamOK
  <2> QED
    BY <1>1, <1>3, <1>4, <2>1, <2>2 DEF Point
<1>7. \A x \in F : x.seq = e.seq => x.key = e.key
  <2>1. e \in Range(stream.wire)
    BY <1>1, <1>2, LenProperties DEF Range
  <2>2. e \in Known(rows, F, history, fetch, stream) /\ F \subseteq Known(rows, F, history, fetch, stream)
    BY <2>1 DEF Known
  <2> QED
    BY <2>2 DEF FeedInvAt, Identity
<1>8. CASE F2 = F /\ \E x \in F : x.key = e.key /\ x.seq >= e.seq
  <2>1. \A x \in F : x.seq >= x.seq
    BY <1>5, EventFields
  <2> QED
    BY <1>3, <1>5, <1>8, <2>1
<1>9. ASSUME NEW y \in Event, Taken(F, e, F2, y)
      PROVE  /\ LiveOK(rows, cut, history, F2)
             /\ \A x \in F2 : x \in F \/ (x.seq = e.seq /\ x.key = e.key)
             /\ \A x \in F : \E z \in F2 : z.key = x.key /\ z.seq >= x.seq
             /\ \E z \in F2 : z.key = e.key /\ z.seq >= e.seq
  <2>1. /\ F2 = {x \in F : x.key # e.key} \union {y}
        /\ \A x \in F : x.seq # e.seq /\ (x.key = e.key => x.seq < e.seq)
        /\ y.seq = e.seq /\ y.key = e.key /\ y.kind = e.kind
        /\ (\A x \in F : x.key # e.key) => y = e
        /\ \A x \in F : x.key = e.key /\ e.kind = "text" =>
              /\ x.kind = "text"
              /\ Range(y.text) = Range(x.text) \union Range(e.text)
              /\ Sorted(x.text) /\ Sorted(e.text) /\ (\A d \in Range(e.text) : d > x.seq)
                    => Sorted(y.text)
    BY <1>9 DEF Taken
  <2>2. F2 \subseteq Event /\ Numbered(F2) /\ Single(F2)
    BY <1>5, <2>1 DEF Numbered, Single
  <2>3. y.seq <= Newest(rows) /\ y.seq > history.latest /\ y.seq \in Nat
    BY <1>3, <1>4, <1>6, <2>1
  <2>4. e.kind = "text" => Range(e.text) \subseteq Range(y.text)
    BY <2>1
  <2>5. OfRecord(rows, y)
    <3> SUFFICES ASSUME e.kind = "text", NEW d \in Range(y.text) PROVE d \in Held(rows, e.key)
      BY <2>1 DEF OfRecord
    <3>1. CASE d \in Range(e.text)
      BY <1>4, <3>1 DEF OfRecord
    <3>2. CASE d \notin Range(e.text)
      <4>1. PICK x \in F : x.key = e.key /\ d \in Range(x.text)
        BY <2>1, <3>2
      <4>2. x.kind = "text" /\ OfRecord(rows, x)
        BY <1>5, <2>1, <4>1 DEF LiveOK
      <4> QED
        BY <4>1, <4>2 DEF OfRecord
    <3> QED
      BY <3>1, <3>2
  <2>6. ASSUME y.kind = "text", y.key \notin cut PROVE Sorted(y.text)
    <3>1. CASE \A x \in F : x.key # e.key
      BY <1>4, <2>1, <3>1
    <3>2. CASE \E x \in F : x.key = e.key
      <4>1. PICK x \in F : x.key = e.key
        BY <3>2
      <4>2. x.kind = "text" /\ x.seq < e.seq /\ Sorted(x.text)
        BY <1>5, <2>1, <2>6, <4>1 DEF LiveOK
      <4>3. ~ (Len(e.text) > 1)
        BY <1>4, <2>1, <2>6, <4>1
      <4>4. PICK n : n = e.seq
        OBVIOUS
      <4>5. e.text = <<n>> /\ n \in 1..MaxEvents
        BY <1>3, <4>3, <4>4, EventText, EventFields
      <4>6. Range(e.text) = {n}
        BY <4>5, OneDelta
      <4>7. \A d \in Range(e.text) : d > x.seq
        BY <1>3, <1>5, <4>1, <4>2, <4>4, <4>6, EventFields
      <4> QED
        BY <1>4, <2>1, <2>6, <4>1, <4>2, <4>7
    <3> QED
      BY <3>1, <3>2
  <2>7. ASSUME y.kind = "text", NEW d \in Held(rows, y.key), d <= y.seq
        PROVE  d \in Range(y.text) \/ \E g \in history.events : g.key = y.key /\ g.seq >= d
    <3>1. PICK r \in rows : r.key = e.key /\ d \in Range(r.text)
      BY <2>1, HeldBy
    <3>2. d \in Nat /\ d <= e.seq /\ e.kind = "text"
      BY <1>5, <2>1, <2>7, <3>1, RecordFacts
    <3>3. Reached(history, F, e.key, d) \/ OnWire(w, e.key, d)
      BY <1>1, <3>1 DEF FeedInvAt, StreamOK
    <3>4. CASE OnWire(w, e.key, d)
      <4>1. PICK i \in 1..Len(w) : w[i].key = e.key /\ d \in Range(w[i].text)
        BY <3>4 DEF OnWire
      <4>2. CASE i = 1
        BY <1>2, <2>4, <3>2, <4>1, <4>2
      <4>3. CASE i # 1
        <5>1. w[i] \in Event /\ w[i].kind # "signal" /\ 1 < i
          <6>1. w[i] \in Event
            BY <1>2, <1>3, <4>1, ElementOfSeq DEF Signal
          <6>2. w[i].kind # "signal"
            BY <6>1, EventFields DEF Kind
          <6>3. 1 < i
            BY <1>2, <4>3
          <6> QED
            BY <6>1, <6>2, <6>3
        <5>2. d > e.seq
          BY <1>2, <4>1, <5>1 DEF WireOK
        <5> QED
          BY <1>3, <3>2, <5>2
      <4> QED
        BY <4>2, <4>3
    <3>5. CASE \E x \in F : x.key = e.key /\ x.seq >= d
      <4>1. PICK x \in F : x.key = e.key /\ x.seq >= d
        BY <3>5
      <4>2. x.kind = "text" /\ Range(x.text) \subseteq Range(y.text) /\ x.seq \in Nat
        BY <1>5, <2>1, <3>2, <4>1, EventFields
      <4>3. d \in Range(x.text) \/ \E g \in history.events : g.key = x.key /\ g.seq >= d
        BY <1>5, <1>6, <2>1, <2>7, <3>2, <4>1, <4>2 DEF LiveOK
      <4> QED
        BY <2>1, <4>1, <4>2, <4>3
    <3>6. CASE \E g \in history.events : g.key = e.key /\ g.seq >= d
      BY <2>1, <3>6
    <3> QED
      BY <3>3, <3>4, <3>5, <3>6 DEF Reached
  <2>8. LiveOK(rows, cut, history, F2)
    <3> SUFFICES ASSUME NEW x \in F2
                 PROVE  /\ x.seq <= Newest(rows) /\ OfRecord(rows, x)
                        /\ x.kind = "text" /\ x.key \notin cut => Sorted(x.text)
                        /\ history # NoPage =>
                             /\ x.seq > history.latest
                             /\ x.kind = "text" =>
                                  \A d \in Held(rows, x.key) :
                                     d <= x.seq => \/ d \in Range(x.text)
                                                   \/ \E g \in history.events : g.key = x.key /\ g.seq >= d
      BY <2>2 DEF LiveOK
    <3>1. CASE x = y
      BY <2>3, <2>5, <2>6, <2>7, <3>1
    <3>2. CASE x \in F
      BY <1>5, <3>2 DEF LiveOK
    <3> QED
      BY <2>1, <3>1, <3>2
  <2>9. \A x \in F : \E z \in F2 : z.key = x.key /\ z.seq >= x.seq
    <3> SUFFICES ASSUME NEW x \in F PROVE \E z \in F2 : z.key = x.key /\ z.seq >= x.seq
      OBVIOUS
    <3>1. x.seq \in Nat
      BY <1>5, EventFields
    <3>2. CASE x.key = e.key
      BY <1>3, <2>1, <2>3, <3>1, <3>2
    <3>3. CASE x.key # e.key
      BY <2>1, <3>1, <3>3
    <3> QED
      BY <3>2, <3>3
  <2> QED
    BY <2>1, <2>3, <2>8, <2>9
<1>10. \/ F2 = F /\ \E x \in F : x.key = e.key /\ x.seq >= e.seq
       \/ \E y \in Event : Taken(F, e, F2, y)
  BY <1>3, <1>5, <1>7, MergedOf
<1> QED
  BY <1>3, <1>8, <1>9, <1>10

LEMMA Rest ==
  ASSUME NEW S, NEW w \in Seq(S), w # <<>>, NEW t, t = Tail(w)
  PROVE  /\ Len(w) \in Nat /\ Len(w) > 0 /\ t \in Seq(S) /\ Len(t) = Len(w) - 1
         /\ Head(w) = w[1] /\ \A i \in 1..Len(t) : t[i] = w[i + 1]
         /\ Range(t) \subseteq Range(w)
<1>1. /\ Len(w) \in Nat /\ Len(w) > 0 /\ t \in Seq(S) /\ Len(t) = Len(w) - 1
      /\ Head(w) = w[1] /\ \A i \in 1..Len(t) : t[i] = w[i + 1]
  BY HeadTailProperties, LenProperties, EmptySeq
<1>2. DOMAIN t = 1..Len(t) /\ DOMAIN w = 1..Len(w)
  BY <1>1, LenProperties
<1>3. ASSUME NEW i \in 1..Len(t) PROVE t[i] \in Range(w)
  BY <1>1, <1>2, <1>3 DEF Range
<1> QED
  BY <1>1, <1>2, <1>3 DEF Range

\* The first event leaves the wire: the rest is as it was, past the event that left.
LEMMA WireRest ==
  ASSUME NEW R, NEW c, NEW F, NEW w \in Seq(Event \union {Signal}), w # <<>>, NEW from,
         WireOK(R, c, F, w, from), NEW F2, NEW from2,
         \/ w[1].kind = "signal" /\ F2 = F /\ from2 = from
         \/ /\ w[1].kind # "signal" /\ from2 = w[1].seq
            /\ \A x \in F2 : x \in F \/ (x.seq = w[1].seq /\ x.key = w[1].key),
         NEW t, t = Tail(w)
  PROVE  WireOK(R, c, F2, t, from2)
<1>1. PICK S : S = Event \union {Signal}
  OBVIOUS
<1>2. /\ Len(w) \in Nat /\ Len(w) > 0 /\ t \in Seq(S) /\ Len(t) = Len(w) - 1
      /\ Head(w) = w[1] /\ \A i \in 1..Len(t) : t[i] = w[i + 1]
  BY <1>1, Rest
<1>3. \A i \in 1..Len(t) : i + 1 \in 1..Len(w) /\ i + 1 # 1 /\ 1 < i + 1 /\ 1 \in 1..Len(w)
  BY <1>2
<1>4. ASSUME NEW i \in 1..Len(t), t[i].kind # "signal"
      PROVE  /\ t[i].seq > from2 /\ t[i].seq <= Newest(R)
             /\ OfRecord(R, t[i]) /\ Sorted(t[i].text)
             /\ Len(t[i].text) > 1 =>
                  /\ t[i] \in R
                  /\ t[i].key \notin c => \A e \in F2 : e.key # t[i].key
                  /\ \A j \in 1..Len(t) : j # i => t[j].key # t[i].key
             /\ \A j \in 1..Len(t) : j < i /\ t[j].kind # "signal" =>
                  /\ t[j].seq < t[i].seq
                  /\ t[j].key = t[i].key => \A d \in Range(t[i].text) : d > t[j].seq
  <2>1. PICK m \in 1..Len(w) : m = i + 1
    BY <1>3
  <2>2. t[i] = w[m] /\ w[m].kind # "signal" /\ 1 < m /\ m # 1 /\ 1 \in 1..Len(w)
    BY <1>2, <1>3, <1>4, <2>1
  <2>3. w[m].seq <= Newest(R) /\ OfRecord(R, w[m]) /\ Sorted(w[m].text)
    BY <2>2 DEF WireOK
  <2>4. w[m].seq > from2
    <3>1. CASE w[1].kind = "signal"
      BY <2>2, <3>1 DEF WireOK
    <3>2. CASE w[1].kind # "signal"
      <4>1. w[m] \in Event /\ w[1] \in Event
        BY <2>2, <3>2, ElementOfSeq DEF Signal
      <4>2. w[m].seq \in Nat /\ w[1].seq \in Nat /\ w[1].seq < w[m].seq
        BY <2>2, <3>2, <4>1, EventFields DEF WireOK
      <4> QED
        BY <3>2, <4>2
    <3> QED
      BY <3>1, <3>2
  <2>5. ASSUME Len(w[m].text) > 1, w[m].key \notin c, NEW e \in F2 PROVE e.key # w[m].key
    <3>1. (\A x \in F : x.key # w[m].key) /\ w[1].key # w[m].key
      BY <2>2, <2>5 DEF WireOK
    <3> QED
      BY <3>1
  <2>6. ASSUME Len(w[m].text) > 1, NEW j \in 1..Len(t), j # i PROVE t[j].key # w[m].key
    <3>1. t[j] = w[j + 1] /\ j + 1 \in 1..Len(w) /\ j + 1 # m
      BY <1>2, <1>3, <2>1, <2>6
    <3> QED
      BY <2>2, <2>6, <3>1 DEF WireOK
  <2>7. ASSUME NEW j \in 1..Len(t), j < i, t[j].kind # "signal"
        PROVE  t[j].seq < w[m].seq /\ (t[j].key = w[m].key => \A d \in Range(w[m].text) : d > t[j].seq)
    <3>1. t[j] = w[j + 1] /\ j + 1 \in 1..Len(w) /\ j + 1 < m
      BY <1>2, <1>3, <2>1, <2>7
    <3> QED
      BY <2>2, <2>7, <3>1 DEF WireOK
  <2>8. Len(w[m].text) > 1 => w[m] \in R
    BY <2>2 DEF WireOK
  <2> QED
    BY <2>2, <2>3, <2>4, <2>5, <2>6, <2>7, <2>8
<1> QED
  BY <1>4 DEF WireOK

\* An event comes.
LEMMA StepReceive ==
  ASSUME NEW F, F = FlushedOf(live, pending), FeedInvAt(F), Receive,
         NEW F2, F2 = FlushedOf(live', pending')
  PROVE  FeedInvAt(F2)'
<1>1. PICK w, e, t : w = stream.wire /\ e = Head(stream.wire) /\ t = Tail(stream.wire)
  OBVIOUS
<1>2. PICK s2 : s2 = [stream EXCEPT !.wire = t, !.last = IF e.seq > 0 THEN e.seq ELSE stream.last]
  OBVIOUS
<1>3. PICK f2 : f2 = IF e.kind \in {"signal", "end"} THEN Refetched ELSE fetch
  OBVIOUS
<1>4. PICK p2 : p2 = IF e.kind = "signal" THEN pending ELSE Append(pending, e)
  OBVIOUS
<1>5. /\ stream.phase = "open" /\ w # <<>>
      /\ stream' = s2 /\ fetch' = f2 /\ pending' = p2
      /\ UNCHANGED <<rows, revision, run, running, mounted, history, live, turbulence, cut>>
  BY <1>1, <1>2, <1>3, <1>4 DEF Receive, serverVars
<1>6. /\ stream \in [phase : {"closed", "connecting", "open"}, after : Nat, last : Nat,
                     wire : Seq(Event \union {Signal})]
      /\ StreamOK(rows, history, pending, F, stream) /\ pending \in Seq(Event) /\ rows \subseteq Event
  BY DEF FeedInvAt, StreamOK, PendingOK, RecordOK
<1>7. history # NoPage /\ mounted
  <2>1. NoStream.phase = "closed"
    BY DEF NoStream
  <2> QED
    BY <1>5, <1>6, <2>1 DEF FeedInvAt, StreamOK
<1>8. PICK S : S = Event \union {Signal}
  OBVIOUS
<1>9. w \in Seq(S)
  BY <1>1, <1>6, <1>8
<1>10. /\ Len(w) \in Nat /\ Len(w) > 0 /\ t \in Seq(S) /\ Len(t) = Len(w) - 1
       /\ e = w[1] /\ \A i \in 1..Len(t) : t[i] = w[i + 1]
       /\ Range(t) \subseteq Range(w)
  <2>1. t = Tail(w) /\ e = Head(w)
    BY <1>1
  <2> QED
    BY <1>5, <1>9, <2>1, Rest
<1>11. e \in Event \union {Signal}
  <2>1. 1 \in 1..Len(w)
    BY <1>10
  <2> QED
    BY <1>8, <1>9, <1>10, <2>1, ElementOfSeq
<1>12. e.kind = "signal" => e = Signal /\ e.seq = 0 /\ e.key = NoRun
  <2>1. e \in Event => e.kind # "signal"
    BY EventFields DEF Kind
  <2> QED
    BY <1>11, <2>1 DEF Signal
<1>13. e.kind # "signal" => e \in Event /\ e.seq \in Nat /\ e.seq > 0
  <2>1. e \in Event => e.seq \in 1..MaxEvents /\ e.seq \in Nat
    BY EventFields
  <2> QED
    BY <1>11, <2>1, FeedBounds DEF Signal
<1>14. /\ s2 \in [phase : {"closed", "connecting", "open"}, after : Nat, last : Nat,
                  wire : Seq(Event \union {Signal})]
       /\ s2.phase = "open" /\ s2.wire = t /\ s2.after = stream.after
       /\ e.kind = "signal" => s2.last = stream.last /\ Point(s2) = Point(stream)
       /\ e.kind # "signal" => s2.last = e.seq /\ Point(s2) = e.seq
  <2>1. PICK n : n = IF e.seq > 0 THEN e.seq ELSE stream.last
    OBVIOUS
  <2>2. n \in Nat /\ (e.kind = "signal" => n = stream.last) /\ (e.kind # "signal" => n = e.seq)
    BY <1>6, <1>12, <1>13, <2>1
  <2>3. s2 = [stream EXCEPT !.wire = t, !.last = n]
    BY <1>2, <2>1
  <2>4. /\ s2 \in [phase : {"closed", "connecting", "open"}, after : Nat, last : Nat,
                   wire : Seq(Event \union {Signal})]
        /\ s2.phase = "open" /\ s2.wire = t /\ s2.after = stream.after /\ s2.last = n
    BY <1>5, <1>6, <1>8, <1>10, <2>2, <2>3
  <2> QED
    BY <1>13, <2>2, <2>4 DEF Point
<1>15. /\ e.kind = "signal" => F2 = F
       /\ e.kind # "signal" => F2 = Merged(F, e)
  <2>1. CASE e.kind = "signal"
    BY <1>4, <1>5, <2>1
  <2>2. CASE e.kind # "signal"
    <3>1. F2 = FlushedOf(live, Append(pending, e))
      BY <1>4, <1>5, <2>2
    <3> QED
      BY <1>6, <1>13, <2>2, <3>1, OneMoreFlushed
  <2> QED
    BY <2>1, <2>2
<1>16. e.kind # "signal" =>
          /\ e \in Event /\ LiveOK(rows, cut, history, F2)
          /\ \A x \in F2 : x \in F \/ (x.seq = e.seq /\ x.key = e.key)
          /\ \A x \in F : \E y \in F2 : y.key = x.key /\ y.seq >= x.seq
          /\ \E y \in F2 : y.key = e.key /\ y.seq >= e.seq
  BY <1>1, <1>5, <1>10, <1>15, LiveTakes
<1>17. LiveOK(rows, cut, history, F2)
  BY <1>15, <1>16 DEF FeedInvAt
<1>18. PendingOK(live, p2, F2)
  <2>1. CASE e.kind = "signal"
    BY <1>4, <1>15, <2>1 DEF FeedInvAt
  <2>2. CASE e.kind # "signal"
    <3>1. p2 = Append(pending, e) /\ e \in Event
      BY <1>4, <1>13, <2>2
    <3>2. p2 \in Seq(Event) /\ Range(p2) = Range(pending) \union {e}
      BY <1>6, <3>1, AppendProperties, RangeAppended
    <3>3. \A x \in F2 : \E d \in live \union Range(p2) : d.key = x.key /\ d.seq = x.seq
      BY <1>16, <2>2, <3>2 DEF FeedInvAt, PendingOK
    <3> QED
      BY <3>2, <3>3 DEF PendingOK
  <2> QED
    BY <2>1, <2>2
<1>19. WireOK(rows, cut, F2, t, Point(s2))
  <2>1. PICK from, from2 : from = Point(stream) /\ from2 = Point(s2)
    OBVIOUS
  <2>2. w \in Seq(Event \union {Signal}) /\ w # <<>> /\ WireOK(rows, cut, F, w, from) /\ t = Tail(w)
    BY <1>1, <1>5, <1>6, <2>1 DEF FeedInvAt
  <2>3. \/ w[1].kind = "signal" /\ F2 = F /\ from2 = from
        \/ /\ w[1].kind # "signal" /\ from2 = w[1].seq
           /\ \A x \in F2 : x \in F \/ (x.seq = w[1].seq /\ x.key = w[1].key)
    BY <1>10, <1>14, <1>15, <1>16, <2>1
  <2>4. WireOK(rows, cut, F2, t, from2)
    BY <2>2, <2>3, WireRest
  <2> QED
    BY <2>1, <2>4
<1>20. \* What was on the wire is still there, or in the flushed cache.
       ASSUME NEW r \in rows, NEW d \in Range(r.text)
       PROVE  Reached(history, F2, r.key, d) \/ OnWire(t, r.key, d)
  <2>1. d \in Nat /\ r.key # NoRun
    BY <1>6, RecordFacts, EventFields
  <2>2. ASSUME NEW x \in F, x.key = r.key, x.seq >= d PROVE Reached(history, F2, r.key, d)
    <3>1. CASE e.kind = "signal"
      BY <1>15, <2>2, <3>1 DEF Reached
    <3>2. CASE e.kind # "signal"
      <4>1. PICK y \in F2 : y.key = x.key /\ y.seq >= x.seq
        BY <1>16, <3>2
      <4>2. y.seq \in Nat /\ x.seq \in Nat
        BY <1>17, EventFields DEF FeedInvAt, LiveOK
      <4>3. y.seq >= d
        BY <2>1, <2>2, <4>1, <4>2
      <4> QED
        BY <2>2, <4>1, <4>3 DEF Reached
    <3> QED
      BY <3>1, <3>2
  <2>3. CASE Reached(history, F, r.key, d)
    BY <2>2, <2>3 DEF Reached
  <2>4. CASE OnWire(w, r.key, d)
    <3>1. PICK i \in 1..Len(w) : w[i].key = r.key /\ d \in Range(w[i].text)
      BY <2>4 DEF OnWire
    <3>2. CASE i = 1
      <4>1. e.kind # "signal" /\ e \in Event /\ e.key = r.key /\ d \in Range(e.text)
        BY <1>10, <1>12, <1>13, <2>1, <3>1, <3>2
      <4>2. d <= e.seq /\ e.seq \in Nat
        BY <4>1, EventFields
      <4>3. PICK y \in F2 : y.key = e.key /\ y.seq >= e.seq
        BY <1>16, <4>1
      <4>4. y.seq \in Nat
        BY <1>17, EventFields DEF LiveOK
      <4>5. y.seq >= d
        BY <2>1, <4>2, <4>3, <4>4
      <4> QED
        BY <4>1, <4>3, <4>5 DEF Reached
    <3>3. CASE i # 1
      <4>1. PICK j \in 1..Len(t) : i = j + 1
        <5>1. i - 1 \in 1..Len(t) /\ i = (i - 1) + 1
          BY <1>10, <3>3
        <5> QED
          BY <5>1
      <4>2. t[j] = w[i]
        BY <1>10, <4>1
      <4> QED
        BY <3>1, <4>2 DEF OnWire
    <3> QED
      BY <3>2, <3>3
  <2>5. Reached(history, F, r.key, d) \/ OnWire(w, r.key, d)
    BY <1>1, <1>5, <1>6 DEF StreamOK
  <2> QED
    BY <2>3, <2>4, <2>5
<1>21. StreamOK(rows, history, p2, F2, s2)
  <2>1. s2.after = history.latest /\ Point(s2) <= Newest(rows) /\ (s2.last = 0 \/ s2.after < s2.last)
    <3>1. /\ stream.after = history.latest /\ Point(stream) <= Newest(rows)
          /\ stream.last = 0 \/ stream.after < stream.last
      BY <1>5, <1>6 DEF StreamOK
    <3>2. CASE e.kind = "signal"
      BY <1>14, <3>1, <3>2
    <3>3. CASE e.kind # "signal"
      <4>1. 1 \in 1..Len(w) /\ w[1].kind # "signal" /\ w[1] = e
        BY <1>10, <3>3
      <4>2. e.seq > Point(stream) /\ e.seq <= Newest(rows)
        BY <1>1, <4>1 DEF FeedInvAt, WireOK
      <4>3. stream.after \in Nat /\ stream.last \in Nat /\ e.seq \in Nat
        BY <1>6, <1>13, <3>3
      <4>4. stream.after < e.seq
        BY <3>1, <4>2, <4>3 DEF Point
      <4> QED
        BY <1>14, <3>1, <3>3, <4>2, <4>4
    <3> QED
      BY <3>2, <3>3
  <2> QED
    BY <1>7, <1>14, <1>20, <2>1 DEF StreamOK
<1>22. FetchOK(rows, run, cut, history, F2, f2)
  <2>1. f2 = fetch \/ f2.phase = "asked"
    BY <1>3, <1>7 DEF Refetched
  <2>2. FetchOK(rows, run, cut, history, F, fetch)
    BY DEF FeedInvAt
  <2>3. FetchOK(rows, run, cut, history, F2, fetch)
    BY <1>7, <2>2 DEF FetchOK
  <2> QED
    BY <2>1, <2>3, FetchIdle
<1>23. Identity(rows, F2, history, f2, s2)
  <2>1. f2 = fetch \/ f2.phase # "answered"
    BY <1>3, <1>7 DEF Refetched
  <2>2. Range(s2.wire) \subseteq Range(stream.wire)
    BY <1>1, <1>10, <1>14
  <2>3. PICK K : K = Known(rows, F, history, fetch, stream)
    OBVIOUS
  <2>4. e.kind # "signal" => e \in K
    <3>1. DOMAIN w = 1..Len(w) /\ 1 \in 1..Len(w)
      BY <1>9, <1>10, LenProperties
    <3>2. e \in Range(w)
      BY <1>10, <3>1 DEF Range
    <3> QED
      BY <1>1, <2>3, <3>2 DEF Known
  <2>5. \A x \in F2 \union history.events : \E d \in K : d.seq = x.seq /\ d.key = x.key
    <3>1. F \subseteq K /\ history.events \subseteq K
      BY <2>3 DEF Known
    <3> QED
      BY <1>15, <1>16, <2>4, <3>1
  <2>6. Identity(rows, F, history, fetch, stream)
    BY DEF FeedInvAt
  <2> QED
    BY <2>1, <2>2, <2>3, <2>5, <2>6, IdentityLess
<1> QED
  BY <1>5, <1>7, <1>14, <1>17, <1>18, <1>19, <1>21, <1>22, <1>23 DEF FeedInvAt

(***************************************************************************)
(* The theorems                                                            *)
(***************************************************************************)
LEMMA Initially == FeedInit => FeedInv
<1> SUFFICES ASSUME FeedInit PROVE FeedInv
  OBVIOUS
<1>1. /\ rows = {} /\ revision = 1 /\ run = NoRun /\ running = FALSE
      /\ mounted = FALSE /\ history = NoPage /\ fetch = [phase |-> "idle"]
      /\ live = {} /\ pending = <<>> /\ stream = NoStream
      /\ turbulence = 0 /\ cut = {}
  BY DEF FeedInit
<1>2. {} = FlushedOf(live, pending)
  BY <1>1, NothingFlushed
<1>3. RecordOK(rows, revision, run, running)
  <2>1. NoRun \in Keys /\ 1 \in Nat \ {0} /\ FALSE \in BOOLEAN
    BY DEF Keys
  <2>2. Numbered({})
    BY DEF Numbered
  <2>3. RecordOK({}, 1, NoRun, FALSE)
    BY <2>1, <2>2 DEF RecordOK
  <2> QED
    BY <1>1, <2>3
<1>4. FetchOK(rows, run, cut, history, {}, fetch)
  <2>1. fetch.phase = "idle"
    BY <1>1
  <2> QED
    BY <2>1, FetchIdle
<1>5. LiveOK(rows, cut, history, live) /\ LiveOK(rows, cut, history, {})
  BY <1>1 DEF LiveOK, Numbered, Single
<1>6. PendingOK(live, pending, {})
  BY <1>1 DEF PendingOK
<1>7. /\ StreamOK(rows, history, pending, {}, stream)
      /\ WireOK(rows, cut, {}, stream.wire, Point(stream)) /\ Range(stream.wire) = {}
  BY <1>1, StreamClosed
<1>8. Identity(rows, {}, history, fetch, stream)
  <2>1. Known(rows, {}, history, fetch, stream) = {}
    <3>1. history.events = {} /\ fetch.phase = "idle"
      BY <1>1 DEF NoPage
    <3> QED
      BY <1>1, <1>7, <3>1 DEF Known
  <2> QED
    BY <2>1 DEF Identity
<1>9. fetch.phase = "idle"
  BY <1>1
<1>10. FeedInvAt({})
  BY <1>1, <1>3, <1>4, <1>5, <1>6, <1>7, <1>8, <1>9 DEF FeedInvAt
<1> QED
  BY <1>2, <1>10 DEF FeedInv

LEMMA Inductive == FeedInv /\ [FeedNext]_feedVars => FeedInv'
<1> SUFFICES ASSUME FeedInv, [FeedNext]_feedVars PROVE FeedInv'
  OBVIOUS
<1>1. PICK F : F = FlushedOf(live, pending) /\ FeedInvAt(F)
  BY DEF FeedInv
<1>2. PICK F2 : F2 = FlushedOf(live', pending')
  OBVIOUS
<1>3. UNCHANGED <<live, pending>> => F2 = F
  BY <1>1, <1>2
<1>4. FeedInvAt(F2)'
  <2>1. CASE ServerReads
    <3>1. UNCHANGED <<live, pending>>
      BY <2>1 DEF ServerReads, liveVars
    <3> QED
      BY <1>1, <1>3, <2>1, <3>1, StepServerReads
  <2>2. CASE HistoryArrives
    BY <1>1, <1>2, <2>2, StepHistoryArrives
  <2>3. CASE Connect
    <3>1. UNCHANGED <<live, pending>>
      BY <2>3 DEF Connect
    <3> QED
      BY <1>1, <1>3, <2>3, <3>1, StepConnect
  <2>4. CASE Receive
    BY <1>1, <1>2, <2>4, StepReceive
  <2>5. CASE Flush
    BY <1>1, <1>2, <2>5, StepFlush
  <2>6. ASSUME NEW kind \in Kind, Reports(kind) PROVE FeedInvAt(F2)'
    <3>1. UNCHANGED <<live, pending>>
      BY <2>6 DEF Reports
    <3> QED
      BY <1>1, <1>3, <2>6, <3>1, StepReports
  <2>7. CASE Compact
    <3>1. UNCHANGED <<live, pending>>
      BY <2>7 DEF Compact, liveVars
    <3> QED
      BY <1>1, <1>3, <2>7, <3>1, StepCompact
  <2>8. CASE Signals
    <3>1. UNCHANGED <<live, pending>>
      BY <2>8 DEF Signals
    <3> QED
      BY <1>1, <1>3, <2>8, <3>1, StepSignals
  <2>9. CASE StreamFails
    <3>1. UNCHANGED <<live, pending>>
      BY <2>9 DEF StreamFails
    <3> QED
      BY <1>1, <1>3, <2>9, <3>1, StepStreamFails
  <2>10. ASSUME NEW fresh \in BOOLEAN, OpenThread(fresh) PROVE FeedInvAt(F2)'
    BY <1>1, <1>2, <2>10, StepOpenThread
  <2>11. CASE LeaveThread
    BY <1>1, <1>2, <2>11, StepLeaveThread
  <2>12. CASE Forget
    <3>1. UNCHANGED <<live, pending>>
      BY <2>12 DEF Forget, liveVars
    <3> QED
      BY <1>1, <1>3, <2>12, <3>1, StepForget
  <2>13. CASE UNCHANGED feedVars
    <3>1. UNCHANGED <<rows, revision, run, running, mounted, history, fetch, live, pending, stream,
                      turbulence, cut>>
      BY <2>13 DEF feedVars, serverVars, historyVars, liveVars
    <3> QED
      BY <1>1, <1>3, <3>1 DEF FeedInvAt
  <2> QED
    BY <2>1, <2>2, <2>3, <2>4, <2>5, <2>6, <2>7, <2>8, <2>9, <2>10, <2>11, <2>12, <2>13
    DEF FeedNext, FeedSystem, Kind
<1> QED
  BY <1>2, <1>4 DEF FeedInv

\* The record, the page, the read under way, the cache and the stream fit together, however the agent
\* reports, the pages are read, the stream breaks and the user comes and goes.
THEOREM FeedHolds == FeedSpec => []FeedInv
<1>1. FeedInit => FeedInv
  BY Initially
<1>2. FeedInv /\ [FeedNext]_feedVars => FeedInv'
  BY Inductive
<1> QED
  BY <1>1, <1>2, PTL DEF FeedSpec

LEMMA InvariantTypes == FeedInv => FeedTypeOK
<1> SUFFICES ASSUME FeedInv PROVE FeedTypeOK
  OBVIOUS
<1>1. PICK F : FeedInvAt(F)
  BY DEF FeedInv
<1>2. rows \subseteq Event /\ live \subseteq Event /\ run \in Keys /\ running \in BOOLEAN
  BY <1>1 DEF FeedInvAt, RecordOK, LiveOK
<1>3. history.events \subseteq Event
  BY <1>1 DEF FeedInvAt, PageOK, NoPage
<1>4. Range(pending) \subseteq Event
  BY <1>1, RangeOf DEF FeedInvAt, PendingOK
<1>5. \A e \in Event : e \in [seq : 1..MaxEvents, key : Keys, kind : {"running", "text", "tool", "end"},
                              text : Seq(1..MaxEvents)]
  BY DEF Event, Kind
<1>6. fetch.phase \in {"idle", "asked", "answered"} /\ stream.phase \in {"closed", "connecting", "open"}
  BY <1>1 DEF FeedInvAt, FetchOK, StreamOK
<1>7. mounted \in BOOLEAN /\ (~ mounted => stream = NoStream /\ pending = <<>> /\ fetch.phase = "idle")
  BY <1>1 DEF FeedInvAt
<1> QED
  BY <1>2, <1>3, <1>4, <1>5, <1>6, <1>7 DEF FeedTypeOK

\* Every event, wherever it is, has a place in the record and a text of deltas (FeedTypeOK).
THEOREM FeedTypes == FeedSpec => []FeedTypeOK
BY FeedHolds, InvariantTypes, PTL

LEMMA DeltasHeld ==
  ASSUME rows \subseteq Event, NEW e \in Event, e.kind = "text"
  PROVE  Deltas(e.key) = Held(rows, e.key)
<1>1. \A r \in rows : r.key = e.key => r.kind = "text"
  BY SameKind
<1> QED
  BY <1>1 DEF Deltas, Held

\* What is shown is the page and, past it, the live events.
LEMMA ShownFrom ==
  ASSUME NEW F, FeedInvAt(F), history # NoPage, NEW E, E = history.events \union live
  PROVE  /\ Shown \subseteq Event /\ \A e \in Shown : Together(e, E)
         /\ \A e \in E : \E x \in Shown : x.key = e.key /\ x.seq >= e.seq
         /\ \A h \in history.events, l \in live : h.seq < l.seq
         /\ \A e \in E : e \in Event /\ e.seq \in Nat
<1>1. PICK A, B : A = history.events /\ B = live
  OBVIOUS
<1>2. PICK C : C = Coalesced(A, B)
  OBVIOUS
<1>3. A \subseteq Event /\ Numbered(A) /\ B \subseteq Event /\ Numbered(B)
  BY <1>1 DEF FeedInvAt, PageOK, LiveOK
<1>4. \A h \in A, l \in B : h.seq < l.seq /\ h.seq # l.seq
  <2> SUFFICES ASSUME NEW h \in A, NEW l \in B PROVE h.seq < l.seq /\ h.seq # l.seq
    OBVIOUS
  <2>1. h.seq <= history.latest /\ l.seq > history.latest /\ history.latest \in Nat
    BY <1>1 DEF FeedInvAt, PageOK, LiveOK
  <2>2. h.seq \in Nat /\ l.seq \in Nat
    BY <1>3, EventFields
  <2> QED
    BY <2>1, <2>2
<1>5. E = Both(A, B)
  BY <1>1, <1>4 DEF Both, SeqsOf
<1>6. /\ C \subseteq Event
      /\ \A e \in E : \E c \in C : c.key = e.key /\ c.seq >= e.seq
      /\ \A c \in C : Together(c, E)
  BY <1>2, <1>3, <1>5, CoalescedOf
<1>7. Shown = C
  BY <1>1, <1>2 DEF Shown
<1> QED
  BY <1>1, <1>3, <1>4, <1>6, <1>7, EventFields

LEMMA InvariantReads == FeedInv => ReadsAsWritten
<1> SUFFICES ASSUME FeedInv, history # NoPage, NEW e \in Shown, e.kind = "text"
             PROVE  /\ Range(e.text) = {d \in Deltas(e.key) : d <= e.seq}
                    /\ e.key \notin cut => Sorted(e.text)
  BY DEF ReadsAsWritten, Sorted
<1>1. PICK F : FeedInvAt(F)
  BY DEF FeedInv
<1>2. PICK h, E : h = history /\ E = h.events \union live
  OBVIOUS
<1>3. /\ PageOK(rows, run, cut, h) /\ LiveOK(rows, cut, h, live) /\ h # NoPage /\ rows \subseteq Event
      /\ h.events \subseteq Event /\ live \subseteq Event
  BY <1>1, <1>2 DEF FeedInvAt, RecordOK, PageOK, LiveOK
<1>4. /\ e \in Event /\ Together(e, E)
      /\ \A x \in h.events, l \in live : x.seq < l.seq
      /\ \A x \in E : x \in Event /\ x.seq \in Nat
  BY <1>1, <1>2, ShownFrom
<1>5. Deltas(e.key) = Held(rows, e.key)
  BY <1>3, <1>4, DeltasHeld
<1>6. e.seq \in Nat /\ \A d \in Range(e.text) : d <= e.seq
  BY <1>4, EventFields
<1>7. \A x \in E : x.key = e.key => x.kind = "text" /\ OfRecord(rows, x)
  BY <1>2, <1>3, <1>4, SameKind DEF PageOK, LiveOK
<1>8. ASSUME NEW d \in Range(e.text) PROVE d \in Held(rows, e.key)
  <2>1. PICK x \in E : x.key = e.key /\ d \in Range(x.text)
    BY <1>4 DEF Together
  <2> QED
    BY <1>7, <2>1 DEF OfRecord
<1>9. ASSUME NEW x \in h.events, x.key = e.key, NEW d \in Held(rows, e.key), d <= x.seq
      PROVE  d \in Range(e.text)
  <2>1. d \in Range(x.text) /\ x \in E
    BY <1>2, <1>3, <1>7, <1>9 DEF PageOK
  <2> QED
    BY <1>4, <1>9, <2>1 DEF Together
<1>10. ASSUME NEW d \in Held(rows, e.key), d <= e.seq PROVE d \in Range(e.text)
  <2>1. PICK x \in E : x.key = e.key /\ x.seq = e.seq
    BY <1>4 DEF Together
  <2>2. CASE x \in h.events
    BY <1>9, <1>10, <2>1, <2>2
  <2>3. CASE x \in live
    <3>1. d \in Range(x.text) \/ \E g \in h.events : g.key = e.key /\ g.seq >= d
      BY <1>3, <1>7, <1>10, <2>1, <2>3 DEF LiveOK
    <3>2. CASE d \in Range(x.text)
      BY <1>4, <2>1, <3>2 DEF Together
    <3>3. CASE \E g \in h.events : g.key = e.key /\ g.seq >= d
      <4>1. PICK g \in h.events : g.key = e.key /\ g.seq >= d
        BY <3>3
      <4>2. d \in Nat /\ g.seq \in Nat
        <5>1. PICK r \in rows : r.key = e.key /\ d \in Range(r.text)
          BY HeldBy
        <5>2. d \in Nat
          BY <1>3, <5>1, RecordFacts
        <5> QED
          BY <1>3, <4>1, <5>2, EventFields
      <4>3. d <= g.seq
        BY <4>1, <4>2
      <4> QED
        BY <1>9, <4>1, <4>3
    <3> QED
      BY <3>1, <3>2, <3>3
  <2> QED
    BY <1>2, <2>1, <2>2, <2>3
<1>11. ASSUME e.key \notin cut PROVE Sorted(e.text)
  <2>1. PICK x \in E : x.key = e.key /\ x.seq = e.seq
    BY <1>4 DEF Together
  <2>2. \* The page has the whole of a run it has, so the live cache has nothing of it.
        ASSUME NEW g \in h.events, NEW l \in live, g.key = e.key, l.key = e.key PROVE FALSE
    <3>1. g.kind = "text" /\ l.kind = "text" /\ OfRecord(rows, l)
      BY <1>2, <1>7, <2>2
    <3>2. Complete(rows, run, g)
      BY <1>3, <1>11, <2>2, <3>1 DEF PageOK
    <3>3. l.seq \in Held(rows, e.key)
      <4>1. l \in Event
        BY <1>3
      <4>2. l.seq \in Range(l.text)
        BY <4>1, EventFields
      <4> QED
        BY <2>2, <3>1, <4>2 DEF OfRecord
    <3>4. l.seq <= g.seq /\ g.seq < l.seq /\ g.seq \in Nat /\ l.seq \in Nat
      BY <1>2, <1>4, <2>2, <3>2, <3>3 DEF Complete
    <3> QED
      BY <3>4
  <2>3. \A y \in E : y.key = e.key => y = x
    BY <1>2, <1>3, <2>1, <2>2 DEF PageOK, LiveOK, Single
  <2>4. e = x
    <3>1. Of(E, e.key) = {x}
      BY <2>1, <2>3 DEF Of
    <3> QED
      BY <1>4, <3>1 DEF Together
  <2>5. x.kind = "text"
    BY <1>7, <2>1
  <2> QED
    BY <1>2, <1>3, <1>11, <2>1, <2>4, <2>5 DEF PageOK, LiveOK
<1> QED
  BY <1>5, <1>8, <1>10, <1>6, <1>11

\* A text reads as the agent wrote it: up to the newest delta shown none is missing, and unless part
\* of its run was handed out whole while the run was growing none is twice or out of place.
THEOREM TextReadsAsWritten == FeedSpec => []ReadsAsWritten
BY FeedHolds, InvariantReads, PTL

LEMMA InvariantResumes == FeedInv => ResumesWithoutGap
<1> SUFFICES ASSUME FeedInv, stream.phase # "closed", NEW r \in rows,
                    r.seq <= Max({stream.after, stream.last})
             PROVE  \E e \in Shown \union Range(pending) : e.key = r.key /\ e.seq >= r.seq
  BY DEF ResumesWithoutGap
<1>1. PICK F : FeedInvAt(F)
  BY DEF FeedInv
<1>2. /\ StreamOK(rows, history, pending, F, stream) /\ stream.after \in Nat /\ stream.last \in Nat
      /\ stream.last = 0 \/ stream.after < stream.last
  BY <1>1 DEF FeedInvAt, StreamOK
<1>3. history # NoPage
  BY <1>2 DEF StreamOK
<1>4. r.seq \in Nat
  <2>1. rows \subseteq Event
    BY <1>1 DEF FeedInvAt, RecordOK
  <2> QED
    BY <2>1, EventFields
<1>5. r.seq <= Point(stream)
  <2>1. PICK m : m = Max({stream.after, stream.last})
    OBVIOUS
  <2>2. PICK S : S = {stream.after, stream.last}
    OBVIOUS
  <2>3. PICK n : n = IF stream.after < stream.last THEN stream.last ELSE stream.after
    OBVIOUS
  <2>4. S \subseteq Nat /\ S # {} /\ n \in Nat /\ \A x \in S : x <= n
    BY <1>2, <2>2, <2>3
  <2>5. m \in S
    BY <2>1, <2>2, <2>4, Greatest
  <2>6. m <= Point(stream)
    BY <1>2, <2>2, <2>5 DEF Point
  <2>7. m \in Nat /\ Point(stream) \in Nat /\ r.seq <= m
    BY <1>2, <2>1, <2>4, <2>5 DEF Point
  <2> QED
    BY <1>4, <2>6, <2>7
<1>6. PICK e \in history.events \union F : e.key = r.key /\ e.seq >= r.seq
  BY <1>1, <1>5, UpToPoint DEF Reached
<1>7. \E x \in history.events \union live \union Range(pending) : x.key = r.key /\ x.seq >= r.seq
  BY <1>1, <1>6 DEF FeedInvAt, PendingOK
<1>8. PICK E : E = history.events \union live
  OBVIOUS
<1>9. ASSUME NEW x \in E, x.key = r.key, x.seq >= r.seq
      PROVE  \E c \in Shown : c.key = r.key /\ c.seq >= r.seq
  <2>1. /\ Shown \subseteq Event
        /\ \E c \in Shown : c.key = x.key /\ c.seq >= x.seq
        /\ x \in Event /\ x.seq \in Nat
    BY <1>1, <1>3, <1>8, ShownFrom
  <2>2. PICK c \in Shown : c.key = x.key /\ c.seq >= x.seq
    BY <2>1
  <2>3. c.seq \in Nat
    BY <2>1, EventFields
  <2> QED
    BY <1>4, <1>9, <2>1, <2>2, <2>3
<1> QED
  BY <1>7, <1>8, <1>9

\* The stream resumes from no point past an event that is neither shown nor about to be.
THEOREM StreamResumesWithoutGap == FeedSpec => []ResumesWithoutGap
BY FeedHolds, InvariantResumes, PTL
=============================================================================
