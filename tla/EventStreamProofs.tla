-------------------------- MODULE EventStreamProofs --------------------------
(***************************************************************************)
(* Proofs about EventStream for every retention, page size, limit of       *)
(* pending events and number of events, lost sockets and crashes.          *)
(***************************************************************************)
EXTENDS EventStream, FiniteSetTheorems, SequenceTheorems, TLAPS

USE LimitsAssumption, StreamBoundsAssumption

----------------------------------------------------------------------------
(* The inductive invariant.  Messages of one connection follow each other: *)
(* an event is the next one, a resync skips forward and covers what it     *)
(* skips, and the end of the replay is announced where it is reached.      *)

Follows(m, n, top) == /\ m.seq \in n..top
                      /\ m.type = "event" => m.seq = n + 1
                      /\ m.type = "ready" => m.seq = n

Before(n, c, i) == IF i = 1 THEN n ELSE c[i - 1].seq
Chain(n, c, top) == \A i \in 1..Len(c) : Follows(c[i], Before(n, c, i), top)
Reach(n, c) == IF Len(c) = 0 THEN n ELSE c[Len(c)].seq

\* Where the messages in the channel take over.
Counting == applying # None /\ stale = "no"
Start == IF Counting THEN applying.seq ELSE cursor

LogInv == /\ latest \in 0..MaxEvents
          /\ unsent \subseteq 1..latest /\ arriving \subseteq 1..latest
          /\ budget \in [{"silent", "fault"} -> Nat]

\* Nothing is kept back that could be sent at once, and the rest of a page
\* is what comes next.
ConnectionInv ==
  /\ link \in {"closed", "replay", "live"}
  /\ last \in 0..latest /\ target \in 0..latest /\ overflow \in 0..latest
  /\ pending \subseteq (last + 1)..latest
  /\ Cardinality(pending) <= PendingLimit
  /\ link = "live" => last + 1 \notin pending
  /\ page \subseteq (last + 1)..target
  /\ \A s \in page : (last + 1)..s \subseteq page
  /\ link # "replay" => page = {}

ChannelInv ==
  /\ channel \in Seq(Messages)
  /\ Chain(Start, channel, latest)
  /\ link # "closed" => last = Reach(Start, channel)

DeviceInv ==
  /\ applying \in Messages \cup {None} /\ stale \in {"yes", "no"}
  /\ seen \in 0..latest /\ cursor \in 0..latest
  /\ 1..cursor \subseteq known /\ known \subseteq 1..latest
  /\ applying # None =>
       /\ applying.seq \in 0..latest
       /\ applying.type = "event" => applying.seq > 0
       /\ applying.type = "resync" => applying.seq <= seen
  /\ Counting => Follows(applying, cursor, latest)

StreamInv == LogInv /\ ConnectionInv /\ ChannelInv /\ DeviceInv

----------------------------------------------------------------------------
(* Least and greatest elements.                                            *)

LEMMA MinIsLeast ==
  ASSUME NEW S \in SUBSET Nat, S # {}
  PROVE  Min(S) \in S /\ \A y \in S : Min(S) <= y
<1> DEFINE below == {0..y : y \in S}
<1>1. below \subseteq FiniteSubsetsOf(Nat) /\ below # {}
  <2>1. \A y \in S : 0..y \in SUBSET Nat /\ IsFiniteSet(0..y)
    BY FS_Interval
  <2> QED
    BY <2>1 DEF FiniteSubsetsOf
<1>2. PICK b \in below : \A c \in below : <<c, b>> \notin StrictSubsetOrdering(Nat)
  <2> HIDE DEF below
  <2> QED
    BY <1>1, FS_StrictSubsetOrderingWellFounded, WFMin
<1>3. PICK x \in S : b = 0..x
  BY <1>2
<1>4. \A y \in S : x <= y
  <2> SUFFICES ASSUME NEW y \in S, y < x PROVE FALSE
    OBVIOUS
  <2>1. 0..y \subseteq 0..x /\ x \in 0..x /\ x \notin 0..y
    BY y < x
  <2>2. <<0..y, b>> \in StrictSubsetOrdering(Nat)
    BY <1>3, <2>1 DEF StrictSubsetOrdering
  <2> QED
    BY <1>2, <2>2
<1> QED
  BY <1>4 DEF Min

LEMMA MaxIsGreatest ==
  ASSUME NEW S \in SUBSET Nat, S # {}, NEW n \in Nat, \A y \in S : y <= n
  PROVE  Max(S) \in S /\ \A y \in S : Max(S) >= y
<1> DEFINE gaps == {n - y : y \in S}
<1>1. gaps \in SUBSET Nat /\ gaps # {}
  <2>1. \A y \in S : n - y \in Nat
    OBVIOUS
  <2> QED
    BY <2>1
<1> HIDE DEF gaps
<1>2. Min(gaps) \in gaps /\ \A g \in gaps : Min(gaps) <= g
  BY <1>1, MinIsLeast
<1>3. PICK x \in S : Min(gaps) = n - x
  BY <1>2 DEF gaps
<1>4. \A y \in S : x >= y
  <2> TAKE y \in S
  <2>1. n - x <= n - y
    BY <1>2, <1>3 DEF gaps
  <2> QED
    BY <2>1
<1> QED
  BY <1>4 DEF Max

LEMMA MaxOfTwo ==
  ASSUME NEW a \in Nat, NEW b \in Nat
  PROVE  Max({a, b}) = IF a >= b THEN a ELSE b
<1>1. Max({a, b}) \in {a, b} /\ \A y \in {a, b} : Max({a, b}) >= y
  BY MaxIsGreatest, \A y \in {a, b} : y <= a + b
<1> QED
  BY <1>1

\* A set of sequences of the log is finite.
LEMMA FiniteBelow ==
  ASSUME NEW n \in Nat, NEW S, S \subseteq 1..n
  PROVE  IsFiniteSet(S) /\ Cardinality(S) \in Nat
<1>1. IsFiniteSet(1..n)
  BY FS_Interval
<1>2. IsFiniteSet(S)
  BY <1>1, FS_Subset
<1> QED
  BY <1>2, FS_CardinalityType

----------------------------------------------------------------------------
(* The operators of the log and of the events kept back.                   *)

LEMMA EarliestType ==
  ASSUME latest \in Nat PROVE Earliest \in 1..(latest + 1)
BY DEF Earliest

\* A log that has not forgotten the next event gives what comes next.
LEMMA WindowIsNext ==
  ASSUME latest \in Nat, NEW n \in Nat, NEW limit \in Nat, ~TooOld(n)
  PROVE  Window(n, limit) = {s \in (n + 1)..latest : s <= n + limit}
<1>1. Earliest \in 1..(latest + 1) /\ n + 1 >= Earliest
  BY EarliestType DEF TooOld
<1>2. Max({n + 1, Earliest}) = n + 1
  BY <1>1, MaxOfTwo
<1> QED
  BY <1>1, <1>2 DEF Window, Log

\* _flush_pending sends all that continues what was sent, and nothing else.
LEMMA FlushEndIsMaximal ==
  ASSUME latest \in Nat, NEW n \in 0..latest, NEW S, S \subseteq 1..latest
  PROVE  /\ FlushEnd(n, S) \in n..latest
         /\ (n + 1)..FlushEnd(n, S) \subseteq S
         /\ FlushEnd(n, S) + 1 \notin S
         /\ \A m \in n..latest : (n + 1)..m \subseteq S => m <= FlushEnd(n, S)
<1> DEFINE greatest == Max(S \cup {n})
           ends == {m \in n..greatest : (n + 1)..m \subseteq S}
<1>1. greatest \in S \cup {n} /\ \A y \in S \cup {n} : greatest >= y
  BY MaxIsGreatest, S \cup {n} \subseteq Nat, \A y \in S \cup {n} : y <= latest
<1> HIDE DEF greatest
<1>2. greatest \in n..latest
  BY <1>1
<1>3. n \in ends /\ ends \subseteq n..latest
  BY <1>2
<1>4. Max(ends) \in ends /\ \A y \in ends : Max(ends) >= y
  <2> HIDE DEF ends
  <2> QED
    BY <1>3, MaxIsGreatest, ends \subseteq Nat, \A y \in ends : y <= latest
<1>5. FlushEnd(n, S) = Max(ends)
  BY DEF FlushEnd, greatest
<1>6. \A m \in n..latest : (n + 1)..m \subseteq S => m \in ends
  BY <1>1, <1>2
<1>7. ASSUME Max(ends) + 1 \in S PROVE FALSE
  <2> DEFINE F == Max(ends)
  <2>1. F \in ends /\ F \in n..latest /\ (n + 1)..F \subseteq S /\ F + 1 \in S
    BY <1>3, <1>4, <1>7
  <2>2. \A y \in ends : F >= y
    BY <1>4
  <2> HIDE DEF F, ends
  <2>3. (n + 1)..(F + 1) \subseteq S /\ F + 1 \in n..latest
    BY <2>1
  <2>4. F + 1 \in ends
    BY <1>6, <2>3
  <2> QED
    BY <2>1, <2>2, <2>4
<1> QED
  BY <1>3, <1>4, <1>5, <1>6, <1>7

\* queue_live keeps back no more than its limit.
LEMMA TrimmedIsBounded ==
  ASSUME NEW n \in Nat, NEW S, S \subseteq 1..n, NEW e \in 1..n,
         Cardinality(S) <= PendingLimit
  PROVE  /\ Trimmed(S \cup {e}) \subseteq S \cup {e}
         /\ Cardinality(Trimmed(S \cup {e})) <= PendingLimit
<1> DEFINE T == S \cup {e}
<1>1. T \subseteq 1..n /\ IsFiniteSet(S) /\ Cardinality(S) \in Nat
  BY FiniteBelow
<1>2. IsFiniteSet(T) /\ Cardinality(T) <= Cardinality(S) + 1
  BY <1>1, FS_AddElement
<1>3. Cardinality(T) \in Nat
  BY <1>2, FS_CardinalityType
<1>4. T # {} /\ T \in SUBSET Nat
  BY <1>1
<1> HIDE DEF T
<1>5. Min(T) \in T
  BY <1>4, MinIsLeast
<1>6. Cardinality(T \ {Min(T)}) = Cardinality(T) - 1
  BY <1>2, <1>5, FS_RemoveElement
<1>7. Trimmed(T) \subseteq T /\ Cardinality(Trimmed(T)) <= PendingLimit
  BY <1>1, <1>2, <1>3, <1>6 DEF Trimmed
<1> QED
  BY <1>7 DEF T

LEMMA AboveIsBounded ==
  ASSUME NEW n \in Nat, NEW S, S \subseteq 1..n, NEW T, T \subseteq S
  PROVE  Cardinality(T) <= Cardinality(S)
BY FiniteBelow, FS_Subset

----------------------------------------------------------------------------
(* Chains of messages.                                                     *)

LEMMA MessageSeq ==
  ASSUME NEW c \in Seq(Messages), NEW i \in 1..Len(c)
  PROVE  c[i] \in Messages /\ c[i].seq \in Nat
<1>1. c[i] \in Messages
  BY ElementOfSeq
<1> QED
  BY <1>1 DEF Messages

\* What arrives later follows what is on its way.
LEMMA ChainConcat ==
  ASSUME latest \in Nat, NEW n \in Nat,
         NEW c \in Seq(Messages), NEW d \in Seq(Messages),
         Chain(n, c, latest), Chain(Reach(n, c), d, latest)
  PROVE  /\ c \o d \in Seq(Messages)
         /\ Chain(n, c \o d, latest)
         /\ Reach(n, c \o d) = Reach(Reach(n, c), d)
<1>1. /\ c \o d \in Seq(Messages) /\ Len(c \o d) = Len(c) + Len(d)
      /\ \A i \in 1..(Len(c) + Len(d)) :
           (c \o d)[i] = IF i <= Len(c) THEN c[i] ELSE d[i - Len(c)]
  BY ConcatProperties
<1>2. Len(c) \in Nat /\ Len(d) \in Nat
  BY LenProperties
<1> DEFINE e == c \o d
<1> HIDE DEF e
<1>3. ASSUME NEW i \in 1..Len(e) PROVE Follows(e[i], Before(n, e, i), latest)
  <2>1. CASE i <= Len(c)
    BY <1>1, <1>2, <2>1, SMTT(40) DEF Chain, Before, e
  <2>2. CASE i > Len(c)
    <3> DEFINE j == i - Len(c)
    <3>1. j \in 1..Len(d) /\ e[i] = d[j]
      BY <1>1, <1>2, <2>2 DEF e
    <3>2. Before(n, e, i) = Before(Reach(n, c), d, j)
      BY <1>1, <1>2, <2>2, SMTT(40) DEF Before, Reach, e
    <3> QED
      BY <3>1, <3>2, SMTT(40) DEF Chain
  <2> QED
    BY <1>2, <2>1, <2>2
<1>4. Reach(n, e) = Reach(Reach(n, c), d)
  BY <1>1, <1>2, SMTT(40) DEF Reach, e
<1> QED
  BY <1>1, <1>3, <1>4, SMTT(40) DEF Chain, e

LEMMA ChainOne ==
  ASSUME latest \in Nat, NEW n \in Nat, NEW m \in Messages, Follows(m, n, latest)
  PROVE  /\ <<m>> \in Seq(Messages)
         /\ Chain(n, <<m>>, latest) /\ Reach(n, <<m>>) = m.seq
BY SMTT(40) DEF Chain, Reach, Before

LEMMA ChainAppend ==
  ASSUME latest \in Nat, NEW n \in Nat, NEW c \in Seq(Messages), NEW m \in Messages,
         Chain(n, c, latest), Follows(m, Reach(n, c), latest), Reach(n, c) \in Nat
  PROVE  /\ Append(c, m) \in Seq(Messages)
         /\ Chain(n, Append(c, m), latest) /\ Reach(n, Append(c, m)) = m.seq
<1> DEFINE r == Reach(n, c)
           d == <<m>>
<1> HIDE DEF r
<1>1. Append(c, m) = c \o d
  BY AppendIsConcat
<1>2. d \in Seq(Messages) /\ Chain(r, d, latest) /\ Reach(r, d) = m.seq
  BY ChainOne DEF r
<1> HIDE DEF d
<1>3. /\ c \o d \in Seq(Messages) /\ Chain(n, c \o d, latest)
      /\ Reach(n, c \o d) = Reach(r, d)
  BY <1>2, ChainConcat DEF r
<1> QED
  BY <1>1, <1>2, <1>3

\* The device takes the first message.
LEMMA ChainTail ==
  ASSUME latest \in Nat, NEW n \in Nat, NEW c \in Seq(Messages), c # <<>>,
         Chain(n, c, latest)
  PROVE  /\ Head(c) \in Messages /\ Tail(c) \in Seq(Messages)
         /\ Follows(Head(c), n, latest)
         /\ Chain(Head(c).seq, Tail(c), latest)
         /\ Reach(Head(c).seq, Tail(c)) = Reach(n, c)
<1>1. /\ Head(c) \in Messages /\ Tail(c) \in Seq(Messages)
      /\ Len(Tail(c)) = Len(c) - 1
      /\ \A i \in 1..Len(Tail(c)) : Tail(c)[i] = c[i + 1]
  BY HeadTailProperties
<1>2. Len(c) \in Nat \ {0} /\ Head(c) = c[1]
  BY EmptySeq
<1> DEFINE d == Tail(c)
<1> HIDE DEF d
<1>3. ASSUME NEW i \in 1..Len(d)
      PROVE  Follows(d[i], Before(Head(c).seq, d, i), latest)
  <2>1. i + 1 \in 1..Len(c) /\ Follows(c[i + 1], Before(n, c, i + 1), latest)
    BY <1>1, <1>2, SMTT(40) DEF Chain, d
  <2>2. Before(n, c, i + 1) = Before(Head(c).seq, d, i)
    BY <1>1, <1>2, SMTT(40) DEF Before, d
  <2> QED
    BY <1>1, <2>1, <2>2 DEF d
<1>4. Reach(Head(c).seq, d) = Reach(n, c)
  BY <1>1, <1>2, SMTT(40) DEF Reach, d
<1>5. Follows(Head(c), n, latest)
  BY <1>2, SMTT(40) DEF Chain, Before
<1> QED
  BY <1>1, <1>3, <1>4, <1>5, SMTT(40) DEF Chain, d

\* Only the first of what was sent arrive.
LEMMA ChainPrefix ==
  ASSUME latest \in Nat, NEW n \in Nat, NEW c \in Seq(Messages), Chain(n, c, latest),
         NEW k \in 0..Len(c)
  PROVE  SubSeq(c, 1, k) \in Seq(Messages) /\ Chain(n, SubSeq(c, 1, k), latest)
<1>1. Len(c) \in Nat /\ \A i \in 1..k : c[i] \in Messages
  BY LenProperties, ElementOfSeq
<1> DEFINE d == SubSeq(c, 1, k)
<1>2. /\ d \in Seq(Messages) /\ Len(d) = IF 1 <= k THEN k - 1 + 1 ELSE 0
      /\ \A i \in 1..(k - 1 + 1) : d[i] = c[1 + i - 1]
  <2> k \in Int /\ 1 \in Int
    BY <1>1
  <2> QED
    BY <1>1, SubSeqProperties
<1> HIDE DEF d
<1>3. Len(d) = k /\ \A i \in 1..k : d[i] = c[i]
  BY <1>1, <1>2
<1>4. Chain(n, d, latest)
  <2> SUFFICES ASSUME NEW i \in 1..k PROVE Follows(d[i], Before(n, d, i), latest)
    BY <1>3, SMTT(40) DEF Chain
  <2>1. i \in 1..Len(c) /\ d[i] = c[i] /\ Before(n, d, i) = Before(n, c, i)
    BY <1>1, <1>3, SMTT(40) DEF Before
  <2> QED
    BY <2>1, SMTT(40) DEF Chain
<1> QED
  BY <1>2, <1>4 DEF d

LEMMA ChainGrows ==
  ASSUME NEW n \in Nat, NEW top \in Nat, NEW more \in Nat, top <= more,
         NEW c \in Seq(Messages), Chain(n, c, top)
  PROVE  Chain(n, c, more)
<1> SUFFICES ASSUME NEW i \in 1..Len(c)
             PROVE  Follows(c[i], Before(n, c, i), more)
  BY SMTT(40) DEF Chain
<1>1. Follows(c[i], Before(n, c, i), top)
  BY SMTT(40) DEF Chain
<1>2. /\ c[i].seq \in Nat /\ Before(n, c, i) \in Nat
  <2>1. i # 1 => i - 1 \in 1..Len(c)
    OBVIOUS
  <2> QED
    BY <2>1, MessageSeq, SMTT(40) DEF Before
<1>3. ASSUME NEW k \in Nat, NEW b \in Nat, k \in b..top PROVE k \in b..more
  BY <1>3
<1> QED
  BY <1>1, <1>2, <1>3 DEF Follows

\* The events that continue what was sent.
LEMMA FlushedChain ==
  ASSUME latest \in 0..MaxEvents, NEW n \in 0..latest, NEW S, S \subseteq 1..latest
  PROVE  /\ Flushed(n, S) \in Seq(Messages)
         /\ Chain(n, Flushed(n, S), latest)
         /\ Reach(n, Flushed(n, S)) = FlushEnd(n, S)
<1> DEFINE F == FlushEnd(n, S)
           c == Flushed(n, S)
<1>0. latest \in Nat
  OBVIOUS
<1>1. F \in n..latest
  BY <1>0, FlushEndIsMaximal
<1> HIDE DEF F
<1>2. /\ c = [i \in 1..(F - n) |-> Message("event", n + i)] /\ F - n \in Nat
      /\ \A i \in 1..(F - n) : Message("event", n + i) \in Messages
  BY <1>1 DEF Flushed, Message, Messages, F
<1> HIDE DEF c
<1>3. c \in Seq(Messages) /\ Len(c) = F - n
  BY <1>2
<1>4. \A i \in 1..Len(c) : c[i].type = "event" /\ c[i].seq = n + i
  BY <1>2, <1>3 DEF Message
<1>5. Chain(n, c, latest)
  BY <1>1, <1>3, <1>4, SMTT(40) DEF Chain, Follows, Before
<1>6. Reach(n, c) = F
  <2>1. CASE F = n
    BY <1>1, <1>3, <2>1, SMTT(40) DEF Reach
  <2>2. CASE F # n
    <3>1. Len(c) \in 1..Len(c) /\ Len(c) # 0 /\ n + Len(c) = F
      BY <1>1, <1>3, <2>2
    <3> QED
      BY <1>4, <3>1, SMTT(40) DEF Reach
  <2> QED
    BY <2>1, <2>2
<1> QED
  BY <1>3, <1>5, <1>6 DEF c, F

----------------------------------------------------------------------------
(* What the send_lock's holder sends.                                      *)

LEMMA InvTypes ==
  ASSUME StreamInv
  PROVE  /\ latest \in Nat /\ latest \in 0..MaxEvents /\ MaxEvents \in Nat
         /\ Start \in 0..latest /\ last \in Nat /\ cursor \in Nat
         /\ pending \subseteq 1..latest /\ page \subseteq 1..latest
BY DEF StreamInv, LogInv, ConnectionInv, DeviceInv, Start, Counting

\* What may come after the events that are flushed.
Endings(n) == {<<>>, <<Message("ready", n)>>}

\* A channel that takes the device from where it stands to n.
Leads(c, n) == /\ c \in Seq(Messages) /\ Chain(Start, c, latest)
               /\ Reach(Start, c) = n

\* The channel with what continues it, and with the end of the replay.
Continued(c, n, S, more) == c \o Flushed(n, S) \o more

LEMMA SendContinued ==
  ASSUME latest \in 0..MaxEvents, Start \in Nat, NEW n \in 0..latest,
         NEW c, Leads(c, n), NEW S, S \subseteq 1..latest,
         NEW more \in Endings(FlushEnd(n, S))
  PROVE  /\ Leads(Continued(c, n, S, more), FlushEnd(n, S))
         /\ FlushEnd(n, S) \in n..latest
<1> DEFINE F == FlushEnd(n, S)
           f == Flushed(n, S)
           d == c \o f
<1>1. latest \in Nat /\ MaxEvents \in Nat /\ n \in Nat
  OBVIOUS
<1>2. F \in n..latest
  BY <1>1, FlushEndIsMaximal
<1>3. f \in Seq(Messages) /\ Chain(n, f, latest) /\ Reach(n, f) = F
  BY <1>1, FlushedChain
<1> HIDE DEF F, f
<1>4. d \in Seq(Messages) /\ Chain(Start, d, latest) /\ Reach(Start, d) = F
  BY <1>1, <1>3, ChainConcat DEF Leads
<1> HIDE DEF d
<1>5. CASE more = <<>>
  <2>1. d \o more = d
    BY <1>4, <1>5, ConcatEmptySeq
  <2> QED
    BY <1>2, <1>4, <2>1 DEF F, f, d, Leads, Continued
<1>6. CASE more = <<Message("ready", F)>>
  <2> DEFINE m == Message("ready", F)
  <2>1. m \in Messages /\ m.seq = F /\ Follows(m, F, latest)
    BY <1>1, <1>2 DEF Message, Messages, Follows
  <2> HIDE DEF m
  <2>2. Append(d, m) = d \o more
    BY <1>4, <1>6, <2>1, AppendIsConcat DEF m
  <2>3. F \in Nat
    BY <1>2
  <2>4. /\ Append(d, m) \in Seq(Messages) /\ Chain(Start, Append(d, m), latest)
        /\ Reach(Start, Append(d, m)) = F
    BY <1>1, <1>4, <2>1, <2>3, ChainAppend
  <2> QED
    BY <1>2, <2>2, <2>4 DEF F, f, d, Leads, Continued
<1> QED
  BY <1>5, <1>6 DEF F, Endings

\* _flush_pending
LEMMA FlushStep ==
  ASSUME StreamInv, link # "closed", NEW S, S \subseteq 1..latest,
         NEW more \in Endings(FlushEnd(last, S)),
         Flush(last, S, more)
  PROVE  /\ last' = FlushEnd(last, S) /\ last' \in last..latest
         /\ pending' = {s \in S : s > last'} /\ last' + 1 \notin pending'
         /\ channel' \in Seq(Messages) /\ Chain(Start, channel', latest)
         /\ last' = Reach(Start, channel')
<1>1. /\ last \in 0..latest /\ channel \in Seq(Messages)
      /\ Chain(Start, channel, latest) /\ Reach(Start, channel) = last
  BY DEF StreamInv, ConnectionInv, ChannelInv
<1>2. latest \in 0..MaxEvents /\ latest \in Nat /\ Start \in Nat /\ last \in Nat
  BY InvTypes
<1>3. /\ channel' \in Seq(Messages) /\ Chain(Start, channel', latest)
      /\ Reach(Start, channel') = FlushEnd(last, S)
      /\ FlushEnd(last, S) \in last..latest
  <2>1. channel' = Continued(channel, last, S, more)
    BY DEF Flush, Continued
  <2>2. Leads(channel, last) /\ last \in 0..latest
    BY <1>1 DEF Leads
  <2>3. /\ Leads(Continued(channel, last, S, more), FlushEnd(last, S))
        /\ FlushEnd(last, S) \in last..latest
    BY <1>2, <2>2, SendContinued
  <2>4. Leads(channel', FlushEnd(last, S))
    BY <2>1, <2>3
  <2> QED
    BY <2>3, <2>4 DEF Leads
<1>4. FlushEnd(last, S) + 1 \notin S
  BY <1>1, <1>2, FlushEndIsMaximal
<1> QED
  BY <1>3, <1>4 DEF Flush, Above

\* _require_resync skips forward, and what was kept back follows.
LEMMA ResyncStep ==
  ASSUME StreamInv, link # "closed", NEW S, S \subseteq 1..latest,
         NEW n \in last..latest,
         NEW more \in Endings(FlushEnd(n, Above(S, n))),
         Resync(n, S, more)
  PROVE  /\ last' = FlushEnd(n, Above(S, n)) /\ last' \in n..latest
         /\ pending' = {s \in S : s > last'} /\ last' + 1 \notin pending'
         /\ channel' \in Seq(Messages) /\ Chain(Start, channel', latest)
         /\ last' = Reach(Start, channel')
<1> DEFINE rest == Above(S, n)
           m == Message("resync", n)
           c == channel \o <<m>>
<1>1. /\ last \in 0..latest /\ channel \in Seq(Messages)
      /\ Chain(Start, channel, latest) /\ Reach(Start, channel) = last
  BY DEF StreamInv, ConnectionInv, ChannelInv
<1>2. /\ latest \in 0..MaxEvents /\ latest \in Nat /\ Start \in Nat /\ n \in 0..latest
      /\ MaxEvents \in Nat
  BY <1>1, InvTypes
<1>3. m \in Messages /\ m.seq = n /\ Follows(m, last, latest)
  BY <1>1, <1>2 DEF Message, Messages, Follows
<1>4. Append(channel, m) = c
  <2> HIDE DEF m
  <2> QED
    BY <1>1, <1>3, AppendIsConcat
<1> HIDE DEF m, c
<1>5. c \in Seq(Messages) /\ Chain(Start, c, latest) /\ Reach(Start, c) = n
  <2>1. Follows(m, Reach(Start, channel), latest) /\ Reach(Start, channel) \in Nat
    BY <1>1, <1>3
  <2> QED
    BY <1>1, <1>2, <1>3, <1>4, <2>1, ChainAppend
<1>6. rest \subseteq 1..latest /\ rest = {s \in S : s > n}
  BY <1>1 DEF Above
<1>7. /\ channel' = c \o Flushed(n, rest) \o more
      /\ last' = FlushEnd(n, rest) /\ pending' = Above(rest, last')
  BY DEF Resync, c, m
<1> HIDE DEF rest
<1>8. /\ channel' \in Seq(Messages) /\ Chain(Start, channel', latest)
      /\ Reach(Start, channel') = last' /\ last' \in n..latest
  <2>1. Leads(c, n) /\ rest \subseteq 1..latest /\ more \in Endings(FlushEnd(n, rest))
    BY <1>5, <1>6 DEF Leads, rest
  <2>2. /\ Leads(Continued(c, n, rest, more), FlushEnd(n, rest))
        /\ FlushEnd(n, rest) \in n..latest
    BY <1>2, <2>1, SendContinued
  <2>3. Leads(channel', last')
    BY <1>7, <2>2 DEF Continued
  <2> QED
    BY <1>7, <2>2, <2>3 DEF Leads
<1>9. FlushEnd(n, rest) + 1 \notin rest
  BY <1>2, <1>6, FlushEndIsMaximal
<1>10. pending' = {s \in S : s > last'}
  <2>1. pending' = {s \in rest : s > last'}
    BY <1>7 DEF Above
  <2>2. n \in Nat /\ last' \in Nat /\ last' >= n
    BY <1>2, <1>8
  <2>3. ASSUME NEW s \in S, s > last' PROVE s > n
    BY <1>2, <2>2, <2>3
  <2> QED
    BY <1>6, <2>1, <2>3
<1> QED
  BY <1>6, <1>7, <1>8, <1>9, <1>10 DEF rest

----------------------------------------------------------------------------
(* The invariant is kept, action by action.                                *)

LEMMA InitStream == Init => StreamInv
<1> SUFFICES ASSUME Init PROVE StreamInv
  OBVIOUS
<1>1. channel \in Seq(Messages) /\ Len(channel) = 0
  BY EmptySeq DEF Init
<1>2. Cardinality(pending) = 0
  BY FS_EmptySet DEF Init
<1>3. LogInv /\ ConnectionInv
  BY <1>2 DEF Init, LogInv, ConnectionInv
<1>4. ChannelInv /\ DeviceInv
  BY <1>1 DEF Init, ChannelInv, DeviceInv, Chain, Counting
<1> QED
  BY <1>3, <1>4 DEF StreamInv

LEMMA CommitKeeps ==
  ASSUME StreamInv, Commit \/ CommitSilent
  PROVE  StreamInv'
<1> USE DEF StreamInv
<1>1. /\ latest \in Nat /\ latest' = latest + 1 /\ latest' \in 0..MaxEvents
      /\ UNCHANGED <<arriving, connection, device>>
      /\ unsent' \subseteq 1..latest'
      /\ budget' \in [{"silent", "fault"} -> Nat]
  <2>1. latest \in Nat /\ MaxEvents \in Nat /\ unsent \subseteq 1..latest
    BY DEF LogInv
  <2>2. /\ latest' = latest + 1 /\ latest < MaxEvents
        /\ UNCHANGED <<arriving, connection, device>>
        /\ unsent' \subseteq unsent \cup {latest'}
    BY DEF Commit, CommitSilent
  <2>3. budget' \in [{"silent", "fault"} -> Nat]
    <3>1. CASE Commit
      BY <3>1 DEF Commit, LogInv
    <3>2. CASE CommitSilent
      BY <3>2 DEF CommitSilent, Spend, LogInv
    <3> QED
      BY <3>1, <3>2
  <2> QED
    BY <2>1, <2>2, <2>3
<1>2. LogInv'
  BY <1>1 DEF LogInv
<1>3. ConnectionInv'
  BY <1>1 DEF ConnectionInv, connection
<1>4. Start' = Start /\ Start \in Nat
  BY <1>1, InvTypes DEF device, handling, Start, Counting
<1>5. Chain(Start, channel, latest')
  BY <1>1, <1>4, ChainGrows DEF ChannelInv
<1>6. ChannelInv'
  BY <1>1, <1>4, <1>5 DEF ChannelInv, connection, device
<1>7. DeviceInv'
  BY <1>1 DEF DeviceInv, device, handling, Counting, Follows
<1> QED
  BY <1>2, <1>3, <1>6, <1>7

LEMMA BroadcastKeeps ==
  ASSUME StreamInv, NEW e \in 1..MaxEvents, Broadcast(e)
  PROVE  StreamInv'
<1> USE DEF StreamInv
<1>1. UNCHANGED <<latest, connection, device, budget>>
  BY DEF Broadcast
<1>2. LogInv'
  BY <1>1 DEF LogInv, Broadcast
<1>3. ConnectionInv' /\ ChannelInv' /\ DeviceInv'
  BY <1>1 DEF ConnectionInv, ChannelInv, DeviceInv, connection, device, handling,
       Start, Counting
<1> QED
  BY <1>2, <1>3

\* A step that only sends leaves the device where it is.
LEMMA SendingKeeps ==
  ASSUME StreamInv, UNCHANGED <<latest, handling, known, cursor>>
  PROVE  DeviceInv' /\ Start' = Start
BY DEF StreamInv, DeviceInv, handling, Start, Counting

LEMMA RestIsAhead ==
  ASSUME latest \in Nat, NEW n \in Nat, NEW S, S \subseteq 1..latest
  PROVE  {s \in S : s > n} \subseteq (n + 1)..latest
<1> SUFFICES ASSUME NEW s \in S, s > n PROVE s \in (n + 1)..latest
  OBVIOUS
<1>1. s \in 1..latest
  OBVIOUS
<1> QED
  BY <1>1

----------------------------------------------------------------------------
(* queue_live                                                              *)

\* What queue_live has in hand, and the events of the log behind it.
LEMMA LiveSet ==
  ASSUME StreamInv, NEW e \in 1..latest, e > last
  PROVE  /\ pending \cup {e} \subseteq (last + 1)..latest
         /\ Trimmed(pending \cup {e}) \subseteq pending \cup {e}
         /\ Cardinality(Trimmed(pending \cup {e})) <= PendingLimit
<1>1. pending \subseteq 1..latest /\ Cardinality(pending) <= PendingLimit
  BY InvTypes DEF StreamInv, ConnectionInv
<1>2. latest \in Nat
  BY InvTypes
<1>3. pending \cup {e} \subseteq (last + 1)..latest
  BY InvTypes DEF StreamInv, ConnectionInv
<1> QED
  BY <1>1, <1>2, <1>3, TrimmedIsBounded

LEMMA LiveKeptKeeps ==
  ASSUME StreamInv, NEW e \in 1..latest, LiveKept(e), UNCHANGED latest
  PROVE  ConnectionInv' /\ UNCHANGED <<channel, link, last>>
<1> DEFINE T == Trimmed(pending \cup {e})
<1>1. T \subseteq (last + 1)..latest /\ Cardinality(T) <= PendingLimit
  BY LiveSet DEF LiveKept
<1> HIDE DEF T
<1>2. overflow' \in 0..latest
  <2>1. overflow \in Nat /\ overflow \in 0..latest /\ latest \in Nat
    BY InvTypes DEF StreamInv, ConnectionInv
  <2>2. Max({overflow, e}) \in 0..latest
    BY <2>1, MaxOfTwo
  <2> QED
    BY <2>1, <2>2 DEF LiveKept
<1>3. pending' = T /\ UNCHANGED <<link, last, target, page>>
  BY DEF LiveKept, T
<1>4. link = "replay"
  BY DEF LiveKept
<1> QED
  BY <1>1, <1>2, <1>3, <1>4 DEF StreamInv, ConnectionInv, LiveKept

\* A live event brings everything before it along, as far as the log is asked.
LEMMA LiveSentKeeps ==
  ASSUME StreamInv, NEW e \in 1..latest, LiveSent(e), UNCHANGED latest
  PROVE  /\ last' \in last..latest
         /\ last' >= e \/ last' >= last + PendingLimit
         /\ pending' \subseteq (last' + 1)..latest
         /\ Cardinality(pending') <= PendingLimit /\ last' + 1 \notin pending'
         /\ channel' \in Seq(Messages) /\ Chain(Start, channel', latest)
         /\ last' = Reach(Start, channel')
<1> DEFINE T == Trimmed(pending \cup {e})
<1>1. /\ T \subseteq pending \cup {e} /\ Cardinality(T) <= PendingLimit
      /\ pending \cup {e} \subseteq (last + 1)..latest
  BY LiveSet DEF LiveSent
<1>2. /\ last \in 0..latest /\ latest \in Nat /\ last \in Nat
      /\ last + 1 \notin pending /\ link = "live" /\ e > last
  BY InvTypes DEF LiveSent, StreamInv, ConnectionInv
<1>3. T \subseteq 1..latest
  <2>1. \A s \in (last + 1)..latest : s \in 1..latest
    BY <1>2
  <2> QED
    BY <1>1, <2>1
<1>4. IF last + 1 \notin T /\ TooOld(last)
      THEN Resync(latest, T, <<>>)
      ELSE Flush(last, Backfilled(last, T), <<>>)
  BY DEF LiveSent
<1> HIDE DEF T
<1>5. \A n : <<>> \in Endings(n)
  BY DEF Endings
<1>6. ASSUME NEW S, S \subseteq T PROVE Cardinality(S) <= PendingLimit
  <2>1. IsFiniteSet(T) /\ Cardinality(T) \in Nat
    BY <1>2, <1>3, FiniteBelow
  <2>2. IsFiniteSet(S) /\ Cardinality(S) <= Cardinality(T)
    BY <1>6, <2>1, FS_Subset
  <2>3. Cardinality(S) \in Nat
    BY <2>2, FS_CardinalityType
  <2> QED
    BY <1>1, <2>1, <2>2, <2>3
<1>7. CASE last + 1 \notin T /\ TooOld(last)
  <2>1. latest \in last..latest /\ Resync(latest, T, <<>>)
    BY <1>2, <1>4, <1>7
  <2>2. /\ last' \in latest..latest
        /\ pending' = {s \in T : s > last'} /\ last' + 1 \notin pending'
        /\ channel' \in Seq(Messages) /\ Chain(Start, channel', latest)
        /\ last' = Reach(Start, channel')
    BY <1>2, <1>3, <1>5, <2>1, ResyncStep
  <2>3. last' = latest /\ last' >= e /\ last' \in last..latest
    BY <1>2, <2>2
  <2>4. pending' \subseteq (last' + 1)..latest
    BY <1>2, <1>3, <2>2, <2>3, RestIsAhead
  <2>5. Cardinality(pending') <= PendingLimit
    BY <1>6, <2>2
  <2> QED
    BY <2>2, <2>3, <2>4, <2>5
<1>8. CASE ~(last + 1 \notin T /\ TooOld(last))
  <2> DEFINE B == Backfilled(last, T)
  <2>1. B = T \/ B = T \cup {s \in (last + 1)..latest : s <= last + PendingLimit}
    BY <1>2, <1>8, WindowIsNext DEF Backfilled
  <2>2. last + 1 \in T => B = T
    BY DEF Backfilled
  <2>3. last + 1 \notin T =>
          B = T \cup {s \in (last + 1)..latest : s <= last + PendingLimit}
    BY <1>2, <1>8, WindowIsNext DEF Backfilled
  <2> HIDE DEF B
  <2>4. B \subseteq 1..latest
    <3>1. \A s \in (last + 1)..latest : s \in 1..latest
      BY <1>2
    <3> QED
      BY <1>3, <2>1, <3>1
  <2>5. Flush(last, B, <<>>)
    BY <1>4, <1>8 DEF B
  <2>6. /\ last' = FlushEnd(last, B) /\ last' \in last..latest
        /\ pending' = {s \in B : s > last'} /\ last' + 1 \notin pending'
        /\ channel' \in Seq(Messages) /\ Chain(Start, channel', latest)
        /\ last' = Reach(Start, channel')
    BY <1>2, <1>5, <2>4, <2>5, FlushStep
  <2>7. pending' \subseteq (last' + 1)..latest
    <3>1. last' \in Nat
      BY <1>2, <2>6
    <3> QED
      BY <1>2, <2>4, <2>6, <3>1, RestIsAhead
  <2>8. \A m \in last..latest : (last + 1)..m \subseteq B => m <= last'
    BY <1>2, <2>4, <2>6, FlushEndIsMaximal
  <2>9. CASE last + 1 \in T
    <3>1. e = last + 1 /\ B = T
      BY <1>1, <1>2, <2>2, <2>9
    <3>2. e \in last..latest /\ (last + 1)..e \subseteq B
      BY <1>2, <2>9, <3>1
    <3>3. last' >= e
      BY <2>8, <3>2
    <3>4. Cardinality(pending') <= PendingLimit
      BY <1>6, <2>6, <3>1
    <3> QED
      BY <2>6, <2>7, <3>3, <3>4
  <2>10. CASE last + 1 \notin T
    <3> DEFINE far == IF last + PendingLimit <= latest THEN last + PendingLimit
                      ELSE latest
    <3>1. far \in last..latest /\ (last + 1)..far \subseteq B
      BY <1>2, <2>3, <2>10
    <3>2. last' >= far
      BY <2>8, <3>1
    <3>3. pending' \subseteq T
      BY <1>2, <2>3, <2>6, <2>10, <3>2
    <3>4. last' >= e \/ last' >= last + PendingLimit
      BY <1>2, <2>6, <3>2
    <3>5. Cardinality(pending') <= PendingLimit
      BY <1>6, <3>3
    <3> QED
      BY <2>6, <2>7, <3>4, <3>5
  <2> QED
    BY <2>9, <2>10
<1> QED
  BY <1>7, <1>8

LEMMA QueueLiveKeeps ==
  ASSUME StreamInv, NEW e \in 1..MaxEvents, QueueLive(e)
  PROVE  StreamInv'
<1>1. /\ e \in 1..latest /\ arriving' \subseteq arriving
      /\ UNCHANGED <<latest, unsent, handling, known, cursor, budget>>
  BY DEF QueueLive, StreamInv, LogInv
<1>2. LogInv'
  BY <1>1 DEF StreamInv, LogInv
<1>3. DeviceInv' /\ Start' = Start
  BY <1>1, SendingKeeps
<1>4. ConnectionInv' /\ ChannelInv'
  <2>1. CASE LiveKnown(e)
    BY <1>1, <1>3, <2>1 DEF LiveKnown, connection, StreamInv, ConnectionInv, ChannelInv
  <2>2. CASE LiveKept(e)
    <3>1. ConnectionInv' /\ UNCHANGED <<channel, link, last>>
      BY <1>1, <2>2, LiveKeptKeeps
    <3> QED
      BY <1>1, <1>3, <3>1 DEF StreamInv, ChannelInv
  <2>3. CASE LiveSent(e)
    <3>1. /\ last' \in last..latest
          /\ pending' \subseteq (last' + 1)..latest
          /\ Cardinality(pending') <= PendingLimit /\ last' + 1 \notin pending'
          /\ channel' \in Seq(Messages) /\ Chain(Start, channel', latest)
          /\ last' = Reach(Start, channel')
      BY <1>1, <2>3, LiveSentKeeps
    <3>2. link = "live" /\ UNCHANGED <<link, overflow, target, page>>
      BY <2>3 DEF LiveSent
    <3>3. ConnectionInv'
      <4>1. last' \in 0..latest /\ page = {}
        BY <3>1, <3>2, InvTypes, SMTT(40) DEF StreamInv, ConnectionInv
      <4> QED
        BY <1>1, <3>1, <3>2, <4>1 DEF StreamInv, ConnectionInv
    <3> QED
      BY <1>1, <1>3, <3>1, <3>3 DEF ChannelInv
  <2> QED
    BY <2>1, <2>2, <2>3 DEF QueueLive
<1> QED
  BY <1>2, <1>3, <1>4 DEF StreamInv

----------------------------------------------------------------------------
(* events_ws                                                               *)

LEMMA ConnectKeeps ==
  ASSUME StreamInv, Connect
  PROVE  StreamInv'
<1>1. /\ UNCHANGED <<latest, unsent, arriving, applying, seen, known, cursor, budget>>
      /\ link' = "replay" /\ last' = cursor /\ target' = latest
      /\ pending' = {} /\ overflow' = 0 /\ page' = {} /\ channel' = <<>>
      /\ stale' = IF applying = None THEN "no" ELSE "yes"
  BY DEF Connect
<1>2. ~Counting' /\ Start' = cursor
  BY <1>1 DEF Start, Counting
<1>3. LogInv' /\ DeviceInv'
  BY <1>1, <1>2 DEF StreamInv, LogInv, DeviceInv
<1>4. ConnectionInv'
  BY <1>1, InvTypes, FS_EmptySet, SMTT(40) DEF StreamInv, DeviceInv, ConnectionInv
<1>5. ChannelInv'
  <2>1. channel' \in Seq(Messages) /\ Len(channel') = 0
    BY <1>1, EmptySeq
  <2> QED
    BY <1>1, <1>2, <2>1 DEF ChannelInv, Chain, Reach
<1> QED
  BY <1>3, <1>4, <1>5 DEF StreamInv

\* A page is what comes next, up to where the handler wants to get.
LEMMA PageIsNext ==
  ASSUME StreamInv, ~TooOld(last), last < target,
         NEW P, P = {s \in Window(last, PageSize) : s <= target}
  PROVE  P \subseteq (last + 1)..target /\ \A s \in P : (last + 1)..s \subseteq P
<1>1. latest \in Nat /\ last \in Nat /\ target \in 0..latest
  BY InvTypes DEF StreamInv, ConnectionInv
<1>2. Window(last, PageSize) = {s \in (last + 1)..latest : s <= last + PageSize}
  BY <1>1, WindowIsNext
<1>3. P = {s \in (last + 1)..target : s <= last + PageSize}
  BY <1>1, <1>2
<1> QED
  BY <1>1, <1>3

LEMMA ReadPageKeeps ==
  ASSUME StreamInv, ReadPage
  PROVE  StreamInv'
<1>1. /\ UNCHANGED <<latest, unsent, arriving, link, overflow, target, handling, known,
                     cursor, budget>>
      /\ link = "replay" /\ page = {} /\ last < target
  BY DEF ReadPage
<1>2. LogInv'
  BY <1>1 DEF StreamInv, LogInv
<1>3. DeviceInv' /\ Start' = Start
  BY <1>1, SendingKeeps
<1>4. latest \in Nat /\ last \in Nat /\ target \in 0..latest /\ latest \in 0..MaxEvents
  BY InvTypes DEF StreamInv, ConnectionInv
<1>5. ConnectionInv' /\ ChannelInv'
  <2>1. CASE TooOld(last)
    <3> DEFINE m == Message("resync", target)
    <3>1. m \in Messages /\ m.seq = target /\ Follows(m, last, latest)
      BY <1>1, <1>4 DEF Message, Messages, Follows
    <3>2. /\ last' = target /\ pending' = Above(pending, target)
          /\ channel' = Append(channel, m) /\ page' = page
      BY <2>1 DEF ReadPage
    <3> HIDE DEF m
    <3>3. /\ channel' \in Seq(Messages) /\ Chain(Start, channel', latest)
          /\ Reach(Start, channel') = target
      <4>1. channel \in Seq(Messages) /\ Chain(Start, channel, latest)
            /\ Reach(Start, channel) = last /\ Start \in Nat
        BY <1>1, InvTypes DEF StreamInv, ChannelInv
      <4>2. Follows(m, Reach(Start, channel), latest) /\ Reach(Start, channel) \in Nat
        BY <1>4, <3>1, <4>1
      <4> QED
        BY <1>4, <3>1, <3>2, <4>1, <4>2, ChainAppend
    <3>4. pending' = {s \in pending : s > target} /\ pending \subseteq 1..latest
      BY <3>2, InvTypes DEF Above
    <3>5. /\ pending' \subseteq (target + 1)..latest
          /\ Cardinality(pending') <= PendingLimit
      <4>1. Cardinality(pending') <= Cardinality(pending)
        BY <1>4, <3>4, AboveIsBounded
      <4>2. Cardinality(pending') \in Nat /\ Cardinality(pending) \in Nat
        BY <1>4, <3>4, FiniteBelow
      <4>3. Cardinality(pending) <= PendingLimit
        BY DEF StreamInv, ConnectionInv
      <4>4. pending' \subseteq (target + 1)..latest
        <5>1. target \in Nat
          BY <1>4
        <5> QED
          BY <1>4, <3>4, <5>1, RestIsAhead
      <4> QED
        BY <4>1, <4>2, <4>3, <4>4
    <3> QED
      BY <1>1, <1>3, <1>4, <3>2, <3>3, <3>5 DEF StreamInv, ConnectionInv, ChannelInv
  <2>2. CASE ~TooOld(last)
    <3>1. /\ page' = {s \in Window(last, PageSize) : s <= target}
          /\ UNCHANGED <<last, pending, channel>>
      BY <2>2 DEF ReadPage
    <3>2. page' \subseteq (last + 1)..target /\ \A s \in page' : (last + 1)..s \subseteq page'
      BY <1>1, <2>2, <3>1, PageIsNext
    <3> QED
      BY <1>1, <1>3, <3>1, <3>2 DEF StreamInv, ConnectionInv, ChannelInv
  <2> QED
    BY <2>1, <2>2
<1> QED
  BY <1>2, <1>3, <1>5 DEF StreamInv

LEMMA SendReplayKeeps ==
  ASSUME StreamInv, SendReplay
  PROVE  StreamInv'
<1> DEFINE s == Min(page)
           m == Message("event", s)
<1>1. /\ UNCHANGED <<latest, unsent, arriving, link, overflow, target, handling, known,
                     cursor, budget>>
      /\ link = "replay" /\ page # {}
      /\ page' = page \ {s} /\ last' = s /\ pending' = pending \ {s}
      /\ channel' = Append(channel, m)
  BY DEF SendReplay
<1>2. LogInv'
  BY <1>1 DEF StreamInv, LogInv
<1>3. DeviceInv' /\ Start' = Start
  BY <1>1, SendingKeeps
<1>4. /\ latest \in Nat /\ last \in Nat /\ target \in 0..latest /\ latest \in 0..MaxEvents
      /\ page \subseteq (last + 1)..target /\ pending \subseteq (last + 1)..latest
      /\ \A t \in page : (last + 1)..t \subseteq page
  BY InvTypes DEF StreamInv, ConnectionInv
<1>5. s \in page /\ \A t \in page : s <= t
  <2>1. page \in SUBSET Nat
    BY <1>4
  <2> QED
    BY <1>1, <2>1, MinIsLeast
<1> HIDE DEF s
<1>6. s = last + 1 /\ s \in 1..target
  <2>1. s \in Nat /\ s >= last + 1 /\ last + 1 \in (last + 1)..s /\ s <= target
    BY <1>4, <1>5
  <2>2. last + 1 \in page
    BY <1>4, <1>5, <2>1
  <2> QED
    BY <1>4, <1>5, <2>1, <2>2
<1>7. ConnectionInv'
  <2>1. page' \subseteq (s + 1)..target
    BY <1>1, <1>4, <1>6
  <2>2. \A t \in page' : (s + 1)..t \subseteq page'
    BY <1>1, <1>4, <1>6
  <2>3. pending' \subseteq (s + 1)..latest
    BY <1>1, <1>4, <1>6
  <2>4. Cardinality(pending') <= PendingLimit
    <3>1. pending \subseteq 1..latest /\ pending' \subseteq pending
      BY <1>1, InvTypes
    <3>2. pending' \subseteq 1..latest
      BY <3>1
    <3>3. Cardinality(pending') <= Cardinality(pending)
      BY <1>4, <3>1, AboveIsBounded
    <3>4. Cardinality(pending') \in Nat /\ Cardinality(pending) \in Nat
      BY <1>4, <3>1, <3>2, FiniteBelow
    <3>5. Cardinality(pending) <= PendingLimit
      BY DEF StreamInv, ConnectionInv
    <3> QED
      BY <3>3, <3>4, <3>5
  <2>5. s \in 0..latest
    BY <1>4, <1>6
  <2> QED
    BY <1>1, <2>1, <2>2, <2>3, <2>4, <2>5 DEF StreamInv, ConnectionInv
<1>8. ChannelInv'
  <2>1. m \in Messages /\ m.seq = s /\ Follows(m, last, latest)
    BY <1>4, <1>6 DEF Message, Messages, Follows
  <2> HIDE DEF m
  <2>2. /\ channel \in Seq(Messages) /\ Chain(Start, channel, latest)
        /\ Reach(Start, channel) = last /\ Start \in Nat
    BY <1>1, InvTypes DEF StreamInv, ChannelInv
  <2>3. Follows(m, Reach(Start, channel), latest) /\ Reach(Start, channel) \in Nat
    BY <1>4, <2>1, <2>2
  <2>4. /\ channel' \in Seq(Messages) /\ Chain(Start, channel', latest)
        /\ Reach(Start, channel') = s
    BY <1>1, <1>4, <2>1, <2>2, <2>3, ChainAppend
  <2> QED
    BY <1>1, <1>3, <2>4 DEF ChannelInv
<1> QED
  BY <1>2, <1>3, <1>7, <1>8 DEF StreamInv

LEMMA FinishReplayKeeps ==
  ASSUME StreamInv, FinishReplay
  PROVE  StreamInv'
<1> DEFINE S == Above(pending, last)
           n == Max({last, overflow} \cup S)
           more == <<Message("ready", last')>>
<1>1. /\ UNCHANGED <<latest, unsent, arriving, target, page, handling, known, cursor,
                     budget>>
      /\ link = "replay" /\ page = {} /\ link' = "live" /\ overflow' = 0
  BY DEF FinishReplay
<1>2. LogInv'
  BY <1>1 DEF StreamInv, LogInv
<1>3. DeviceInv' /\ Start' = Start
  BY <1>1, SendingKeeps
<1>4. /\ latest \in Nat /\ last \in 0..latest /\ overflow \in 0..latest
      /\ pending \subseteq 1..latest /\ S \subseteq pending /\ target \in 0..latest
  BY InvTypes DEF StreamInv, ConnectionInv, Above
<1>5. IF Overflowed THEN Resync(n, S, more) ELSE Flush(last, S, more)
  BY DEF FinishReplay
<1>6. S \subseteq 1..latest
  BY <1>4
<1> HIDE DEF S
<1>7. n \in last..latest
  <2> DEFINE all == {last, overflow} \cup S
  <2>1. all \in SUBSET Nat /\ all # {} /\ \A y \in all : y <= latest
    BY <1>4, <1>6
  <2>2. Max(all) \in all /\ \A y \in all : Max(all) >= y
    BY <1>4, <2>1, MaxIsGreatest
  <2>3. last \in all
    OBVIOUS
  <2> HIDE DEF all
  <2>4. Max(all) \in Nat /\ Max(all) <= latest /\ Max(all) >= last
    BY <2>1, <2>2, <2>3
  <2> QED
    BY <1>4, <2>4 DEF all
<1> HIDE DEF n
<1>8. \A k : last' = k => more \in Endings(k)
  BY DEF Endings
<1> HIDE DEF more
<1>9. /\ last' \in last..latest
      /\ pending' = {s \in S : s > last'} /\ last' + 1 \notin pending'
      /\ channel' \in Seq(Messages) /\ Chain(Start, channel', latest)
      /\ last' = Reach(Start, channel')
  <2>1. CASE Overflowed
    <3>1. Resync(n, S, more)
      BY <1>5, <2>1
    <3>2. more \in Endings(FlushEnd(n, Above(S, n)))
      BY <1>8, <3>1 DEF Resync
    <3>3. /\ last' \in n..latest
          /\ pending' = {s \in S : s > last'} /\ last' + 1 \notin pending'
          /\ channel' \in Seq(Messages) /\ Chain(Start, channel', latest)
          /\ last' = Reach(Start, channel')
      BY <1>1, <1>6, <1>7, <3>1, <3>2, ResyncStep
    <3>4. last' \in last..latest
      BY <1>4, <1>7, <3>3
    <3> QED
      BY <3>3, <3>4
  <2>2. CASE ~Overflowed
    <3>1. Flush(last, S, more)
      BY <1>5, <2>2
    <3>2. more \in Endings(FlushEnd(last, S))
      BY <1>8, <3>1 DEF Flush
    <3> QED
      BY <1>1, <1>6, <3>1, <3>2, FlushStep
  <2> QED
    BY <2>1, <2>2
<1>10. ConnectionInv'
  <2>1. last' \in Nat /\ last' \in 0..latest
    BY <1>4, <1>9
  <2>2. pending' \subseteq (last' + 1)..latest
    BY <1>4, <1>6, <1>9, <2>1, RestIsAhead
  <2>3. Cardinality(pending') <= PendingLimit
    <3>1. pending' \subseteq pending /\ pending' \subseteq 1..latest
      BY <1>4, <1>6, <1>9
    <3>2. Cardinality(pending') <= Cardinality(pending)
      BY <1>4, <3>1, AboveIsBounded
    <3>3. Cardinality(pending') \in Nat /\ Cardinality(pending) \in Nat
      BY <1>4, <3>1, FiniteBelow
    <3>4. Cardinality(pending) <= PendingLimit
      BY DEF StreamInv, ConnectionInv
    <3> QED
      BY <3>2, <3>3, <3>4
  <2> QED
    BY <1>1, <1>4, <1>9, <2>1, <2>2, <2>3 DEF ConnectionInv
<1>11. ChannelInv'
  BY <1>1, <1>3, <1>9 DEF ChannelInv
<1> QED
  BY <1>2, <1>3, <1>10, <1>11 DEF StreamInv

----------------------------------------------------------------------------
(* The device, lost connections and crashes.                               *)

LEMMA ApplyBeginKeeps ==
  ASSUME StreamInv, ApplyBegin
  PROVE  StreamInv'
<1> DEFINE m == Head(channel)
<1>1. /\ UNCHANGED <<latest, unsent, arriving, connection, known, cursor, budget>>
      /\ applying = None /\ channel # <<>> /\ applying' = m /\ channel' = Tail(channel)
      /\ stale' = "no" /\ seen' = IF m.type = "resync" THEN latest ELSE 0
  BY DEF ApplyBegin
<1>2. LogInv' /\ ConnectionInv'
  BY <1>1 DEF StreamInv, LogInv, ConnectionInv, connection
<1>3. Start = cursor /\ cursor \in Nat /\ latest \in Nat
  BY <1>1, InvTypes DEF Start, Counting
<1>4. /\ m \in Messages /\ channel' \in Seq(Messages) /\ Follows(m, cursor, latest)
      /\ Chain(m.seq, channel', latest) /\ Reach(m.seq, channel') = Reach(cursor, channel)
  BY <1>1, <1>3, ChainTail DEF StreamInv, ChannelInv
<1> HIDE DEF m
<1>5. applying' # None /\ Counting' /\ Start' = m.seq
  BY <1>1, <1>4, NoMessageAssumption DEF Counting, Start
<1>6. ChannelInv'
  BY <1>1, <1>3, <1>4, <1>5 DEF StreamInv, ChannelInv, connection
<1>7. DeviceInv'
  <2>1. m.seq \in 0..latest /\ (m.type = "event" => m.seq > 0)
    BY <1>3, <1>4 DEF Follows
  <2> QED
    BY <1>1, <1>3, <1>4, <1>5, <2>1 DEF StreamInv, DeviceInv
<1> QED
  BY <1>2, <1>6, <1>7 DEF StreamInv

\* What the device learns covers what its cursor moves over.
LEMMA LearnedCovers ==
  ASSUME StreamInv, applying # None
  PROVE  /\ Learned \subseteq 1..latest
         /\ Counting => 1..applying.seq \subseteq known \cup Learned
         /\ Counting => applying.seq >= cursor
<1>1. /\ applying \in Messages /\ latest \in Nat /\ cursor \in Nat /\ seen \in 0..latest
      /\ applying.seq \in 0..latest /\ 1..cursor \subseteq known
      /\ applying.type \in {"event", "resync", "ready"}
      /\ applying.type = "event" => applying.seq > 0
      /\ applying.type = "resync" => applying.seq <= seen
      /\ Counting => Follows(applying, cursor, latest)
  BY InvTypes DEF StreamInv, DeviceInv, Messages
<1>2. CASE applying.type = "event"
  BY <1>1, <1>2 DEF Learned, Follows
<1>3. CASE applying.type = "resync"
  BY <1>1, <1>3 DEF Learned, Follows
<1>4. CASE applying.type = "ready"
  BY <1>1, <1>4 DEF Learned, Follows
<1> QED
  BY <1>1, <1>2, <1>3, <1>4

LEMMA ApplyDoneMoves ==
  ASSUME StreamInv, ApplyDone
  PROVE  /\ known' = known \cup Learned /\ known' \subseteq 1..latest
         /\ cursor' = Start /\ cursor' \in cursor..latest
         /\ 1..cursor' \subseteq known'
<1>1. /\ applying # None /\ known' = known \cup Learned
      /\ cursor' = IF Counts THEN Max({cursor, applying.seq}) ELSE cursor
  BY DEF ApplyDone
<1>2. Counts <=> Counting
  BY <1>1 DEF Counts, Counting
<1>3. /\ latest \in Nat /\ cursor \in 0..latest /\ cursor \in Nat
      /\ applying.seq \in 0..latest /\ applying.seq \in Nat
      /\ 1..cursor \subseteq known /\ known \subseteq 1..latest
  BY <1>1, InvTypes DEF StreamInv, DeviceInv
<1>4. Counting => cursor' = applying.seq /\ applying.seq >= cursor
  BY <1>1, <1>2, <1>3, LearnedCovers, MaxOfTwo
<1>5. cursor' = Start /\ cursor' \in cursor..latest
  BY <1>1, <1>2, <1>3, <1>4 DEF Start
<1>6. 1..cursor' \subseteq known'
  BY <1>1, <1>2, <1>3, <1>4, LearnedCovers
<1> QED
  BY <1>1, <1>3, <1>5, <1>6, LearnedCovers

LEMMA ApplyDoneKeeps ==
  ASSUME StreamInv, ApplyDone
  PROVE  StreamInv'
<1>1. /\ UNCHANGED <<latest, unsent, arriving, connection, channel, stale, seen, budget>>
      /\ applying' = None
  BY DEF ApplyDone
<1>2. LogInv' /\ ConnectionInv'
  BY <1>1 DEF StreamInv, LogInv, ConnectionInv, connection
<1>3. ~Counting' /\ Start' = Start
  BY <1>1, ApplyDoneMoves DEF Counting, Start
<1>4. ChannelInv'
  BY <1>1, <1>3 DEF StreamInv, ChannelInv, connection
<1>5. DeviceInv'
  <2>1. /\ known' \subseteq 1..latest /\ cursor' \in cursor..latest
        /\ 1..cursor' \subseteq known'
    BY ApplyDoneMoves
  <2>2. cursor' \in 0..latest
    BY <2>1, InvTypes
  <2> QED
    BY <1>1, <1>3, <2>1, <2>2 DEF StreamInv, DeviceInv
<1> QED
  BY <1>2, <1>4, <1>5 DEF StreamInv

\* A connection that ends leaves the device with what it has received.
LEMMA HangUpKeeps ==
  ASSUME StreamInv, HangUp, UNCHANGED <<latest, seen, known, cursor>>,
         unsent' \subseteq unsent, budget' \in [{"silent", "fault"} -> Nat],
         \/ UNCHANGED <<applying, stale>> /\ Received
         \/ applying' = None /\ UNCHANGED stale /\ channel' = <<>>
  PROVE  StreamInv'
<1>1. LogInv'
  BY DEF StreamInv, LogInv, HangUp
<1>2. ConnectionInv'
  BY FS_EmptySet, InvTypes DEF HangUp, StreamInv, ConnectionInv
<1>3. DeviceInv'
  BY DEF StreamInv, DeviceInv, Counting, Follows
<1>4. ChannelInv'
  <2>1. CASE UNCHANGED <<applying, stale>> /\ Received
    <3>1. PICK k \in 0..Len(channel) : channel' = SubSeq(channel, 1, k)
      BY <2>1 DEF Received
    <3>2. Start' = Start /\ Start \in Nat /\ latest \in Nat
      BY <2>1, InvTypes DEF Start, Counting
    <3>3. channel' \in Seq(Messages) /\ Chain(Start, channel', latest)
      BY <3>1, <3>2, ChainPrefix DEF StreamInv, ChannelInv
    <3> QED
      BY <3>2, <3>3 DEF ChannelInv, HangUp
  <2>2. CASE channel' = <<>>
    <3>1. channel' \in Seq(Messages) /\ Len(channel') = 0
      BY <2>2, EmptySeq
    <3> QED
      BY <3>1 DEF ChannelInv, Chain, HangUp
  <2> QED
    BY <2>1, <2>2
<1> QED
  BY <1>1, <1>2, <1>3, <1>4 DEF StreamInv

LEMMA FaultKeeps ==
  ASSUME StreamInv, ApplyFail \/ Drop \/ Crash
  PROVE  StreamInv'
<1>1. budget' \in [{"silent", "fault"} -> Nat]
  BY DEF ApplyFail, Drop, Crash, Spend, StreamInv, LogInv
<1>2. CASE Drop \/ Crash
  BY <1>1, <1>2, HangUpKeeps DEF Drop, Crash, handling
<1>3. CASE ApplyFail
  <2>1. CASE stale = "no"
    BY <1>1, <1>3, <2>1, HangUpKeeps DEF ApplyFail
  <2>2. CASE stale # "no"
    <3>1. /\ applying' = None
          /\ UNCHANGED <<latest, unsent, arriving, connection, channel, stale, seen,
                         known, cursor>>
      BY <1>3, <2>2 DEF ApplyFail
    <3>2. ~Counting /\ ~Counting' /\ Start' = Start
      BY <2>2, <3>1 DEF Counting, Start
    <3>3. LogInv' /\ ConnectionInv'
      BY <1>1, <3>1 DEF StreamInv, LogInv, ConnectionInv, connection
    <3>4. ChannelInv' /\ DeviceInv'
      BY <3>1, <3>2 DEF StreamInv, ChannelInv, DeviceInv, connection
    <3> QED
      BY <3>3, <3>4 DEF StreamInv
  <2> QED
    BY <2>1, <2>2
<1> QED
  BY <1>2, <1>3

----------------------------------------------------------------------------
LEMMA StreamStep == StreamInv /\ [Next]_vars => StreamInv'
<1> SUFFICES ASSUME StreamInv, [Next]_vars PROVE StreamInv'
  OBVIOUS
<1>1. CASE Next
  <2>1. CASE Server
    BY <2>1, BroadcastKeeps, QueueLiveKeeps, ConnectKeeps, ReadPageKeeps,
       SendReplayKeeps, FinishReplayKeeps DEF Server
  <2>2. CASE Device
    BY <2>2, ApplyBeginKeeps, ApplyDoneKeeps DEF Device
  <2> QED
    BY <1>1, <2>1, <2>2, CommitKeeps, FaultKeeps DEF Next
<1>2. CASE UNCHANGED vars
  BY <1>2 DEF vars, connection, device, handling, StreamInv, LogInv, ConnectionInv,
       ChannelInv, DeviceInv, Start, Counting
<1> QED
  BY <1>1, <1>2

\* The log, what a connection has sent and keeps back, and what the device
\* has been told stay consistent over replays, floods, lost sockets and
\* crashes, for every limit.
THEOREM StreamInvariance == Spec => []StreamInv
<1> QED
  BY InitStream, StreamStep, PTL DEF Spec

\* Every variable keeps its type.
THEOREM StreamTypeCorrect == Spec => []TypeOK
<1>1. StreamInv => TypeOK
  BY DEF StreamInv, LogInv, ConnectionInv, ChannelInv, DeviceInv, TypeOK
<1> QED
  BY <1>1, StreamInvariance, PTL

\* A connection keeps back no more events than its limit, although they
\* arrive while it replays and while the log is asked for what is missing.
THEOREM PendingIsBounded == Spec => []PendingBounded
<1>1. StreamInv => PendingBounded
  BY DEF StreamInv, ConnectionInv, PendingBounded
<1> QED
  BY <1>1, StreamInvariance, PTL

\* A live event that has been sent has taken everything before it along, or
\* as much of it as one backfill reads.
THEOREM LiveEventsAreDelivered == Spec => LiveEventDelivered
<1> DEFINE Told == \A e \in arriving \ arriving' :
                     link = "live" /\ link' = "live"
                       => last' >= Min({e, last + PendingLimit})
<1>1. ASSUME StreamInv, [Next]_vars PROVE Told
  <2> SUFFICES ASSUME NEW e \in arriving \ arriving', link = "live", link' = "live"
               PROVE  last' >= Min({e, last + PendingLimit})
    OBVIOUS
  <2>1. e \in 1..latest /\ last \in 0..latest /\ latest \in Nat
    BY <1>1, InvTypes DEF StreamInv, LogInv, ConnectionInv
  <2>2. Min({e, last + PendingLimit}) \in Nat /\ Min({e, last + PendingLimit}) <= e
        /\ Min({e, last + PendingLimit}) <= last + PendingLimit
    <3> DEFINE T == {e, last + PendingLimit}
    <3>1. T \in SUBSET Nat /\ T # {} /\ e \in T /\ last + PendingLimit \in T
      BY <2>1
    <3> HIDE DEF T
    <3>2. Min(T) \in Nat /\ Min(T) <= e /\ Min(T) <= last + PendingLimit
      BY <3>1, MinIsLeast
    <3> QED
      BY <3>2 DEF T
  <2>3. QueueLive(e)
    BY <1>1 DEF Next, Server, Device, Commit, CommitSilent, Broadcast, QueueLive,
         Connect, ReadPage, SendReplay, FinishReplay, ApplyBegin, ApplyDone, ApplyFail,
         Drop, Crash, HangUp, vars
  <2>4. CASE LiveKnown(e)
    BY <2>1, <2>2, <2>4 DEF LiveKnown, connection
  <2>5. CASE LiveSent(e)
    <3>1. last' \in last..latest /\ (last' >= e \/ last' >= last + PendingLimit)
      BY <1>1, <2>1, <2>3, <2>5, LiveSentKeeps DEF QueueLive
    <3> QED
      BY <2>1, <2>2, <3>1
  <2> QED
    BY <2>3, <2>4, <2>5 DEF QueueLive, LiveKept
<1>2. StreamInv /\ [Next]_vars => [Told]_vars
  BY <1>1
<1> QED
  BY <1>2, StreamInvariance, PTL DEF Spec, LiveEventDelivered

----------------------------------------------------------------------------
(* The stream implements EventFeed: a commit is Publish, the end of an     *)
(* application is Deliver, and nothing else moves what the feed shows.      *)

LEMMA FeedInit == Init => Feed!Init
BY DEF Init, Feed!Init

LEMMA CommitPublishes ==
  ASSUME Commit \/ CommitSilent PROVE Feed!Publish
BY DEF Commit, CommitSilent, device, Feed!Publish

LEMMA ApplyDelivers ==
  ASSUME StreamInv, ApplyDone PROVE Feed!Deliver
<1>1. /\ known' = known \cup Learned /\ known' \subseteq 1..latest
      /\ cursor' \in cursor..latest /\ 1..cursor' \subseteq known'
  BY ApplyDoneMoves
<1>2. latest' = latest
  BY DEF ApplyDone
<1> QED
  BY <1>1, <1>2 DEF Feed!Deliver

LEMMA FeedStep == StreamInv /\ [Next]_vars => [Feed!Publish \/ Feed!Deliver]_(Feed!feed)
<1> SUFFICES ASSUME StreamInv, [Next]_vars
             PROVE  [Feed!Publish \/ Feed!Deliver]_(Feed!feed)
  OBVIOUS
<1>1. CASE Commit \/ CommitSilent
  BY <1>1, CommitPublishes
<1>2. CASE ApplyDone
  BY <1>2, ApplyDelivers
<1>3. ASSUME NEW e \in 1..MaxEvents, Broadcast(e) \/ QueueLive(e)
      PROVE  UNCHANGED <<latest, known, cursor>>
  BY <1>3 DEF Broadcast, QueueLive, device
<1>4. CASE Connect \/ ReadPage \/ SendReplay \/ FinishReplay
  BY <1>4 DEF Connect, ReadPage, SendReplay, FinishReplay, Feed!feed
<1>5. CASE ApplyBegin \/ ApplyFail \/ Drop \/ Crash
  BY <1>5 DEF ApplyBegin, ApplyFail, Drop, Crash, Feed!feed
<1>6. CASE UNCHANGED vars
  BY <1>6 DEF vars, device, Feed!feed
<1> QED
  BY <1>1, <1>2, <1>3, <1>4, <1>5, <1>6 DEF Next, Server, Device, Feed!feed

\* Whatever happens to sockets, queues and the server, the device's cursor
\* only moves forward and only over events the device shows.
THEOREM ImplementsFeed == Spec => FeedKept
<1>1. Init => Feed!Init
  BY FeedInit
<1>2. StreamInv /\ [Next]_vars => [Feed!Publish \/ Feed!Deliver]_(Feed!feed)
  BY FeedStep
<1> QED
  BY <1>1, <1>2, StreamInvariance, PTL DEF Spec, FeedKept, Feed!Spec
=============================================================================
