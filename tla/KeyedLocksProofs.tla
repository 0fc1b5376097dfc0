-------------------------- MODULE KeyedLocksProofs --------------------------
(***************************************************************************)
(* Proofs about KeyedLocks for every set of requests and keys, capacity    *)
(* and number of cancellations.                                            *)
(***************************************************************************)
EXTENDS KeyedLocks, FiniteSetTheorems, SequenceTheorems, TLAPS

InQueue(p, e) == \E i \in 1..Len(queue[e]) : queue[e][i] = p

\* A request that is here uses the entry of its key ...
EntryInv ==
  \A p \in Requests :
    /\ pc[p] = "gone" <=> entry[p] = None
    /\ pc[p] # "gone" => key[p] \in Keys /\ pool[key[p]] = entry[p]

\* ... which no other key has, and which is given up with its last user.
PoolInv ==
  /\ \A k \in Keys : pool[k] # None =>
       \E p \in Requests : pc[p] # "gone" /\ key[p] = k
  /\ \A j, k \in Keys : pool[j] = pool[k] /\ pool[k] # None => j = k
  /\ IsFiniteSet(Mapped) /\ Cardinality(Mapped) <= MaxEntries

\* A request is in the queue of its entry unless it has released the lock.
QueueInv ==
  \A p \in Requests : pc[p] # "gone" =>
    (pc[p] \in {"queued", "draining"} <=> InQueue(p, entry[p]))

\* An operation runs under the lock as long as its request is here.
ThreadInv ==
  \A p \in Requests :
    /\ thread[p] # "none" /\ pc[p] # "gone" => Holds(p)
    /\ thread[p] = "done" => pc[p] # "gone"
    /\ pc[p] = "draining" => cancels[p] > 0

\* A request cancelled once at most leaves no thread behind.
OnceInv == MaxCancels <= 1 =>
  \A p \in Requests : pc[p] = "gone" => thread[p] = "none"

LocksInv == LocksTypeOK /\ EntryInv /\ PoolInv /\ QueueInv /\ ThreadInv /\ OnceInv

----------------------------------------------------------------------------
\* A request that joins a queue waits behind the others, once.
LEMMA Joined ==
  ASSUME LocksTypeOK, NEW e \in Entries, NEW p \in Requests, ~InQueue(p, e)
  PROVE  LET s == queue[e]
             t == Append(s, p)
         IN  /\ t \in Seq(Users(e) \cup {p})
             /\ \A i, j \in 1..Len(t) : t[i] = t[j] => i = j
             /\ \A q \in Requests : (\E i \in 1..Len(t) : t[i] = q)
                                      <=> q = p \/ (\E i \in 1..Len(s) : s[i] = q)
             /\ s # <<>> => Head(t) = Head(s)
             /\ t # <<>>
<1> DEFINE s == queue[e]
           t == Append(s, p)
           S == Users(e) \cup {p}
<1>1. s \in Seq(S) /\ Len(s) \in Nat
  BY SeqMonotonic, LenProperties DEF LocksTypeOK
<1>2. /\ t \in Seq(S) /\ Len(t) = Len(s) + 1
      /\ \A i \in 1..Len(s) : t[i] = s[i]
      /\ t[Len(s) + 1] = p
  BY <1>1, AppendProperties
<1>3. \A i, j \in 1..Len(s) : s[i] = s[j] => i = j
  BY DEF LocksTypeOK
<1>4. \A i \in 1..Len(s) : s[i] # p
  BY DEF InQueue
<1>5. \A i, j \in 1..Len(t) : t[i] = t[j] => i = j
  BY <1>1, <1>2, <1>3, <1>4
<1>6. \A q \in Requests : (\E i \in 1..Len(t) : t[i] = q)
                            <=> q = p \/ (\E i \in 1..Len(s) : s[i] = q)
  BY <1>1, <1>2
<1>7. s # <<>> => Head(t) = Head(s)
  BY <1>1, <1>2, HeadTailAppend, EmptySeq
<1>8. t # <<>>
  <2>1. Len(t) # 0
    BY <1>1, <1>2
  <2> HIDE DEF t
  <2> QED
    BY <2>1, EmptySeq
<1> QED
  BY <1>2, <1>5, <1>6, <1>7, <1>8

\* A request that goes takes its place in the queue with it, and no other.
LEMMA Left ==
  ASSUME LocksTypeOK, NEW p \in Requests, entry[p] \in Entries,
         InQueue(p, entry[p])
  PROVE  LET s == queue[entry[p]]
             t == Dequeued(p)
         IN  /\ t \in Seq(Users(entry[p]) \ {p})
             /\ \A i, j \in 1..Len(t) : t[i] = t[j] => i = j
             /\ \A q \in Requests : q # p =>
                  ((\E i \in 1..Len(t) : t[i] = q) <=> (\E i \in 1..Len(s) : s[i] = q))
             /\ Head(s) # p => t # <<>> /\ Head(t) = Head(s)
<1> DEFINE s == queue[entry[p]]
           m == Len(s) - 1
           n == CHOOSE i \in 1..Len(s) : s[i] = p
           t == [i \in 1..m |-> s[IF i < n THEN i ELSE i + 1]]
<1>1. /\ s \in Seq(Users(entry[p])) /\ Len(s) \in Nat
      /\ \A i \in 1..Len(s) : s[i] \in Users(entry[p])
  BY LenProperties, ElementOfSeq DEF LocksTypeOK
<1>2. \A i, j \in 1..Len(s) : s[i] = s[j] => i = j
  BY DEF LocksTypeOK
<1>3. n \in 1..Len(s) /\ s[n] = p
  BY DEF InQueue
<1>4. t = Dequeued(p)
  BY DEF Dequeued
<1> HIDE DEF n
<1>5. m \in Nat
  BY <1>1, <1>3
<1>6. t \in [1..m -> Users(entry[p]) \ {p}]
  BY <1>1, <1>2, <1>3
<1>7. t \in Seq(Users(entry[p]) \ {p})
  BY <1>5, <1>6, SeqDef
<1>8. Len(t) = m
  <2>1. Len(t) \in Nat /\ DOMAIN t = 1..Len(t)
    BY <1>7, LenProperties
  <2>2. DOMAIN t = 1..m
    OBVIOUS
  <2> QED
    BY <2>1, <2>2, <1>5
<1>9. \A i \in 1..m : t[i] = s[IF i < n THEN i ELSE i + 1]
  OBVIOUS
<1> HIDE DEF t
<1>10. \A i, j \in 1..Len(t) : t[i] = t[j] => i = j
  BY <1>2, <1>3, <1>5, <1>8, <1>9
<1>11. ASSUME NEW q \in Requests, q # p
       PROVE  (\E i \in 1..Len(t) : t[i] = q) <=> (\E i \in 1..Len(s) : s[i] = q)
  <2>1. ASSUME NEW i \in 1..Len(t), t[i] = q
        PROVE  \E j \in 1..Len(s) : s[j] = q
    BY <2>1, <1>1, <1>3, <1>8, <1>9
  <2>2. ASSUME NEW j \in 1..Len(s), s[j] = q
        PROVE  \E i \in 1..Len(t) : t[i] = q
    <3>1. j # n
      BY <2>2, <1>3, <1>11
    <3>2. CASE j < n
      <4>1. j \in 1..m /\ t[j] = s[j]
        BY <3>2, <1>1, <1>3, <1>9
      <4> QED
        BY <4>1, <2>2, <1>8
    <3>3. CASE j > n
      <4>1. j - 1 \in 1..m /\ ~(j - 1 < n) /\ j - 1 + 1 = j
        BY <3>3, <1>1, <1>3
      <4>2. t[j - 1] = s[j]
        BY <4>1, <1>9
      <4> QED
        BY <4>1, <4>2, <2>2, <1>8
    <3> QED
      BY <3>1, <3>2, <3>3, <1>3
  <2> QED
    BY <2>1, <2>2
<1>12. Head(s) # p => t # <<>> /\ Head(t) = Head(s)
  <2> SUFFICES ASSUME Head(s) # p
               PROVE  t # <<>> /\ Head(t) = Head(s)
    OBVIOUS
  <2>1. s[1] # p
    BY <1>1, <1>3
  <2>2. 1 \in 1..m /\ 1 < n
    BY <2>1, <1>1, <1>3
  <2>3. t[1] = s[1]
    BY <2>2, <1>9
  <2>4. t # <<>>
    BY <2>2, <1>8
  <2> QED
    BY <2>3, <2>4, <1>1, <1>7
<1> QED
  BY <1>4, <1>7, <1>10, <1>11, <1>12

----------------------------------------------------------------------------
USE NoEntryAssumption, PoolBoundsAssumption

\* An empty pool, and nobody here.
LEMMA InitLocks == LocksInit => LocksInv
<1> SUFFICES ASSUME LocksInit PROVE LocksInv
  OBVIOUS
<1>1. Mapped = {}
  BY DEF LocksInit, Mapped
<1>2. LocksTypeOK
  <2>1. \A e \in Entries : queue[e] \in Seq(Users(e)) /\ Len(queue[e]) = 0
    BY EmptySeq DEF LocksInit
  <2> QED
    BY <2>1 DEF LocksInit, LocksTypeOK
<1>3. PoolInv
  BY <1>1, FS_EmptySet DEF PoolInv, LocksInit
<1> QED
  BY <1>2, <1>3 DEF LocksInit, LocksInv, EntryInv, QueueInv, ThreadInv, OnceInv

\* reserve gives a key its entry, or an unused one within the capacity.
LEMMA ArriveInv ==
  ASSUME LocksInv, NEW p \in Requests, NEW k \in Keys, Arrive(p, k)
  PROVE  LocksInv'
<1> USE DEF LocksInv
<1>1. PICK e \in Entries : /\ Enter(p, k, e)
                           /\ \/ pool[k] = e
                              \/ pool[k] = None /\ Room /\ e \in Unused
  BY DEF Arrive, LocksTypeOK, Unused
<1>2. pc[p] = "gone" /\ thread[p] = "none" /\ entry[p] = None /\ ~InQueue(p, e)
  <2>1. pc[p] = "gone" /\ thread[p] = "none" /\ entry[p] = None
    BY DEF Arrive, EntryInv
  <2>2. p \notin Users(e)
    BY <2>1 DEF Users
  <2> QED
    BY <2>1, <2>2, ElementOfSeq DEF LocksTypeOK, InQueue
<1>3. /\ \A q \in Requests : entry'[q] = IF q = p THEN e ELSE entry[q]
      /\ \A q \in Requests : pc'[q] = IF q = p THEN "queued" ELSE pc[q]
      /\ \A q \in Requests : key'[q] = IF q = p THEN k ELSE key[q]
      /\ \A j \in Keys : pool'[j] = IF j = k THEN e ELSE pool[j]
      /\ \A d \in Entries : queue'[d] = IF d = e THEN Append(queue[e], p) ELSE queue[d]
      /\ thread' = thread /\ cancels' = cancels
  BY <1>1 DEF Enter, LocksTypeOK
<1> DEFINE t == Append(queue[e], p)
<1>0. /\ t \in Seq(Users(e) \cup {p})
      /\ \A i, j \in 1..Len(t) : t[i] = t[j] => i = j
      /\ \A q \in Requests : (\E i \in 1..Len(t) : t[i] = q) <=> q = p \/ InQueue(q, e)
      /\ queue[e] # <<>> => Head(t) = Head(queue[e])
      /\ t # <<>> /\ queue'[e] = t
  BY <1>2, <1>3, Joined DEF InQueue
<1> HIDE DEF t
<1>4. LocksTypeOK'
  <2>1. \A d \in Entries : Users(d)' = IF d = e THEN Users(d) \cup {p} ELSE Users(d)
    BY <1>2, <1>3 DEF Users
  <2>2. \A d \in Entries :
          /\ queue'[d] \in Seq(Users(d)')
          /\ \A i, j \in 1..Len(queue'[d]) : queue'[d][i] = queue'[d][j] => i = j
    <3> TAKE d \in Entries
    <3>1. CASE d = e
      BY <3>1, <1>0, <2>1
    <3>2. CASE d # e
      <4>1. queue'[d] = queue[d] /\ Users(d)' = Users(d)
        BY <3>2, <1>3, <2>1
      <4> QED
        BY <4>1 DEF LocksTypeOK
    <3> QED
      BY <3>1, <3>2
  <2>3. /\ pool' \in [Keys -> Entries \cup {None}] /\ key' \in [Requests -> Keys \cup {None}]
        /\ entry' \in [Requests -> Entries \cup {None}] /\ DOMAIN queue' = Entries
        /\ pc' \in [Requests -> {"gone", "queued", "between", "draining"}]
    BY <1>1 DEF Enter, LocksTypeOK
  <2> QED
    BY <1>3, <2>2, <2>3 DEF LocksTypeOK
<1>5. EntryInv'
  BY <1>1, <1>2, <1>3 DEF EntryInv
<1>6. PoolInv'
  <2>1. \A j \in Keys : pool'[j] # None =>
          \E q \in Requests : pc'[q] # "gone" /\ key'[q] = j
    BY <1>2, <1>3 DEF PoolInv
  <2>2. \A j \in Keys : pool[j] = e => j = k
    BY <1>1 DEF PoolInv, Unused
  <2>3. \A j, l \in Keys : pool'[j] = pool'[l] /\ pool'[l] # None => j = l
    BY <1>3, <2>2 DEF PoolInv
  <2>4. Mapped' = Mapped \cup {k}
    BY <1>3 DEF Mapped
  <2>5. k \in Mapped \/ Cardinality(Mapped) + 1 <= MaxEntries
    BY <1>1, FS_CardinalityType DEF Mapped, Room, PoolInv
  <2>6. /\ IsFiniteSet(Mapped \cup {k})
        /\ Cardinality(Mapped \cup {k}) <= MaxEntries
    BY <2>5, FS_AddElement DEF PoolInv
  <2> QED
    BY <2>1, <2>3, <2>4, <2>6 DEF PoolInv
<1>7. \A q \in Requests, d \in Entries :
        InQueue(q, d)' <=> InQueue(q, d) \/ (q = p /\ d = e)
  BY <1>0, <1>2, <1>3 DEF InQueue
<1>8. QueueInv'
  BY <1>2, <1>3, <1>7 DEF QueueInv, EntryInv, LocksTypeOK
<1>9. \A q \in Requests : Holds(q) => Holds(q)'
  BY <1>0, <1>2, <1>3 DEF Holds, EntryInv, LocksTypeOK
<1>10. ThreadInv' /\ OnceInv'
  BY <1>2, <1>3, <1>9 DEF ThreadInv, OnceInv
<1> QED
  BY <1>4, <1>5, <1>6, <1>8, <1>10

\* put_part gives the lock away ...
LEMMA ReleaseInv ==
  ASSUME LocksInv, NEW p \in Requests, Release(p)
  PROVE  LocksInv'
<1> USE DEF LocksInv
<1> DEFINE e == entry[p]
           s == queue[e]
           t == Tail(s)
<1>1. /\ pc[p] = "queued" /\ thread[p] = "none" /\ e \in Entries
      /\ s # <<>> /\ Head(s) = p
  BY DEF Release, Holds, EntryInv, LocksTypeOK
<1>2. /\ \A q \in Requests : pc'[q] = IF q = p THEN "between" ELSE pc[q]
      /\ \A d \in Entries : queue'[d] = IF d = e THEN t ELSE queue[d]
      /\ pool' = pool /\ key' = key /\ entry' = entry
      /\ thread' = thread /\ cancels' = cancels
  BY <1>1 DEF Release, LocksTypeOK
<1>3. /\ s \in Seq(Users(e)) /\ Len(s) \in Nat \ {0} /\ s[1] = p
      /\ \A i, j \in 1..Len(s) : s[i] = s[j] => i = j
  BY <1>1, EmptySeq DEF LocksTypeOK
<1>4. /\ t \in Seq(Users(e)) /\ Len(t) = Len(s) - 1
      /\ \A i \in 1..Len(t) : t[i] = s[i + 1]
  BY <1>1, <1>3, HeadTailProperties
<1> HIDE DEF t
<1>5. \A i, j \in 1..Len(t) : t[i] = t[j] => i = j
  BY <1>3, <1>4
<1>6. \A q \in Requests :
        (\E i \in 1..Len(t) : t[i] = q) <=> q # p /\ \E i \in 1..Len(s) : s[i] = q
  <2> TAKE q \in Requests
  <2>1. ASSUME NEW i \in 1..Len(t), t[i] = q
        PROVE  q # p /\ \E j \in 1..Len(s) : s[j] = q
    BY <2>1, <1>3, <1>4
  <2>2. ASSUME NEW j \in 1..Len(s), s[j] = q, q # p
        PROVE  \E i \in 1..Len(t) : t[i] = q
    <3>1. j - 1 \in 1..Len(t) /\ j - 1 + 1 = j
      BY <2>2, <1>3, <1>4
    <3> QED
      BY <3>1, <2>2, <1>4
  <2> QED
    BY <2>1, <2>2
<1> HIDE DEF s
<1>7. LocksTypeOK'
  <2>1. \A d \in Entries : Users(d)' = Users(d)
    BY <1>2 DEF Users
  <2>2. ASSUME NEW d \in Entries
        PROVE  /\ queue'[d] \in Seq(Users(d)')
               /\ \A i, j \in 1..Len(queue'[d]) : queue'[d][i] = queue'[d][j] => i = j
    <3>1. CASE d = e
      BY SMTT(40), <3>1, <1>1, <1>2, <1>4, <1>5, <2>1
    <3>2. CASE d # e
      BY <3>2, <1>2, <2>1 DEF LocksTypeOK
    <3> QED
      BY <3>1, <3>2
  <2> QED
    BY <1>2, <2>2 DEF LocksTypeOK, Release
<1>8. EntryInv' /\ PoolInv'
  <2>1. Mapped' = Mapped
    BY <1>2 DEF Mapped
  <2> QED
    BY <1>1, <1>2, <2>1 DEF EntryInv, PoolInv
<1>9. \A q \in Requests, d \in Entries :
        InQueue(q, d)' <=> InQueue(q, d) /\ (q # p \/ d # e)
  BY <1>1, <1>2, <1>6 DEF InQueue, s
<1>10. QueueInv'
  BY <1>1, <1>2, <1>9 DEF QueueInv, EntryInv, LocksTypeOK
<1>11. \A q \in Requests : q # p /\ Holds(q) => Holds(q)'
  BY <1>1, <1>2 DEF Holds, s, EntryInv, LocksTypeOK
<1>12. ThreadInv' /\ OnceInv'
  BY <1>1, <1>2, <1>11 DEF ThreadInv, OnceInv
<1> QED
  BY <1>7, <1>8, <1>10, <1>12

\* ... and takes it again.
LEMMA HoldAgainInv ==
  ASSUME LocksInv, NEW p \in Requests, HoldAgain(p)
  PROVE  LocksInv'
<1> USE DEF LocksInv
<1> DEFINE e == entry[p]
           t == Append(queue[e], p)
<1>1. pc[p] = "between" /\ e \in Entries /\ p \in Users(e) /\ ~InQueue(p, e)
  BY DEF HoldAgain, EntryInv, QueueInv, LocksTypeOK, Users
<1>2. /\ \A q \in Requests : pc'[q] = IF q = p THEN "queued" ELSE pc[q]
      /\ \A d \in Entries : queue'[d] = IF d = e THEN t ELSE queue[d]
      /\ pool' = pool /\ key' = key /\ entry' = entry
      /\ thread' = thread /\ cancels' = cancels
  BY <1>1 DEF HoldAgain, LocksTypeOK
<1>3. /\ t \in Seq(Users(e) \cup {p})
      /\ \A i, j \in 1..Len(t) : t[i] = t[j] => i = j
      /\ \A q \in Requests : (\E i \in 1..Len(t) : t[i] = q) <=> q = p \/ InQueue(q, e)
      /\ queue[e] # <<>> => Head(t) = Head(queue[e])
      /\ t # <<>>
  BY <1>1, Joined DEF InQueue
<1> HIDE DEF t
<1>4. LocksTypeOK'
  <2>1. /\ \A d \in Entries : Users(d)' = Users(d)
        /\ Users(e) \cup {p} = Users(e)
    BY <1>1, <1>2 DEF Users
  <2>2. ASSUME NEW d \in Entries
        PROVE  /\ queue'[d] \in Seq(Users(d)')
               /\ \A i, j \in 1..Len(queue'[d]) : queue'[d][i] = queue'[d][j] => i = j
    <3>1. CASE d = e
      BY <3>1, <1>1, <1>2, <1>3, <2>1
    <3>2. CASE d # e
      BY <3>2, <1>2, <2>1 DEF LocksTypeOK
    <3> QED
      BY <3>1, <3>2
  <2> QED
    BY <1>2, <2>2 DEF LocksTypeOK, HoldAgain
<1>5. EntryInv' /\ PoolInv'
  <2>1. Mapped' = Mapped
    BY <1>2 DEF Mapped
  <2> QED
    BY <1>1, <1>2, <2>1 DEF EntryInv, PoolInv
<1>6. \A q \in Requests, d \in Entries :
        InQueue(q, d)' <=> InQueue(q, d) \/ (q = p /\ d = e)
  BY <1>1, <1>2, <1>3 DEF InQueue
<1>7. QueueInv'
  BY <1>1, <1>2, <1>6 DEF QueueInv, EntryInv, LocksTypeOK
<1>8. \A q \in Requests : Holds(q) => Holds(q)'
  BY <1>1, <1>2, <1>3 DEF Holds, EntryInv, LocksTypeOK
<1>9. ThreadInv' /\ OnceInv'
  BY <1>1, <1>2, <1>8 DEF ThreadInv, OnceInv
<1> QED
  BY <1>4, <1>5, <1>7, <1>9

\* A request that goes gives up its place and, as the last user, the entry.
LEMMA GoInv ==
  ASSUME LocksInv, NEW p \in Requests, Go(p), pc[p] \in {"queued", "draining"},
         cancels' = [cancels EXCEPT ![p] = 0],
         \/ Holds(p) /\ thread' = [thread EXCEPT ![p] = "none"]
         \/ ~Holds(p) /\ thread' = thread
         \/ Holds(p) /\ thread' = thread /\ thread[p] = "running" /\ ~(MaxCancels <= 1)
  PROVE  LocksInv'
<1> USE DEF LocksInv
<1> DEFINE e == entry[p]
           t == Dequeued(p)
<1>1. e \in Entries /\ p \in Users(e) /\ InQueue(p, e) /\ key[p] \in Keys
      /\ pool[key[p]] = e
  BY DEF EntryInv, QueueInv, LocksTypeOK, Users
<1>2. /\ \A q \in Requests : pc'[q] = IF q = p THEN "gone" ELSE pc[q]
      /\ \A q \in Requests : entry'[q] = IF q = p THEN None ELSE entry[q]
      /\ \A d \in Entries : queue'[d] = IF d = e THEN t ELSE queue[d]
      /\ \A k \in Keys :
           pool'[k] = IF k = key[p] /\ Users(e) = {p} THEN None ELSE pool[k]
      /\ \A q \in Requests : q # p => thread'[q] = thread[q] /\ cancels'[q] = cancels[q]
      /\ key' = key
  BY <1>1 DEF Go, Deletable, LocksTypeOK
<1>3. /\ t \in Seq(Users(e) \ {p})
      /\ \A i, j \in 1..Len(t) : t[i] = t[j] => i = j
      /\ \A q \in Requests : q # p => ((\E i \in 1..Len(t) : t[i] = q) <=> InQueue(q, e))
      /\ Head(queue[e]) # p => t # <<>> /\ Head(t) = Head(queue[e])
  BY <1>1, Left DEF InQueue
<1> HIDE DEF t
<1>4. LocksTypeOK'
  <2>1. \A d \in Entries : Users(d)' = IF d = e THEN Users(d) \ {p} ELSE Users(d)
    BY <1>1, <1>2 DEF Users
  <2>2. ASSUME NEW d \in Entries
        PROVE  /\ queue'[d] \in Seq(Users(d)')
               /\ \A i, j \in 1..Len(queue'[d]) : queue'[d][i] = queue'[d][j] => i = j
    <3>1. CASE d = e
      BY <3>1, <1>1, <1>2, <1>3, <2>1
    <3>2. CASE d # e
      BY <3>2, <1>2, <2>1 DEF LocksTypeOK
    <3> QED
      BY <3>1, <3>2
  <2>3. thread' \in [Requests -> {"none", "running", "done"}]
    BY DEF LocksTypeOK
  <2>4. cancels' \in [Requests -> 0..MaxCancels]
    BY DEF LocksTypeOK
  <2> QED
    BY <2>2, <2>3, <2>4 DEF LocksTypeOK, Go
<1>5. EntryInv'
  <2>1. ASSUME NEW q \in Requests, q # p, pc[q] # "gone"
        PROVE  pool'[key[q]] = entry[q]
    <3>1. key[q] \in Keys /\ pool[key[q]] = entry[q]
      BY <2>1 DEF EntryInv
    <3>2. key[q] = key[p] => Users(e) # {p}
      BY <3>1, <1>1, <2>1 DEF Users
    <3> QED
      BY <3>1, <3>2, <1>2
  <2> QED
    BY <1>2, <2>1 DEF EntryInv, LocksTypeOK
<1>6. PoolInv'
  <2>1. \A k \in Keys : pool'[k] # None =>
          \E q \in Requests : pc'[q] # "gone" /\ key'[q] = k
    <3> SUFFICES ASSUME NEW k \in Keys, pool'[k] # None
                 PROVE  \E q \in Requests : pc'[q] # "gone" /\ key'[q] = k
      OBVIOUS
    <3>1. CASE k = key[p]
      <4>1. PICK q \in Requests : q # p /\ entry[q] = e
        BY <3>1, <1>1, <1>2 DEF Users
      <4>2. pc[q] # "gone" /\ pool[key[q]] = e /\ key[q] \in Keys
        BY <4>1, <1>1 DEF EntryInv
      <4>3. key[q] = k
        BY <4>2, <3>1, <1>1 DEF PoolInv
      <4> QED
        BY <4>1, <4>2, <4>3, <1>2
    <3>2. CASE k # key[p]
      BY <3>2, <1>2 DEF PoolInv
    <3> QED
      BY <3>1, <3>2
  <2>2. \A j, k \in Keys : pool'[j] = pool'[k] /\ pool'[k] # None => j = k
    BY <1>2 DEF PoolInv
  <2>3. Mapped' = IF Users(e) = {p} THEN Mapped \ {key[p]} ELSE Mapped
    BY <1>1, <1>2 DEF Mapped
  <2>4. /\ IsFiniteSet(Mapped \ {key[p]})
        /\ Cardinality(Mapped \ {key[p]}) <= MaxEntries
    <3>1. IsFiniteSet(Mapped) /\ Cardinality(Mapped) \in Nat
      BY FS_CardinalityType DEF PoolInv
    <3>2. /\ IsFiniteSet(Mapped \ {key[p]})
          /\ Cardinality(Mapped \ {key[p]}) <= Cardinality(Mapped)
      BY <3>1, FS_Subset
    <3>3. Cardinality(Mapped \ {key[p]}) \in Nat
      BY <3>2, FS_CardinalityType
    <3> QED
      BY <3>1, <3>2, <3>3, PoolBoundsAssumption DEF PoolInv
  <2> QED
    BY <2>1, <2>2, <2>3, <2>4 DEF PoolInv
<1>7. \A q \in Requests, d \in Entries : q # p => (InQueue(q, d)' <=> InQueue(q, d))
  BY SMTT(40), <1>1, <1>2, <1>3 DEF InQueue
<1>8. QueueInv'
  BY <1>1, <1>2, <1>7 DEF QueueInv, EntryInv, LocksTypeOK
<1>9. \A q \in Requests : q # p /\ Holds(q) => Holds(q)'
  <2> SUFFICES ASSUME NEW q \in Requests, q # p, Holds(q)
               PROVE  Holds(q)'
    OBVIOUS
  <2>1. /\ entry[q] \in Entries /\ entry'[q] = entry[q] /\ pc'[q] = pc[q]
        /\ pc[q] \in {"queued", "draining"}
        /\ queue[entry[q]] # <<>> /\ Head(queue[entry[q]]) = q
    BY <1>2 DEF Holds, EntryInv, LocksTypeOK
  <2>2. queue'[entry[q]] # <<>> /\ Head(queue'[entry[q]]) = q
    BY <1>2, <1>3, <2>1
  <2> QED
    BY <2>1, <2>2 DEF Holds
<1>10. ThreadInv' /\ OnceInv'
  BY <1>2, <1>9 DEF ThreadInv, OnceInv, LocksTypeOK
<1> QED
  BY <1>4, <1>5, <1>6, <1>8, <1>10

\* Steps that only start or end a thread, or make its request wait for it.
LEMMA ThreadStepInv ==
  ASSUME LocksInv, NEW p \in Requests,
         StartThread(p) \/ ThreadEnds(p) \/ CancelRunning(p)
  PROVE  LocksInv'
<1> USE DEF LocksInv
<1>1. /\ pool' = pool /\ key' = key /\ entry' = entry /\ queue' = queue
      /\ \A q \in Requests : q # p =>
           pc'[q] = pc[q] /\ thread'[q] = thread[q] /\ cancels'[q] = cancels[q]
      /\ pc' \in [Requests -> {"gone", "queued", "between", "draining"}]
      /\ thread' \in [Requests -> {"none", "running", "done"}]
      /\ cancels' \in [Requests -> 0..MaxCancels]
  <2>1. CASE StartThread(p)
    BY <2>1 DEF StartThread, LocksTypeOK
  <2>2. CASE ThreadEnds(p)
    BY <2>2 DEF ThreadEnds, LocksTypeOK
  <2>3. CASE CancelRunning(p)
    <3>1. cancels[p] + 1 \in 0..MaxCancels
      BY <2>3 DEF CancelRunning, Cancelled, LocksTypeOK
    <3> QED
      BY <2>3, <3>1 DEF CancelRunning, Cancelled, LocksTypeOK
  <2> QED
    BY <2>1, <2>2, <2>3
<1>2. /\ pc'[p] = "gone" <=> pc[p] = "gone"
      /\ pc'[p] \in {"queued", "draining"} <=> pc[p] \in {"queued", "draining"}
      /\ pc'[p] = "draining" => cancels'[p] > 0
      /\ thread'[p] # "none" => thread[p] # "none" \/ Holds(p)
      /\ thread'[p] # "none" /\ pc'[p] = "gone" => thread[p] # "none"
      /\ thread'[p] = "done" => thread[p] = "done" \/ pc'[p] # "gone"
  BY DEF StartThread, ThreadEnds, CancelRunning, Cancelled, LocksTypeOK, ThreadInv
<1>3. LocksTypeOK'
  <2>1. \A d \in Entries : Users(d)' = Users(d)
    BY <1>1 DEF Users
  <2> QED
    BY <1>1, <2>1 DEF LocksTypeOK
<1>4. EntryInv' /\ PoolInv'
  <2>1. Mapped' = Mapped
    BY <1>1 DEF Mapped
  <2> QED
    BY <1>1, <1>2, <2>1 DEF EntryInv, PoolInv
<1>5. QueueInv'
  BY <1>1, <1>2 DEF QueueInv, InQueue
<1>6. \A q \in Requests : Holds(q) => Holds(q)'
  BY <1>1, <1>2 DEF Holds
<1>7. ThreadInv' /\ OnceInv'
  BY <1>1, <1>2, <1>6 DEF ThreadInv, OnceInv
<1> QED
  BY <1>3, <1>4, <1>5, <1>7

\* Leaving and being cancelled are ways to go, with or without the lock.
LEMMA LeaveInv ==
  ASSUME LocksInv, NEW p \in Requests,
         Leave(p) \/ CancelWaiting(p) \/ CancelDraining(p)
  PROVE  LocksInv'
<1>1. /\ Go(p) /\ pc[p] \in {"queued", "draining"}
      /\ cancels' = [cancels EXCEPT ![p] = 0]
  BY DEF Leave, Holds, CancelWaiting, CancelDraining
<1>2. CASE Leave(p)
  BY <1>1, <1>2, GoInv DEF Leave
<1>3. CASE CancelWaiting(p)
  BY <1>1, <1>3, GoInv DEF CancelWaiting
<1>4. CASE CancelDraining(p)
  <2>1. Holds(p) /\ ~(MaxCancels <= 1)
    BY <1>4 DEF CancelDraining, LocksInv, ThreadInv, LocksTypeOK
  <2> QED
    BY <1>1, <1>4, <2>1, GoInv DEF CancelDraining
<1> QED
  BY <1>2, <1>3, <1>4

\* Every step of a request preserves the invariant.
LEMMA LocksStep == LocksInv /\ [LocksNext]_locks => LocksInv'
<1> SUFFICES ASSUME LocksInv, [LocksNext]_locks PROVE LocksInv'
  OBVIOUS
<1>1. ASSUME NEW p \in Requests, NEW k \in Keys, Arrive(p, k) PROVE LocksInv'
  BY <1>1, ArriveInv
<1>2. ASSUME NEW p \in Requests, Release(p) PROVE LocksInv'
  BY <1>2, ReleaseInv
<1>3. ASSUME NEW p \in Requests, HoldAgain(p) PROVE LocksInv'
  BY <1>3, HoldAgainInv
<1>4. ASSUME NEW p \in Requests, StartThread(p) \/ ThreadEnds(p) \/ CancelRunning(p)
      PROVE  LocksInv'
  BY <1>4, ThreadStepInv
<1>5. ASSUME NEW p \in Requests, Leave(p) \/ CancelWaiting(p) \/ CancelDraining(p)
      PROVE  LocksInv'
  BY <1>5, LeaveInv
<1>6. CASE UNCHANGED locks
  <2>1. /\ \A e \in Entries : Users(e)' = Users(e)
        /\ Mapped' = Mapped
        /\ \A p \in Requests : Holds(p)' <=> Holds(p)
    BY <1>6 DEF locks, Users, Mapped, Holds
  <2>2. LocksTypeOK' /\ EntryInv' /\ PoolInv'
    BY <1>6, <2>1 DEF locks, LocksInv, LocksTypeOK, EntryInv, PoolInv
  <2>3. QueueInv' /\ ThreadInv' /\ OnceInv'
    BY <1>6, <2>1 DEF locks, LocksInv, QueueInv, InQueue, ThreadInv, OnceInv
  <2> QED
    BY <2>2, <2>3 DEF LocksInv
<1> QED
  BY <1>1, <1>2, <1>3, <1>4, <1>5, <1>6 DEF LocksNext, CancelOnce

LEMMA LocksInvariant == LocksSpec => []LocksInv
<1>1. LocksInit => LocksInv
  BY InitLocks
<1>2. LocksInv /\ [LocksNext]_locks => LocksInv'
  BY LocksStep
<1> QED
  BY <1>1, <1>2, PTL DEF LocksSpec

----------------------------------------------------------------------------
\* The lock of a key is held by at most one request.
LEMMA OneHolder ==
  ASSUME LocksInv, NEW p \in Requests, NEW q \in Requests,
         Holds(p), Holds(q), key[p] = key[q]
  PROVE  p = q
<1>1. entry[p] = entry[q]
  BY DEF LocksInv, EntryInv, Holds
<1> QED
  BY <1>1 DEF Holds

LEMMA ExactWhenInv == LocksInv => PoolExact
<1> SUFFICES ASSUME LocksInv PROVE PoolExact
  OBVIOUS
<1>1. ASSUME NEW k \in Mapped
      PROVE  k \in {key[p] : p \in {q \in Requests : pc[q] # "gone"}}
  BY <1>1 DEF Mapped, LocksInv, PoolInv
<1>2. ASSUME NEW p \in Requests, pc[p] # "gone"
      PROVE  key[p] \in Mapped
  BY <1>2 DEF Mapped, LocksInv, EntryInv
<1> QED
  BY <1>1, <1>2 DEF PoolExact, LocksInv, PoolInv

LEMMA ExclusiveWhenInv == LocksInv /\ MaxCancels <= 1 => KeyExclusive
<1> SUFFICES ASSUME LocksInv, MaxCancels <= 1 PROVE KeyExclusive
  OBVIOUS
<1>1. \A p \in Requests : Inside(p) => Holds(p)
  BY DEF Inside, LocksInv, ThreadInv, OnceInv
<1> QED
  BY <1>1, OneHolder DEF KeyExclusive

\* The variables of the pool keep their types and nobody waits twice, however
\* requests arrive, leave and are cancelled (_KeyedLockPool).
THEOREM LocksTypeCorrect == LocksSpec => []LocksTypeOK
BY LocksInvariant, PTL DEF LocksInv

\* The pool holds exactly the keys in use, within its capacity, for every
\* capacity and every number of cancellations (reserve).
THEOREM PoolIsExact == LocksSpec => []PoolExact
BY LocksInvariant, ExactWhenInv, PTL

\* As long as no request is cancelled twice, nobody works under a key while
\* another request, or the thread of one that is gone, does (run).
THEOREM KeysExclude ==
  ASSUME MaxCancels <= 1
  PROVE  LocksSpec => []KeyExclusive
<1>1. LocksInv => KeyExclusive
  BY ExclusiveWhenInv
<1> QED
  BY <1>1, LocksInvariant, PTL
=============================================================================
