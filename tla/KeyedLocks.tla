----------------------------- MODULE KeyedLocks -----------------------------
(***************************************************************************)
(* The per-key locks of src/app/main.py (_KeyedLockPool): at most          *)
(* MaxEntries keys have a lock at a time, a lock exists while a request    *)
(* uses it, and an operation run under it is a worker thread.              *)
(*                                                                         *)
(* Everything but the threads is on the event loop, so what lies between   *)
(* two awaits is one action.  An asyncio.Lock is handed on in the order of *)
(* its waiters: its holder is the head of the queue.                       *)
(***************************************************************************)
EXTENDS Integers, Sequences, FiniteSets

CONSTANTS Requests,    \* requests; one that is gone may come again
          Keys,        \* upload ids and client request ids
          Entries,     \* _LockEntry objects
          MaxEntries,  \* max_entries of the pool
          MaxCancels,  \* bound: cancellations of one request
          None         \* no entry

ASSUME NoEntryAssumption == None \notin Entries
ASSUME PoolBoundsAssumption == MaxEntries \in Nat \ {0} /\ MaxCancels \in Nat

VARIABLES
  pool,    \* _entries
  key,     \* key of a request, or of the thread it left behind
  entry,   \* entry of a request, which counts as one of its users
  queue,   \* holder and waiters of an entry's lock
  pc,      \* "gone", "queued" (or holding), "between" two holds, "draining"
  thread,  \* operation of a request: "none", "running", "done"
  cancels  \* how often a request was cancelled

locks == <<pool, key, entry, queue, pc, thread, cancels>>

LocksInit ==
  /\ pool = [k \in Keys |-> None]
  /\ key = [p \in Requests |-> None]
  /\ entry = [p \in Requests |-> None]
  /\ queue = [e \in Entries |-> <<>>]
  /\ pc = [p \in Requests |-> "gone"]
  /\ thread = [p \in Requests |-> "none"]
  /\ cancels = [p \in Requests |-> 0]

Users(e) == {p \in Requests : entry[p] = e}
Mapped   == {k \in Keys : pool[k] # None}
Unused   == {e \in Entries : Users(e) = {} /\ \A k \in Keys : pool[k] # e}
Holds(p) == /\ pc[p] \in {"queued", "draining"}
            /\ queue[entry[p]] # <<>> /\ Head(queue[entry[p]]) = p

----------------------------------------------------------------------------
(* reserve and hold.  X_Y before X: X with a plausible bug.                *)

\* reserve, and the first hold right after it
Enter(p, k, e) ==
  /\ pool' = [pool EXCEPT ![k] = e]
  /\ key' = [key EXCEPT ![p] = k] /\ entry' = [entry EXCEPT ![p] = e]
  /\ queue' = [queue EXCEPT ![e] = Append(@, p)]
  /\ pc' = [pc EXCEPT ![p] = "queued"]
  /\ UNCHANGED <<thread, cancels>>

\* A key without a lock gets one, unless the pool is full and refuses it.
Room == Cardinality(Mapped) < MaxEntries

Arrive(p, k) ==
  /\ pc[p] = "gone" /\ thread[p] = "none"
  /\ \/ pool[k] # None /\ Enter(p, k, pool[k])
     \/ pool[k] = None /\ Room /\ \E e \in Unused : Enter(p, k, e)

\* put_part gives the lock away while it receives the body ...
Release(p) ==
  /\ Holds(p) /\ pc[p] = "queued" /\ thread[p] = "none"
  /\ queue' = [queue EXCEPT ![entry[p]] = Tail(@)]
  /\ pc' = [pc EXCEPT ![p] = "between"]
  /\ UNCHANGED <<pool, key, entry, thread, cancels>>

\* ... and takes it again with the same lease, also when it was cancelled.
HoldAgain(p) ==
  /\ pc[p] = "between"
  /\ queue' = [queue EXCEPT ![entry[p]] = Append(@, p)]
  /\ pc' = [pc EXCEPT ![p] = "queued"]
  /\ UNCHANGED <<pool, key, entry, thread, cancels>>

\* run starts the operation in a thread, which ends by itself.
StartThread(p) ==
  /\ Holds(p) /\ pc[p] = "queued" /\ thread[p] = "none"
  /\ thread' = [thread EXCEPT ![p] = "running"]
  /\ UNCHANGED <<pool, key, entry, queue, pc, cancels>>

ThreadEnds(p) ==
  /\ thread[p] = "running"
  /\ thread' = [thread EXCEPT ![p] = IF pc[p] = "gone" THEN "none" ELSE "done"]
  /\ UNCHANGED <<pool, key, entry, queue, pc, cancels>>

\* The request goes: its place in the queue first, then its use of the entry.
Deletable_InUse(p) == pool[key[p]] = entry[p]
Deletable_Never(p) == FALSE
Deletable(p) == Users(entry[p]) = {p} /\ pool[key[p]] = entry[p]

Dequeued_HolderOnly(p) == IF Holds(p) THEN Tail(queue[entry[p]]) ELSE queue[entry[p]]
Dequeued(p) ==
  LET waiting == queue[entry[p]]
      n == CHOOSE i \in 1..Len(waiting) : waiting[i] = p
  IN  [i \in 1..(Len(waiting) - 1) |-> waiting[IF i < n THEN i ELSE i + 1]]

Go(p) ==
  /\ queue' = [queue EXCEPT ![entry[p]] = Dequeued(p)]
  /\ entry' = [entry EXCEPT ![p] = None] /\ pc' = [pc EXCEPT ![p] = "gone"]
  /\ pool' = IF Deletable(p) THEN [pool EXCEPT ![key[p]] = None] ELSE pool
  /\ UNCHANGED key

\* Its sections are over, or its thread is.
Leave(p) ==
  /\ Holds(p) /\ thread[p] # "running" /\ Go(p)
  /\ thread' = [thread EXCEPT ![p] = "none"]
  /\ cancels' = [cancels EXCEPT ![p] = 0]

----------------------------------------------------------------------------
(* Cancellation of the request's task.                                     *)

Cancelled(p) == /\ cancels[p] < MaxCancels
                /\ cancels' = [cancels EXCEPT ![p] = @ + 1]

CancelWaiting(p) ==
  /\ pc[p] = "queued" /\ ~Holds(p) /\ cancels[p] < MaxCancels /\ Go(p)
  /\ cancels' = [cancels EXCEPT ![p] = 0] /\ UNCHANGED thread

\* The shielded operation goes on, and run waits for it ...
CancelRunning(p) ==
  /\ pc[p] = "queued" /\ thread[p] = "running" /\ Cancelled(p)
  /\ pc' = [pc EXCEPT ![p] = "draining"]
  /\ UNCHANGED <<pool, key, entry, queue, thread>>

\* ... until the next cancellation, which goes to the operation's task: the
\* lock is given away, the thread cannot be stopped.
CancelDraining(p) ==
  /\ pc[p] = "draining" /\ thread[p] = "running" /\ cancels[p] < MaxCancels
  /\ Go(p) /\ cancels' = [cancels EXCEPT ![p] = 0] /\ UNCHANGED thread

CancelOnce(p) == CancelWaiting(p) \/ CancelRunning(p)

----------------------------------------------------------------------------
LocksNext == \E p \in Requests :
  \/ (\E k \in Keys : Arrive(p, k)) \/ Release(p) \/ HoldAgain(p)
  \/ StartThread(p) \/ ThreadEnds(p) \/ Leave(p)
  \/ CancelOnce(p) \/ CancelDraining(p)

LocksSpec == LocksInit /\ [][LocksNext]_locks

\* Types; nobody waits twice.
LocksTypeOK ==
  /\ pool \in [Keys -> Entries \cup {None}]
  /\ key \in [Requests -> Keys \cup {None}]
  /\ entry \in [Requests -> Entries \cup {None}]
  /\ DOMAIN queue = Entries
  /\ \A e \in Entries :
       /\ queue[e] \in Seq(Users(e))
       /\ \A i, j \in 1..Len(queue[e]) : queue[e][i] = queue[e][j] => i = j
  /\ pc \in [Requests -> {"gone", "queued", "between", "draining"}]
  /\ thread \in [Requests -> {"none", "running", "done"}]
  /\ cancels \in [Requests -> 0..MaxCancels]

----------------------------------------------------------------------------
(* Properties.                                                             *)

\* Work under a key: a section of the request, or its thread.
Inside(p) == Holds(p) \/ thread[p] = "running"

\* Two requests never work under the same key at once, whatever leaves, is
\* cancelled or arrives while the entry of the key is given up (_KeyedLockPool).
KeyExclusive ==
  \A p, q \in Requests : Inside(p) /\ Inside(q) /\ key[p] = key[q] => p = q

\* The pool holds the keys in use and no other, so that it never refuses a
\* key it holds nor fills up with keys nobody uses (reserve).
PoolExact ==
  /\ Mapped = {key[p] : p \in {q \in Requests : pc[q] # "gone"}}
  /\ Cardinality(Mapped) <= MaxEntries
=============================================================================
