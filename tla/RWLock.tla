------------------------------- MODULE RWLock -------------------------------
(***************************************************************************)
(* The reader-writer lock of src/alos/linux/fm_alos_rwlock.c: a mutex, the *)
(* accessHandle, around the counters, one semaphore on which the pending   *)
(* readers wait and one for the pending writers.  The releasing thread     *)
(* counts the thread it admits as active and posts its semaphore; a writer *)
(* is posted after accessHandle was given up, and which of those that wait *)
(* takes the post is up to the semaphore.                                  *)
(*                                                                         *)
(* A function is one step from TAKE_ACCESS to GIVE_ACCESS.  An entry of    *)
(* the userList is known by its thread; the lock's precedence, whose       *)
(* violations are only logged, is left out.                                *)
(***************************************************************************)
EXTENDS Integers, FiniteSets

CONSTANTS Threads,
          MaxThreads, \* FM_MAX_THREADS, the entries of the userList
          MaxNest,    \* bound: how often a thread captures before it releases
          Upgrades    \* may a thread that reads capture for writing, and one
                      \* that writes and reads release the writing first?

ASSUME ThreadsAssumption == IsFiniteSet(Threads)
ASSUME MaxThreadsAssumption == MaxThreads \in Nat
ASSUME MaxNestAssumption == MaxNest \in Nat \ {0}
ASSUME UpgradesAssumption == Upgrades \in BOOLEAN

VARIABLES
  numReaders, numWriters,               \* of each thread's entry
  numActiveReaders, numActiveWriters,
  numPendingReaders, numPendingWriters,
  promoted,      \* readerToBePromoted: the threads whose bit is set
  nonZero,       \* and its nonZeroBitCount
  readHandle, writeHandle,              \* the values of the semaphores
  used,          \* the threads that have an entry in the userList
  pc,            \* where each thread is
  copy           \* what it has read of readerToBePromoted without the mutex

vars == <<numReaders, numWriters, numActiveReaders, numActiveWriters,
          numPendingReaders, numPendingWriters, promoted, nonZero,
          readHandle, writeHandle, used, pc, copy>>

active  == <<numActiveReaders, numActiveWriters>>
pending == <<numPendingReaders, numPendingWriters>>
bits    == <<promoted, nonZero>>
handles == <<readHandle, writeHandle>>

TypeOK ==
  /\ numReaders \in [Threads -> Nat] /\ numWriters \in [Threads -> Nat]
  /\ numActiveReaders \in Nat /\ numActiveWriters \in Nat
  /\ numPendingReaders \in Nat /\ numPendingWriters \in Nat
  /\ readHandle \in Nat /\ writeHandle \in Nat
  /\ promoted \subseteq Threads /\ nonZero \in Int
  /\ used \subseteq Threads
  /\ pc \in [Threads -> {"caller", "waitRead", "waitWrite", "clear", "post"}]
  /\ copy \in [Threads -> [bits : SUBSET Threads, count : Int]]

NoCopy == [bits |-> {}, count |-> 0]

Init ==
  /\ numReaders = [t \in Threads |-> 0] /\ numWriters = [t \in Threads |-> 0]
  /\ numActiveReaders = 0 /\ numActiveWriters = 0
  /\ numPendingReaders = 0 /\ numPendingWriters = 0
  /\ promoted = {} /\ nonZero = 0
  /\ readHandle = 0 /\ writeHandle = 0
  /\ used = {}
  /\ pc = [t \in Threads |-> "caller"]
  /\ copy = [t \in Threads |-> NoCopy]

Goto(t, label) == pc' = [pc EXCEPT ![t] = label]
Inc(f, t) == [f EXCEPT ![t] = @ + 1]
Dec(f, t) == [f EXCEPT ![t] = @ - 1]

\* The callers: how deep a thread nests, and which calls it makes.
MayCapture(t) == pc[t] = "caller" /\ numReaders[t] + numWriters[t] < MaxNest
HasEntry(t) == t \in used
CanAdd(t) == Cardinality(used) < MaxThreads
-----------------------------------------------------------------------------
(* fmCaptureReadLock *)

CaptureReadAgain(t) ==
  /\ MayCapture(t) /\ HasEntry(t)
  /\ numActiveReaders' = IF numReaders[t] = 0 THEN numActiveReaders + 1
                                              ELSE numActiveReaders
  /\ numReaders' = Inc(numReaders, t)
  /\ UNCHANGED <<numWriters, numActiveWriters, pending, bits, handles, used, pc, copy>>

BecomesReader(t) ==
  /\ MayCapture(t) /\ ~HasEntry(t) /\ CanAdd(t)
  /\ used' = used \cup {t}
  /\ numReaders' = Inc(numReaders, t)
  /\ numActiveReaders' = numActiveReaders + 1
  /\ UNCHANGED <<numWriters, numActiveWriters, pending, bits, handles, pc, copy>>

\* Mutant: the writers that wait are forgotten.
CaptureReadBarges(t) == numActiveWriters = 0 /\ BecomesReader(t)

\* Mutant: the writers that are active are forgotten.
CaptureReadAnyway(t) == numPendingWriters = 0 /\ BecomesReader(t)

CaptureReadFree(t) ==
  numPendingWriters = 0 /\ numActiveWriters = 0 /\ BecomesReader(t)

CaptureReadBlocks(t) ==
  /\ MayCapture(t) /\ ~HasEntry(t) /\ CanAdd(t)
  /\ numPendingWriters # 0 \/ numActiveWriters # 0
  /\ used' = used \cup {t}
  /\ numPendingReaders' = numPendingReaders + 1
  /\ Goto(t, "waitRead")
  /\ UNCHANGED <<numReaders, numWriters, active, numPendingWriters, bits, handles, copy>>

\* sem_wait returns; the count of the entry goes up without the mutex.
WakeReader(t) ==
  /\ pc[t] = "waitRead" /\ readHandle > 0
  /\ readHandle' = readHandle - 1
  /\ numReaders' = Inc(numReaders, t)
  /\ Goto(t, "caller")
  /\ UNCHANGED <<numWriters, active, pending, bits, writeHandle, used, copy>>
-----------------------------------------------------------------------------
(* fmCaptureWriteLock *)

CaptureWriteAgain(t) ==
  /\ MayCapture(t) /\ numWriters[t] > 0
  /\ numWriters' = Inc(numWriters, t)
  /\ UNCHANGED <<numReaders, active, pending, bits, handles, used, pc, copy>>

\* A reader sets its bit first; it is alone if it is the only active reader.
IsReader(t) == HasEntry(t) /\ numWriters[t] = 0
BitSet(t) == IF IsReader(t) THEN promoted \cup {t} ELSE promoted
CountSet(t) == IF IsReader(t) /\ t \notin promoted THEN nonZero + 1 ELSE nonZero
MayWrite(t) == /\ MayCapture(t) /\ numWriters[t] = 0
               /\ IF HasEntry(t) THEN Upgrades ELSE CanAdd(t)

\* Active, at once: nobody holds the lock, or it is the only reader, or every
\* active reader waits to be promoted.
WriteIsFree(t) == /\ numActiveWriters = 0
                  /\ \/ numActiveReaders = 0
                     \/ IsReader(t) /\ numActiveReaders = 1
                     \/ numActiveReaders = CountSet(t)

CaptureWriteFree(t) ==
  /\ MayWrite(t) /\ WriteIsFree(t)
  /\ used' = used \cup {t}
  /\ promoted' = promoted \ {t}
  /\ nonZero' = IF t \in BitSet(t) THEN CountSet(t) - 1 ELSE CountSet(t)
  /\ numActiveWriters' = numActiveWriters + 1
  /\ numWriters' = Inc(numWriters, t)
  /\ UNCHANGED <<numReaders, numActiveReaders, pending, handles, pc, copy>>

CaptureWriteBlocks(t) ==
  /\ MayWrite(t) /\ ~WriteIsFree(t)
  /\ used' = used \cup {t}
  /\ promoted' = BitSet(t)
  /\ nonZero' = CountSet(t)
  /\ numPendingWriters' = numPendingWriters + 1
  /\ Goto(t, "waitWrite")
  /\ UNCHANGED <<numReaders, numWriters, active, numPendingReaders, handles, copy>>

\* sem_wait returns; without the mutex the count goes up and fmSetBitArrayBit
\* reads the word and its count, which it writes back in a later step.
WakeWriter(t) ==
  /\ pc[t] = "waitWrite" /\ writeHandle > 0
  /\ writeHandle' = writeHandle - 1
  /\ numWriters' = Inc(numWriters, t)
  /\ copy' = [copy EXCEPT ![t] = [bits |-> promoted, count |-> nonZero]]
  /\ Goto(t, "clear")
  /\ UNCHANGED <<numReaders, active, pending, bits, readHandle, used>>

\* Each of the two is read and written on its own; of one that another thread
\* has changed in between, its change or the clearing may be lost.
Cleared(seen, now, Clear(_)) ==
  {Clear(seen), Clear(now)} \cup (IF now = seen THEN {} ELSE {now})

ClearBit(t) ==
  /\ pc[t] = "clear"
  /\ promoted' \in Cleared(copy[t].bits, promoted, LAMBDA b : b \ {t})
  /\ nonZero' \in Cleared(copy[t].count, nonZero,
                         LAMBDA n : IF t \in copy[t].bits THEN n - 1 ELSE n)
  /\ copy' = [copy EXCEPT ![t] = NoCopy]
  /\ Goto(t, "caller")
  /\ UNCHANGED <<numReaders, numWriters, active, pending, handles, used>>
-----------------------------------------------------------------------------
(* fmReleaseReadLock *)

LastRead(t) == numReaders[t] = 1

ReleaseReadNested(t) ==
  /\ pc[t] = "caller" /\ numReaders[t] > 1
  /\ numReaders' = Dec(numReaders, t)
  /\ UNCHANGED <<numWriters, active, pending, bits, handles, used, pc, copy>>

\* The next writer is admitted when nobody is active any more and one waits, or
\* when every reader left waits to be promoted; else the release is the end.
\* Mutant: nobody need wait.
AdmitsAnyone == numActiveReaders - 1 = 0 /\ numActiveWriters = 0

AdmitsWriter == \/ numActiveReaders - 1 = 0 /\ numActiveWriters = 0
                   /\ numPendingWriters > 0
                \/ numActiveReaders - 1 # 0 /\ numActiveWriters = 0
                   /\ numActiveReaders - 1 = nonZero

ReleaseRead(t) ==
  /\ pc[t] = "caller" /\ LastRead(t)
  /\ numReaders' = Dec(numReaders, t)
  /\ numActiveReaders' = numActiveReaders - 1
  /\ used' = IF numWriters[t] = 0 THEN used \ {t} ELSE used
  /\ IF AdmitsWriter
     THEN /\ numActiveWriters' = numActiveWriters + 1
          /\ numPendingWriters' = numPendingWriters - 1
          /\ Goto(t, "post")
     ELSE UNCHANGED <<numActiveWriters, numPendingWriters, pc>>
  /\ UNCHANGED <<numWriters, numPendingReaders, bits, handles, copy>>

\* sem_post of the writers' semaphore, after GIVE_ACCESS
Post(t) ==
  /\ pc[t] = "post"
  /\ writeHandle' = writeHandle + 1
  /\ Goto(t, "caller")
  /\ UNCHANGED <<numReaders, numWriters, active, pending, bits, readHandle, used, copy>>
-----------------------------------------------------------------------------
(* fmReleaseWriteLock *)

ReleaseWriteNested(t) ==
  /\ pc[t] = "caller" /\ numWriters[t] > 1
  /\ numWriters' = Dec(numWriters, t)
  /\ UNCHANGED <<numReaders, active, pending, bits, handles, used, pc, copy>>

LastWrite(t) == /\ pc[t] = "caller" /\ numWriters[t] = 1
                /\ numReaders[t] = 0 \/ Upgrades
                /\ numWriters' = Dec(numWriters, t)
                /\ used' = IF numReaders[t] = 0 THEN used \ {t} ELSE used

\* A writer that waits comes first, whether or not readers are active.
ReleaseToWriter(t) ==
  /\ LastWrite(t) /\ numPendingWriters > 0
  /\ numPendingWriters' = numPendingWriters - 1
  /\ numActiveWriters' = numActiveWriters - 1 + 1
  /\ Goto(t, "post")
  /\ UNCHANGED <<numReaders, numActiveReaders, numPendingReaders, bits, handles, copy>>

\* Mutant: one reader is admitted, not every one.
ReleaseToReader(t) ==
  /\ LastWrite(t) /\ numPendingWriters <= 0 /\ numPendingReaders > 0
  /\ numActiveWriters' = numActiveWriters - 1
  /\ numPendingReaders' = numPendingReaders - 1
  /\ numActiveReaders' = numActiveReaders + 1
  /\ readHandle' = readHandle + 1
  /\ UNCHANGED <<numReaders, numPendingWriters, bits, writeHandle, pc, copy>>

\* Every reader that waits is admitted, and posted under the mutex.
ReleaseToReaders(t) ==
  /\ LastWrite(t) /\ numPendingWriters <= 0
  /\ numActiveWriters' = numActiveWriters - 1
  /\ numPendingReaders' = 0
  /\ numActiveReaders' = numActiveReaders + numPendingReaders
  /\ readHandle' = readHandle + numPendingReaders
  /\ UNCHANGED <<numReaders, numPendingWriters, bits, writeHandle, pc, copy>>
-----------------------------------------------------------------------------
Capture(t) == \/ CaptureReadAgain(t) \/ CaptureReadFree(t) \/ CaptureReadBlocks(t)
              \/ CaptureWriteAgain(t) \/ CaptureWriteFree(t) \/ CaptureWriteBlocks(t)
Admitted(t) == WakeReader(t) \/ WakeWriter(t) \/ ClearBit(t) \/ Post(t)
ReleaseAny(t) == \/ ReleaseReadNested(t) \/ ReleaseRead(t) \/ ReleaseWriteNested(t)
                 \/ ReleaseToWriter(t) \/ ReleaseToReaders(t)

Next == \E t \in Threads : Capture(t) \/ Admitted(t) \/ ReleaseAny(t)

\* A thread runs on unless a semaphore blocks it, and does not nest for ever: it
\* comes back to each depth and, from there, releases.
ReleasesFrom(t, n) == numReaders[t] + numWriters[t] = n /\ ReleaseAny(t)
Fairness == \A t \in Threads :
              /\ WF_vars(Admitted(t))
              /\ \A n \in 1..MaxNest : SF_vars(ReleasesFrom(t, n))

Spec == Init /\ [][Next]_vars
LiveSpec == Spec /\ Fairness
-----------------------------------------------------------------------------
Reads(t)  == numReaders[t] > 0
Writes(t) == numWriters[t] > 0

\* The lock is the one of ReaderWriterLock: its threads hold it as their entries
\* say, a thread that does both as a writer.
lockMode == [t \in Threads |-> IF Writes(t) THEN "write"
                               ELSE IF Reads(t) THEN "read" ELSE "none"]
Abstract == INSTANCE ReaderWriterLock WITH mode <- lockMode

\* The steps of the functions, each with its semaphore and its counters, take and
\* give the lock as its callers expect: no thread is admitted to read while another
\* writes, nor to write while another holds the lock at all.
ImplementsLock == Abstract!RWSpec

\* "This function will block if a reader or another writer currently has the lock":
\* where a thread has captured it for writing, no other thread is at work reading.
WriterIsAlone ==
  \A t, u \in Threads : t # u /\ Writes(t) /\ pc[u] = "caller" => ~Reads(u)

\* Whoever waits, some thread will act without being called first: one that holds
\* the lock and will release it, one about to post, or one whose post is there.
NoneStranded ==
  (\E t \in Threads : pc[t] \in {"waitRead", "waitWrite"}) =>
    \E t \in Threads : \/ pc[t] \in {"clear", "post"}
                       \/ pc[t] = "caller" /\ HasEntry(t)
                       \/ pc[t] = "waitRead" /\ readHandle > 0
                       \/ pc[t] = "waitWrite" /\ writeHandle > 0

\* A pending writer keeps new readers out, so that the readers drain and a writer
\* that waits is admitted, however many readers come: some writer, for the
\* semaphore may prefer another.
WriterAdmitted == (numPendingWriters > 0) ~> (\E t \in Threads : Writes(t))
=============================================================================
