---------------------------- MODULE RWLock_proofs ----------------------------
(***************************************************************************)
(* Proofs about RWLock, for any threads, entries and depth of nesting, as  *)
(* long as no thread asks for an upgrade: with upgrades the lock is not    *)
(* exclusive, as the run rw_upgrade shows.                                 *)
(***************************************************************************)
EXTENDS RWLock, FiniteSetTheorems, TLAPS

Labels == {"caller", "waitRead", "waitWrite", "clear", "post"}
Waiting == {"waitRead", "waitWrite"}

\* The threads with a positive count, and those at a label.
Holders(f) == {x \in Threads : f[x] > 0}
At(f, l)   == {x \in Threads : f[x] = l}

readers   == Cardinality(Holders(numReaders))
writers   == Cardinality(Holders(numWriters))
posting   == Cardinality(At(pc, "post"))
toRead    == Cardinality(At(pc, "waitRead"))
toWrite   == Cardinality(At(pc, "waitWrite"))

\* Nobody waits to be promoted.
NoPromotion == promoted = {} /\ nonZero = 0 /\ copy = [t \in Threads |-> NoCopy]

\* A thread has an entry while it holds the lock or waits for it, never both.
Entries == \A t \in Threads :
  /\ t \in used <=> numReaders[t] > 0 \/ numWriters[t] > 0 \/ pc[t] \in Waiting
  /\ pc[t] \in Waiting => numReaders[t] = 0 /\ numWriters[t] = 0

\* Active is who holds the lock or was admitted and has not noticed yet.
ActiveCount == /\ numActiveReaders = readers + readHandle
               /\ numActiveWriters = writers + writeHandle + posting

\* One writer at most is active, and then nobody reads but the writer.
Exclusion == /\ numActiveWriters <= 1
             /\ numActiveWriters = 1 =>
                  readHandle = 0 /\ \A t \in Threads : Reads(t) => Writes(t)

\* Pending is who waits and was not admitted; a writer waits only for active
\* threads, and a reader for a writer.
PendingCount == /\ numPendingReaders + readHandle = toRead
                /\ numPendingWriters + writeHandle + posting = toWrite
WaitsForSomebody ==
  /\ numPendingWriters > 0 => numActiveWriters > 0 \/ numActiveReaders > 0
  /\ numPendingReaders > 0 => numActiveWriters > 0 \/ numPendingWriters > 0

LockInv == /\ TypeOK /\ NoPromotion /\ Entries /\ ActiveCount /\ Exclusion
           /\ PendingCount /\ WaitsForSomebody
-----------------------------------------------------------------------------
(* Counting threads *)

\* Sets of threads can be counted.
LEMMA Counted ==
  ASSUME NEW A \in SUBSET Threads
  PROVE  IsFiniteSet(A) /\ Cardinality(A) \in Nat /\ (Cardinality(A) = 0 <=> A = {})
<1>1. IsFiniteSet(A)  BY ThreadsAssumption, FS_Subset
<1> QED  BY <1>1, FS_CardinalityType, FS_EmptySet

\* A count that goes up: its thread is a holder from then on.
LEMMA IncCounts ==
  ASSUME NEW f \in [Threads -> Nat], NEW t \in Threads
  PROVE  /\ Inc(f, t) \in [Threads -> Nat]
         /\ f[t] = 0 => Cardinality(Holders(Inc(f, t))) = Cardinality(Holders(f)) + 1
         /\ f[t] > 0 => Cardinality(Holders(Inc(f, t))) = Cardinality(Holders(f))
<1> DEFINE g == Inc(f, t)
<1>1. g \in [Threads -> Nat] /\ g[t] = f[t] + 1 /\ \A x \in Threads \ {t} : g[x] = f[x]
  BY DEF Inc
<1>2. Holders(f) \in SUBSET Threads  BY DEF Holders
<1>3. Holders(g) = Holders(f) \cup {t}  BY <1>1 DEF Holders
<1>4. t \in Holders(f) <=> f[t] > 0  BY DEF Holders
<1>5. IsFiniteSet(Holders(f))  BY <1>2, Counted
<1>6. CASE f[t] = 0  BY <1>1, <1>3, <1>4, <1>5, <1>6, FS_AddElement
<1>7. CASE f[t] > 0
  <2>1. Holders(g) = Holders(f)  BY <1>3, <1>4, <1>7
  <2> QED  BY <2>1, <1>1, <1>7
<1> QED  BY <1>6, <1>7

\* A count that goes down: its thread is a holder no more when it was one.
LEMMA DecCounts ==
  ASSUME NEW f \in [Threads -> Nat], NEW t \in Threads, f[t] > 0
  PROVE  /\ Dec(f, t) \in [Threads -> Nat]
         /\ f[t] = 1 => Cardinality(Holders(Dec(f, t))) = Cardinality(Holders(f)) - 1
         /\ f[t] > 1 => Cardinality(Holders(Dec(f, t))) = Cardinality(Holders(f))
<1> DEFINE g == Dec(f, t)
<1>1. g \in [Threads -> Nat] /\ g[t] = f[t] - 1 /\ \A x \in Threads \ {t} : g[x] = f[x]
  BY DEF Dec
<1>2. Holders(f) \in SUBSET Threads  BY DEF Holders
<1>4. t \in Holders(f)  BY DEF Holders
<1>5. IsFiniteSet(Holders(f))  BY <1>2, Counted
<1>6. CASE f[t] = 1
  <2>1. Holders(g) = Holders(f) \ {t}  BY <1>1, <1>6 DEF Holders
  <2> QED  BY <2>1, <1>1, <1>4, <1>5, <1>6, FS_RemoveElement
<1>7. CASE f[t] > 1
  <2>1. Holders(g) = Holders(f)  BY <1>1, <1>7 DEF Holders
  <2> QED  BY <2>1, <1>1, <1>7
<1> QED  BY <1>6, <1>7

\* A thread that moves leaves the set of its old label and joins that of its
\* new one.
LEMMA MoveCounts ==
  ASSUME NEW f \in [Threads -> Labels], NEW t \in Threads, NEW l \in Labels, NEW s,
         NEW g, g[t] = l, \A x \in Threads : x # t => g[x] = f[x]
  PROVE  /\ l = s /\ f[t] # s => Cardinality(At(g, s)) = Cardinality(At(f, s)) + 1
         /\ l # s /\ f[t] = s => Cardinality(At(g, s)) = Cardinality(At(f, s)) - 1
         /\ (l = s <=> f[t] = s) => Cardinality(At(g, s)) = Cardinality(At(f, s))
<1>1. g[t] = l /\ \A x \in Threads : x # t => g[x] = f[x]  OBVIOUS
<1>2. At(f, s) \in SUBSET Threads /\ At(g, s) \in SUBSET Threads  BY DEF At
<1>3. IsFiniteSet(At(f, s))  BY <1>2, Counted
<1>4. t \in At(f, s) <=> f[t] = s  BY DEF At
<1>5. CASE l = s /\ f[t] # s
  <2>1. At(g, s) = At(f, s) \cup {t}  BY <1>1, <1>5 DEF At
  <2> QED  BY <2>1, <1>3, <1>4, <1>5, FS_AddElement
<1>6. CASE l # s /\ f[t] = s
  <2>1. At(g, s) = At(f, s) \ {t}  BY <1>1, <1>6 DEF At
  <2> QED  BY <2>1, <1>3, <1>4, <1>6, FS_RemoveElement
<1>7. CASE l = s <=> f[t] = s
  <2>1. At(g, s) = At(f, s)  BY <1>1, <1>7 DEF At
  <2> QED  BY <2>1, <1>7
<1> QED  BY <1>5, <1>6, <1>7

\* Nobody holds what is counted as zero.
LEMMA NoHolders ==
  ASSUME NEW f
  PROVE  /\ Cardinality(Holders(f)) \in Nat
         /\ Cardinality(Holders(f)) = 0 <=> \A t \in Threads : ~(f[t] > 0)
<1>1. Holders(f) \in SUBSET Threads  BY DEF Holders
<1>2. Holders(f) = {} <=> \A t \in Threads : ~(f[t] > 0)  BY DEF Holders
<1> QED  BY <1>1, <1>2, Counted

\* The counts of a state are numbers, and zero when nobody is counted.
LEMMA Counts ==
  /\ readers \in Nat /\ writers \in Nat /\ posting \in Nat
  /\ toRead \in Nat /\ toWrite \in Nat
  /\ readers = 0 <=> \A t \in Threads : ~Reads(t)
  /\ writers = 0 <=> \A t \in Threads : ~Writes(t)
  /\ posting = 0 <=> \A t \in Threads : pc[t] # "post"
  /\ toRead = 0 <=> \A t \in Threads : pc[t] # "waitRead"
  /\ toWrite = 0 <=> \A t \in Threads : pc[t] # "waitWrite"
<1>1. \A l : At(pc, l) \in SUBSET Threads  BY DEF At
<1>2. \A l : At(pc, l) = {} <=> \A t \in Threads : pc[t] # l  BY DEF At
<1> QED  BY <1>1, <1>2, Counted, NoHolders
         DEF readers, writers, posting, toRead, toWrite, Reads, Writes

\* With one active writer, two threads that write are the same.
LEMMA OneWriter ==
  ASSUME LockInv, NEW t \in Threads, NEW u \in Threads, Writes(t), Writes(u)
  PROVE  t = u /\ writers = 1 /\ posting = 0 /\ writeHandle = 0 /\ numActiveWriters = 1
<1>1. {t, u} \subseteq Holders(numWriters) /\ Holders(numWriters) \in SUBSET Threads
  BY DEF Holders, Writes
<1>2. IsFiniteSet(Holders(numWriters))  BY <1>1, Counted
<1>3. Cardinality({t, u}) <= writers  BY <1>1, <1>2, FS_Subset DEF writers
<1>4. writers # 0  BY Counts
<1>5. writers = 1 /\ posting = 0 /\ writeHandle = 0 /\ numActiveWriters = 1
  BY <1>4, Counts DEF LockInv, TypeOK, ActiveCount, Exclusion
<1>6. t # u => Cardinality({t, u}) = 2
  <2> SUFFICES ASSUME t # u PROVE Cardinality({t, u}) = 2
    OBVIOUS
  <2>1. IsFiniteSet({t}) /\ Cardinality({t}) = 1  BY FS_Singleton
  <2>2. {t, u} = {t} \cup {u} /\ u \notin {t}  OBVIOUS
  <2> QED  BY <2>1, <2>2, FS_AddElement
<1> QED  BY <1>3, <1>5, <1>6
-----------------------------------------------------------------------------
(* What a step does to the counts *)

\* A step that changes only who is where, or what one thread holds.
LEMMA Moves ==
  ASSUME TypeOK, NEW t \in Threads, NEW l \in Labels, Goto(t, l)
  PROVE  /\ posting' = (IF l = "post" THEN 1 ELSE 0) + posting - (IF pc[t] = "post" THEN 1 ELSE 0)
         /\ toRead' = (IF l = "waitRead" THEN 1 ELSE 0) + toRead
                        - (IF pc[t] = "waitRead" THEN 1 ELSE 0)
         /\ toWrite' = (IF l = "waitWrite" THEN 1 ELSE 0) + toWrite
                         - (IF pc[t] = "waitWrite" THEN 1 ELSE 0)
         /\ pc' \in [Threads -> Labels] /\ pc'[t] = l
         /\ \A u \in Threads : u # t => pc'[u] = pc[u]
<1>1. /\ pc \in [Threads -> Labels] /\ pc' \in [Threads -> Labels] /\ pc'[t] = l
      /\ \A u \in Threads : u # t => pc'[u] = pc[u]
  BY DEF TypeOK, Labels, Goto
<1>2. \A s : /\ l = s /\ pc[t] # s => Cardinality(At(pc', s)) = Cardinality(At(pc, s)) + 1
             /\ l # s /\ pc[t] = s => Cardinality(At(pc', s)) = Cardinality(At(pc, s)) - 1
             /\ (l = s <=> pc[t] = s) => Cardinality(At(pc', s)) = Cardinality(At(pc, s))
  BY <1>1, MoveCounts
<1>3. posting \in Nat /\ toRead \in Nat /\ toWrite \in Nat  BY Counts
<1>4. \A s, n : n = Cardinality(At(pc, s)) /\ n \in Nat =>
        Cardinality(At(pc', s)) = (IF l = s THEN 1 ELSE 0) + n - (IF pc[t] = s THEN 1 ELSE 0)
  BY <1>2
<1>5. posting' = (IF l = "post" THEN 1 ELSE 0) + posting - (IF pc[t] = "post" THEN 1 ELSE 0)
  BY <1>3, <1>4 DEF posting
<1>6. toRead' = (IF l = "waitRead" THEN 1 ELSE 0) + toRead
                 - (IF pc[t] = "waitRead" THEN 1 ELSE 0)
  BY <1>3, <1>4 DEF toRead
<1>7. toWrite' = (IF l = "waitWrite" THEN 1 ELSE 0) + toWrite
                  - (IF pc[t] = "waitWrite" THEN 1 ELSE 0)
  BY <1>3, <1>4 DEF toWrite
<1> QED  BY <1>1, <1>5, <1>6, <1>7

\* A thread that captures, once more or for the first time.
LEMMA Captures ==
  ASSUME TypeOK, NEW t \in Threads
  PROVE  /\ numReaders' = Inc(numReaders, t) =>
              /\ numReaders' \in [Threads -> Nat] /\ numReaders'[t] = numReaders[t] + 1
              /\ \A u \in Threads : u # t => numReaders'[u] = numReaders[u]
              /\ readers' = IF numReaders[t] = 0 THEN readers + 1 ELSE readers
         /\ numWriters' = Inc(numWriters, t) =>
              /\ numWriters' \in [Threads -> Nat] /\ numWriters'[t] = numWriters[t] + 1
              /\ \A u \in Threads : u # t => numWriters'[u] = numWriters[u]
              /\ writers' = IF numWriters[t] = 0 THEN writers + 1 ELSE writers
<1>1. \A f \in [Threads -> Nat] :
        Inc(f, t)[t] = f[t] + 1 /\ \A u \in Threads : u # t => Inc(f, t)[u] = f[u]
  BY DEF Inc
<1>2. numReaders \in [Threads -> Nat] /\ numWriters \in [Threads -> Nat]  BY DEF TypeOK
<1>3. ASSUME numReaders' = Inc(numReaders, t)
      PROVE  readers' = IF numReaders[t] = 0 THEN readers + 1 ELSE readers
  BY <1>2, <1>3, IncCounts DEF readers
<1>4. ASSUME numWriters' = Inc(numWriters, t)
      PROVE  writers' = IF numWriters[t] = 0 THEN writers + 1 ELSE writers
  BY <1>2, <1>4, IncCounts DEF writers
<1> QED  BY <1>1, <1>2, <1>3, <1>4, IncCounts

\* A thread that releases.
LEMMA Releases ==
  ASSUME TypeOK, NEW t \in Threads
  PROVE  /\ numReaders' = Dec(numReaders, t) /\ numReaders[t] > 0 =>
              /\ numReaders' \in [Threads -> Nat] /\ numReaders'[t] = numReaders[t] - 1
              /\ \A u \in Threads : u # t => numReaders'[u] = numReaders[u]
              /\ readers' = IF numReaders[t] = 1 THEN readers - 1 ELSE readers
         /\ numWriters' = Dec(numWriters, t) /\ numWriters[t] > 0 =>
              /\ numWriters' \in [Threads -> Nat] /\ numWriters'[t] = numWriters[t] - 1
              /\ \A u \in Threads : u # t => numWriters'[u] = numWriters[u]
              /\ writers' = IF numWriters[t] = 1 THEN writers - 1 ELSE writers
<1>1. \A f \in [Threads -> Nat] :
        Dec(f, t)[t] = f[t] - 1 /\ \A u \in Threads : u # t => Dec(f, t)[u] = f[u]
  BY DEF Dec
<1>2. numReaders \in [Threads -> Nat] /\ numWriters \in [Threads -> Nat]  BY DEF TypeOK
<1>3. ASSUME numReaders' = Dec(numReaders, t), numReaders[t] > 0
      PROVE  readers' = IF numReaders[t] = 1 THEN readers - 1 ELSE readers
  BY <1>2, <1>3, DecCounts DEF readers
<1>4. ASSUME numWriters' = Dec(numWriters, t), numWriters[t] > 0
      PROVE  writers' = IF numWriters[t] = 1 THEN writers - 1 ELSE writers
  BY <1>2, <1>4, DecCounts DEF writers
<1> QED  BY <1>1, <1>2, <1>3, <1>4, DecCounts

\* What does not change is not counted anew.
LEMMA Stays ==
  /\ UNCHANGED numReaders => UNCHANGED readers
  /\ UNCHANGED numWriters => UNCHANGED writers
  /\ UNCHANGED pc => UNCHANGED <<posting, toRead, toWrite>>
  BY DEF readers, writers, posting, toRead, toWrite
-----------------------------------------------------------------------------
(* The invariant, action by action *)

LEMMA InvInit ==
  ASSUME Init PROVE LockInv
<1>1. TypeOK /\ NoPromotion /\ Entries
  BY DEF Init, TypeOK, NoPromotion, NoCopy, Entries, Waiting
<1>2. readers = 0 /\ writers = 0 /\ posting = 0 /\ toRead = 0 /\ toWrite = 0
  BY Counts DEF Init, Reads, Writes
<1> QED  BY <1>1, <1>2
         DEF Init, LockInv, ActiveCount, Exclusion, PendingCount, WaitsForSomebody

\* fmCaptureReadLock, up to the wait for the semaphore.
LEMMA InvCaptureRead ==
  ASSUME LockInv, NEW t \in Threads,
         CaptureReadAgain(t) \/ CaptureReadFree(t) \/ CaptureReadBlocks(t)
  PROVE  LockInv'
<1> USE DEF LockInv, active, pending, bits, handles
<1>a. numReaders[t] \in Nat /\ numWriters[t] \in Nat  BY DEF TypeOK
<1>1. CASE CaptureReadAgain(t)
  <2>1. /\ numReaders' \in [Threads -> Nat] /\ numReaders'[t] = numReaders[t] + 1
        /\ \A u \in Threads : u # t => numReaders'[u] = numReaders[u]
        /\ readers' = (IF numReaders[t] = 0 THEN readers + 1 ELSE readers)
        /\ UNCHANGED <<writers, posting, toRead, toWrite>>
    BY <1>1, <1>a, Captures, Stays DEF Labels, CaptureReadAgain, MayCapture, HasEntry
  <2>2. TypeOK'
    BY <1>1, <1>a, <2>1, Counts
       DEF TypeOK, Labels, CaptureReadAgain, MayCapture, HasEntry, Goto
  <2>3. NoPromotion'  BY <1>1 DEF NoPromotion, CaptureReadAgain, MayCapture, HasEntry
  <2>4. Entries'
    BY <1>1, <1>a, <2>1
       DEF TypeOK, Labels, Entries, Waiting, CaptureReadAgain, MayCapture, HasEntry,
           Goto
  <2>5. ActiveCount'
    BY <1>1, <2>1, Counts
       DEF TypeOK, Entries, Waiting, ActiveCount, CaptureReadAgain, MayCapture,
           HasEntry, Goto
  <2>6. Exclusion'
    BY <1>1, <2>1, Counts, OneWriter
       DEF TypeOK, Entries, Waiting, ActiveCount, Exclusion, Reads, Writes,
           CaptureReadAgain, MayCapture, HasEntry, Goto
  <2>7. PendingCount' /\ WaitsForSomebody'
    BY <1>1, <1>a, <2>1, Counts
       DEF TypeOK, ActiveCount, PendingCount, WaitsForSomebody, CaptureReadAgain,
           MayCapture, HasEntry, Goto
  <2> QED  BY <2>2, <2>3, <2>4, <2>5, <2>6, <2>7
<1>2. CASE CaptureReadFree(t)
  <2>1. /\ numReaders' \in [Threads -> Nat] /\ numReaders'[t] = numReaders[t] + 1
        /\ \A u \in Threads : u # t => numReaders'[u] = numReaders[u]
        /\ readers' = (IF numReaders[t] = 0 THEN readers + 1 ELSE readers)
        /\ UNCHANGED <<writers, posting, toRead, toWrite>>
    BY <1>2, <1>a, Captures, Stays
       DEF Labels, CaptureReadFree, BecomesReader, MayCapture, HasEntry
  <2>2. TypeOK'
    BY <1>2, <1>a, <2>1, Counts
       DEF TypeOK, Labels, CaptureReadFree, BecomesReader, MayCapture, HasEntry, Goto
  <2>3. NoPromotion'
    BY <1>2 DEF NoPromotion, CaptureReadFree, BecomesReader, MayCapture, HasEntry
  <2>4. Entries'
    BY <1>2, <1>a, <2>1
       DEF TypeOK, Labels, Entries, Waiting, CaptureReadFree, BecomesReader,
           MayCapture, HasEntry, Goto
  <2>5. ActiveCount'
    BY <1>2, <2>1, Counts
       DEF TypeOK, Entries, Waiting, ActiveCount, CaptureReadFree, BecomesReader,
           MayCapture, HasEntry, Goto
  <2>6. Exclusion'
    BY <1>2, <2>1, Counts, OneWriter
       DEF TypeOK, Entries, Waiting, ActiveCount, Exclusion, Reads, Writes,
           CaptureReadFree, BecomesReader, MayCapture, HasEntry, Goto
  <2>7. PendingCount' /\ WaitsForSomebody'
    BY <1>2, <1>a, <2>1, Counts
       DEF TypeOK, ActiveCount, PendingCount, WaitsForSomebody, CaptureReadFree,
           BecomesReader, MayCapture, HasEntry, Goto
  <2> QED  BY <2>2, <2>3, <2>4, <2>5, <2>6, <2>7
<1>3. CASE CaptureReadBlocks(t)
  <2>1. /\ posting' = posting /\ toRead' = toRead + 1 /\ toWrite' = toWrite
        /\ pc' \in [Threads -> Labels] /\ pc'[t] = "waitRead"
        /\ \A u \in Threads : u # t => pc'[u] = pc[u]
        /\ UNCHANGED <<readers, writers>>
    BY <1>3, <1>a, Moves, Stays, Counts
       DEF Labels, CaptureReadBlocks, MayCapture, HasEntry
  <2>2. TypeOK'
    BY <1>3, <1>a, <2>1, Counts
       DEF TypeOK, Labels, CaptureReadBlocks, MayCapture, HasEntry, Goto
  <2>3. NoPromotion'  BY <1>3 DEF NoPromotion, CaptureReadBlocks, MayCapture, HasEntry
  <2>4. Entries'
    BY <1>3, <1>a, <2>1
       DEF TypeOK, Labels, Entries, Waiting, CaptureReadBlocks, MayCapture, HasEntry,
           Goto
  <2>5. ActiveCount'
    BY <1>3, <2>1, Counts
       DEF TypeOK, Entries, Waiting, ActiveCount, CaptureReadBlocks, MayCapture,
           HasEntry, Goto
  <2>6. Exclusion'
    BY <1>3, <2>1, Counts, OneWriter
       DEF TypeOK, Entries, Waiting, ActiveCount, Exclusion, Reads, Writes,
           CaptureReadBlocks, MayCapture, HasEntry, Goto
  <2>7. PendingCount' /\ WaitsForSomebody'
    BY <1>3, <1>a, <2>1, Counts
       DEF TypeOK, ActiveCount, PendingCount, WaitsForSomebody, CaptureReadBlocks,
           MayCapture, HasEntry, Goto
  <2> QED  BY <2>2, <2>3, <2>4, <2>5, <2>6, <2>7
<1> QED  BY <1>1, <1>2, <1>3

\* A thread that was admitted takes its post from the semaphore.
LEMMA InvWake ==
  ASSUME LockInv, NEW t \in Threads,
         WakeReader(t) \/ WakeWriter(t)
  PROVE  LockInv'
<1> USE DEF LockInv, active, pending, bits, handles
<1>a. numReaders[t] \in Nat /\ numWriters[t] \in Nat  BY DEF TypeOK
<1>1. CASE WakeReader(t)
  <2>1. /\ numReaders' \in [Threads -> Nat] /\ numReaders'[t] = numReaders[t] + 1
        /\ \A u \in Threads : u # t => numReaders'[u] = numReaders[u]
        /\ readers' = (IF numReaders[t] = 0 THEN readers + 1 ELSE readers)
        /\ posting' = posting /\ toRead' = toRead - 1 /\ toWrite' = toWrite
        /\ pc' \in [Threads -> Labels] /\ pc'[t] = "caller"
        /\ \A u \in Threads : u # t => pc'[u] = pc[u]
        /\ UNCHANGED writers
    BY <1>1, <1>a, Captures, Moves, Stays, Counts DEF Labels, WakeReader
  <2>2. TypeOK'  BY <1>1, <1>a, <2>1, Counts DEF TypeOK, Labels, WakeReader, Goto
  <2>3. NoPromotion'  BY <1>1 DEF NoPromotion, WakeReader
  <2>4. Entries'
    BY <1>1, <1>a, <2>1 DEF TypeOK, Labels, Entries, Waiting, WakeReader, Goto
  <2>5. ActiveCount'
    BY <1>1, <2>1, Counts DEF TypeOK, Entries, Waiting, ActiveCount, WakeReader, Goto
  <2>6. Exclusion'
    BY <1>1, <2>1, Counts, OneWriter
       DEF TypeOK, Entries, Waiting, ActiveCount, Exclusion, Reads, Writes,
           WakeReader, Goto
  <2>7. PendingCount' /\ WaitsForSomebody'
    BY <1>1, <1>a, <2>1, Counts
       DEF TypeOK, ActiveCount, PendingCount, WaitsForSomebody, WakeReader, Goto
  <2> QED  BY <2>2, <2>3, <2>4, <2>5, <2>6, <2>7
<1>2. CASE WakeWriter(t)
  <2>1. /\ numWriters' \in [Threads -> Nat] /\ numWriters'[t] = numWriters[t] + 1
        /\ \A u \in Threads : u # t => numWriters'[u] = numWriters[u]
        /\ writers' = (IF numWriters[t] = 0 THEN writers + 1 ELSE writers)
        /\ posting' = posting /\ toRead' = toRead /\ toWrite' = toWrite - 1
        /\ pc' \in [Threads -> Labels] /\ pc'[t] = "clear"
        /\ \A u \in Threads : u # t => pc'[u] = pc[u]
        /\ UNCHANGED readers
    BY <1>2, <1>a, Captures, Moves, Stays, Counts DEF Labels, WakeWriter
  <2>0. copy' = copy /\ promoted' = {} /\ nonZero' = 0
    BY <1>2 DEF NoPromotion, NoCopy, WakeWriter
  <2>2. TypeOK'  BY <1>2, <1>a, <2>0, <2>1, Counts DEF TypeOK, Labels, WakeWriter, Goto
  <2>3. NoPromotion'  BY <2>0 DEF NoPromotion
  <2>4. Entries'
    BY <1>2, <1>a, <2>1 DEF TypeOK, Labels, Entries, Waiting, WakeWriter, Goto
  <2>5. ActiveCount'
    BY <1>2, <2>1, Counts DEF TypeOK, Entries, Waiting, ActiveCount, WakeWriter, Goto
  <2>6. Exclusion'
    BY <1>2, <2>1, Counts, OneWriter
       DEF TypeOK, Entries, Waiting, ActiveCount, Exclusion, Reads, Writes,
           WakeWriter, Goto
  <2>7. PendingCount' /\ WaitsForSomebody'
    BY <1>2, <1>a, <2>1, Counts
       DEF TypeOK, ActiveCount, PendingCount, WaitsForSomebody, WakeWriter, Goto
  <2> QED  BY <2>2, <2>3, <2>4, <2>5, <2>6, <2>7
<1> QED  BY <1>1, <1>2

\* fmCaptureWriteLock, up to the wait for the semaphore: without upgrades a thread that
\* captures for writing has no entry, so it sets no bit.
LEMMA InvCaptureWrite ==
  ASSUME LockInv, ~Upgrades, NEW t \in Threads,
         CaptureWriteAgain(t) \/ CaptureWriteFree(t) \/ CaptureWriteBlocks(t)
  PROVE  LockInv'
<1> USE DEF LockInv, active, pending, bits, handles
<1>a. numReaders[t] \in Nat /\ numWriters[t] \in Nat  BY DEF TypeOK
<1>1. CASE CaptureWriteAgain(t)
  <2>1. /\ numWriters' \in [Threads -> Nat] /\ numWriters'[t] = numWriters[t] + 1
        /\ \A u \in Threads : u # t => numWriters'[u] = numWriters[u]
        /\ writers' = (IF numWriters[t] = 0 THEN writers + 1 ELSE writers)
        /\ UNCHANGED <<readers, posting, toRead, toWrite>>
    BY <1>1, <1>a, Captures, Stays DEF Labels, CaptureWriteAgain, MayCapture, HasEntry
  <2>2. TypeOK'
    BY <1>1, <1>a, <2>1, Counts
       DEF TypeOK, Labels, CaptureWriteAgain, MayCapture, HasEntry, Goto
  <2>3. NoPromotion'  BY <1>1 DEF NoPromotion, CaptureWriteAgain, MayCapture, HasEntry
  <2>4. Entries'
    BY <1>1, <1>a, <2>1
       DEF TypeOK, Labels, Entries, Waiting, CaptureWriteAgain, MayCapture, HasEntry,
           Goto
  <2>5. ActiveCount'
    BY <1>1, <2>1, Counts
       DEF TypeOK, Entries, Waiting, ActiveCount, CaptureWriteAgain, MayCapture,
           HasEntry, Goto
  <2>6. Exclusion'
    BY <1>1, <2>1, Counts, OneWriter
       DEF TypeOK, Entries, Waiting, ActiveCount, Exclusion, Reads, Writes,
           CaptureWriteAgain, MayCapture, HasEntry, Goto
  <2>7. PendingCount' /\ WaitsForSomebody'
    BY <1>1, <1>a, <2>1, Counts
       DEF TypeOK, ActiveCount, PendingCount, WaitsForSomebody, CaptureWriteAgain,
           MayCapture, HasEntry, Goto
  <2> QED  BY <2>2, <2>3, <2>4, <2>5, <2>6, <2>7
<1>2. CASE CaptureWriteFree(t)
  <2>1. /\ numWriters' \in [Threads -> Nat] /\ numWriters'[t] = numWriters[t] + 1
        /\ \A u \in Threads : u # t => numWriters'[u] = numWriters[u]
        /\ writers' = (IF numWriters[t] = 0 THEN writers + 1 ELSE writers)
        /\ UNCHANGED <<readers, posting, toRead, toWrite>>
    BY <1>2, <1>a, Captures, Stays
       DEF Labels, CaptureWriteFree, NoPromotion, IsReader, BitSet, CountSet,
           MayWrite, WriteIsFree, MayCapture, HasEntry
  <2>2. TypeOK'
    BY <1>2, <1>a, <2>1, Counts
       DEF TypeOK, Labels, CaptureWriteFree, NoPromotion, IsReader, BitSet, CountSet,
           MayWrite, WriteIsFree, MayCapture, HasEntry, Goto
  <2>3. NoPromotion'
    BY <1>2
       DEF NoPromotion, CaptureWriteFree, NoPromotion, IsReader, BitSet, CountSet,
           MayWrite, WriteIsFree, MayCapture, HasEntry
  <2>4. Entries'
    BY <1>2, <1>a, <2>1
       DEF TypeOK, Labels, Entries, Waiting, CaptureWriteFree, NoPromotion, IsReader,
           BitSet, CountSet, MayWrite, WriteIsFree, MayCapture, HasEntry, Goto
  <2>5. ActiveCount'
    BY <1>2, <2>1, Counts
       DEF TypeOK, Entries, Waiting, ActiveCount, CaptureWriteFree, NoPromotion,
           IsReader, BitSet, CountSet, MayWrite, WriteIsFree, MayCapture, HasEntry,
           Goto
  <2>6. Exclusion'
    BY <1>2, <2>1, Counts, OneWriter
       DEF TypeOK, Entries, Waiting, ActiveCount, Exclusion, Reads, Writes,
           CaptureWriteFree, NoPromotion, IsReader, BitSet, CountSet, MayWrite,
           WriteIsFree, MayCapture, HasEntry, Goto
  <2>7. PendingCount' /\ WaitsForSomebody'
    BY <1>2, <1>a, <2>1, Counts
       DEF TypeOK, ActiveCount, PendingCount, WaitsForSomebody, CaptureWriteFree,
           NoPromotion, IsReader, BitSet, CountSet, MayWrite, WriteIsFree, MayCapture,
           HasEntry, Goto
  <2> QED  BY <2>2, <2>3, <2>4, <2>5, <2>6, <2>7
<1>3. CASE CaptureWriteBlocks(t)
  <2>1. /\ posting' = posting /\ toRead' = toRead /\ toWrite' = toWrite + 1
        /\ pc' \in [Threads -> Labels] /\ pc'[t] = "waitWrite"
        /\ \A u \in Threads : u # t => pc'[u] = pc[u]
        /\ UNCHANGED <<readers, writers>>
    BY <1>3, <1>a, Moves, Stays, Counts
       DEF Labels, CaptureWriteBlocks, NoPromotion, IsReader, BitSet, CountSet,
           MayWrite, WriteIsFree, MayCapture, HasEntry
  <2>2. TypeOK'
    BY <1>3, <1>a, <2>1, Counts
       DEF TypeOK, Labels, CaptureWriteBlocks, NoPromotion, IsReader, BitSet,
           CountSet, MayWrite, WriteIsFree, MayCapture, HasEntry, Goto
  <2>3. NoPromotion'
    BY <1>3
       DEF NoPromotion, CaptureWriteBlocks, NoPromotion, IsReader, BitSet, CountSet,
           MayWrite, WriteIsFree, MayCapture, HasEntry
  <2>4. Entries'
    BY <1>3, <1>a, <2>1
       DEF TypeOK, Labels, Entries, Waiting, CaptureWriteBlocks, NoPromotion,
           IsReader, BitSet, CountSet, MayWrite, WriteIsFree, MayCapture, HasEntry,
           Goto
  <2>5. ActiveCount'
    BY <1>3, <2>1, Counts
       DEF TypeOK, Entries, Waiting, ActiveCount, CaptureWriteBlocks, NoPromotion,
           IsReader, BitSet, CountSet, MayWrite, WriteIsFree, MayCapture, HasEntry,
           Goto
  <2>6. Exclusion'
    BY <1>3, <2>1, Counts, OneWriter
       DEF TypeOK, Entries, Waiting, ActiveCount, Exclusion, Reads, Writes,
           CaptureWriteBlocks, NoPromotion, IsReader, BitSet, CountSet, MayWrite,
           WriteIsFree, MayCapture, HasEntry, Goto
  <2>7. PendingCount' /\ WaitsForSomebody'
    BY <1>3, <1>a, <2>1, Counts
       DEF TypeOK, ActiveCount, PendingCount, WaitsForSomebody, CaptureWriteBlocks,
           NoPromotion, IsReader, BitSet, CountSet, MayWrite, WriteIsFree, MayCapture,
           HasEntry, Goto
  <2> QED  BY <2>2, <2>3, <2>4, <2>5, <2>6, <2>7
<1> QED  BY <1>1, <1>2, <1>3

\* What is left to do without the mutex.
LEMMA InvAfter ==
  ASSUME LockInv, NEW t \in Threads,
         ClearBit(t) \/ Post(t)
  PROVE  LockInv'
<1> USE DEF LockInv, active, pending, bits, handles
<1>a. numReaders[t] \in Nat /\ numWriters[t] \in Nat  BY DEF TypeOK
<1>1. CASE ClearBit(t)
  <2>1. /\ posting' = posting /\ toRead' = toRead /\ toWrite' = toWrite
        /\ pc' \in [Threads -> Labels] /\ pc'[t] = "caller"
        /\ \A u \in Threads : u # t => pc'[u] = pc[u]
        /\ UNCHANGED <<readers, writers>>
    BY <1>1, <1>a, Moves, Stays, Counts DEF Labels, ClearBit, Cleared
  <2>0. copy' = copy /\ promoted' = {} /\ nonZero' = 0
    BY <1>1 DEF NoPromotion, NoCopy, ClearBit, Cleared
  <2>2. TypeOK'
    BY <1>1, <1>a, <2>0, <2>1, Counts DEF TypeOK, Labels, ClearBit, Cleared, Goto
  <2>3. NoPromotion'  BY <2>0 DEF NoPromotion
  <2>4. Entries'
    BY <1>1, <1>a, <2>1 DEF TypeOK, Labels, Entries, Waiting, ClearBit, Cleared, Goto
  <2>5. ActiveCount'
    BY <1>1, <2>1, Counts
       DEF TypeOK, Entries, Waiting, ActiveCount, ClearBit, Cleared, Goto
  <2>6. Exclusion'
    BY <1>1, <2>1, Counts, OneWriter
       DEF TypeOK, Entries, Waiting, ActiveCount, Exclusion, Reads, Writes, ClearBit,
           Cleared, Goto
  <2>7. PendingCount' /\ WaitsForSomebody'
    BY <1>1, <1>a, <2>1, Counts
       DEF TypeOK, ActiveCount, PendingCount, WaitsForSomebody, ClearBit, Cleared,
           Goto
  <2> QED  BY <2>2, <2>3, <2>4, <2>5, <2>6, <2>7
<1>2. CASE Post(t)
  <2>1. /\ posting' = posting - 1 /\ toRead' = toRead /\ toWrite' = toWrite
        /\ pc' \in [Threads -> Labels] /\ pc'[t] = "caller"
        /\ \A u \in Threads : u # t => pc'[u] = pc[u]
        /\ UNCHANGED <<readers, writers>>
    BY <1>2, <1>a, Moves, Stays, Counts DEF Labels, Post
  <2>2. TypeOK'  BY <1>2, <1>a, <2>1, Counts DEF TypeOK, Labels, Post, Goto
  <2>3. NoPromotion'  BY <1>2 DEF NoPromotion, Post
  <2>4. Entries'  BY <1>2, <1>a, <2>1 DEF TypeOK, Labels, Entries, Waiting, Post, Goto
  <2>5. ActiveCount'
    BY <1>2, <2>1, Counts DEF TypeOK, Entries, Waiting, ActiveCount, Post, Goto
  <2>6. Exclusion'
    BY <1>2, <2>1, Counts, OneWriter
       DEF TypeOK, Entries, Waiting, ActiveCount, Exclusion, Reads, Writes, Post, Goto
  <2>7. PendingCount' /\ WaitsForSomebody'
    BY <1>2, <1>a, <2>1, Counts
       DEF TypeOK, ActiveCount, PendingCount, WaitsForSomebody, Post, Goto
  <2> QED  BY <2>2, <2>3, <2>4, <2>5, <2>6, <2>7
<1> QED  BY <1>1, <1>2

\* fmReleaseReadLock.
LEMMA InvReleaseRead ==
  ASSUME LockInv, NEW t \in Threads,
         ReleaseReadNested(t) \/ ReleaseRead(t)
  PROVE  LockInv'
<1> USE DEF LockInv, active, pending, bits, handles
<1>a. numReaders[t] \in Nat /\ numWriters[t] \in Nat  BY DEF TypeOK
<1>b. numReaders[t] > 0 => numActiveReaders > 0
  BY <1>a, Counts DEF TypeOK, ActiveCount, Reads
<1>1. CASE ReleaseReadNested(t)
  <2>1. /\ numReaders' \in [Threads -> Nat] /\ numReaders'[t] = numReaders[t] - 1
        /\ \A u \in Threads : u # t => numReaders'[u] = numReaders[u]
        /\ readers' = (IF numReaders[t] = 1 THEN readers - 1 ELSE readers)
        /\ UNCHANGED <<writers, posting, toRead, toWrite>>
    BY <1>1, <1>a, Releases, Stays DEF Labels, ReleaseReadNested
  <2>2. TypeOK'
    BY <1>1, <1>a, <1>b, <2>1, Counts DEF TypeOK, Labels, ReleaseReadNested, Goto
  <2>3. NoPromotion'  BY <1>1 DEF NoPromotion, ReleaseReadNested
  <2>4. Entries'
    BY <1>1, <1>a, <2>1 DEF TypeOK, Labels, Entries, Waiting, ReleaseReadNested, Goto
  <2>5. ActiveCount'
    BY <1>1, <2>1, Counts
       DEF TypeOK, Entries, Waiting, ActiveCount, ReleaseReadNested, Goto
  <2>6. Exclusion'
    BY <1>1, <2>1, Counts, OneWriter
       DEF TypeOK, Entries, Waiting, ActiveCount, Exclusion, Reads, Writes,
           ReleaseReadNested, Goto
  <2>7. PendingCount' /\ WaitsForSomebody'
    BY <1>1, <1>a, <1>b, <2>1, Counts
       DEF TypeOK, ActiveCount, PendingCount, WaitsForSomebody, ReleaseReadNested,
           Goto
  <2> QED  BY <2>2, <2>3, <2>4, <2>5, <2>6, <2>7
<1>2. CASE ReleaseRead(t) /\ AdmitsWriter
  <2>1. /\ numReaders' \in [Threads -> Nat] /\ numReaders'[t] = numReaders[t] - 1
        /\ \A u \in Threads : u # t => numReaders'[u] = numReaders[u]
        /\ readers' = (IF numReaders[t] = 1 THEN readers - 1 ELSE readers)
        /\ posting' = posting + 1 /\ toRead' = toRead /\ toWrite' = toWrite
        /\ pc' \in [Threads -> Labels] /\ pc'[t] = "post"
        /\ \A u \in Threads : u # t => pc'[u] = pc[u]
        /\ UNCHANGED writers
    BY <1>2, <1>a, Releases, Moves, Stays, Counts
       DEF Labels, ReleaseRead, LastRead, AdmitsWriter, NoPromotion
  <2>2. TypeOK'
    BY <1>2, <1>a, <1>b, <2>1, Counts
       DEF TypeOK, Labels, ReleaseRead, LastRead, AdmitsWriter, NoPromotion, Goto
  <2>3. NoPromotion'
    BY <1>2 DEF NoPromotion, ReleaseRead, LastRead, AdmitsWriter, NoPromotion
  <2>4. Entries'
    BY <1>2, <1>a, <2>1
       DEF TypeOK, Labels, Entries, Waiting, ReleaseRead, LastRead, AdmitsWriter,
           NoPromotion, Goto
  <2>5. ActiveCount'
    BY <1>2, <2>1, Counts
       DEF TypeOK, Entries, Waiting, ActiveCount, ReleaseRead, LastRead, AdmitsWriter,
           NoPromotion, Goto
  <2>6. Exclusion'
    <3>1. readers > 0  BY <1>2, <1>a, Counts DEF ReleaseRead, LastRead, Reads
    <3>2. readHandle' = 0 /\ readers' = 0 /\ numActiveWriters' = 1
      BY <1>2, <2>1, <3>1, Counts
         DEF TypeOK, ActiveCount, NoPromotion, ReleaseRead, LastRead, AdmitsWriter
    <3>3. \A u \in Threads : ~(numReaders'[u] > 0)  BY <3>2, NoHolders DEF readers
    <3> QED  BY <3>2, <3>3 DEF Exclusion, Reads
  <2>7. PendingCount' /\ WaitsForSomebody'
    BY <1>2, <1>a, <1>b, <2>1, Counts
       DEF TypeOK, ActiveCount, PendingCount, WaitsForSomebody, ReleaseRead, LastRead,
           AdmitsWriter, NoPromotion, Goto
  <2> QED  BY <2>2, <2>3, <2>4, <2>5, <2>6, <2>7
<1>3. CASE ReleaseRead(t) /\ ~AdmitsWriter
  <2>1. /\ numReaders' \in [Threads -> Nat] /\ numReaders'[t] = numReaders[t] - 1
        /\ \A u \in Threads : u # t => numReaders'[u] = numReaders[u]
        /\ readers' = (IF numReaders[t] = 1 THEN readers - 1 ELSE readers)
        /\ UNCHANGED <<writers, posting, toRead, toWrite>>
    BY <1>3, <1>a, Releases, Stays, Counts
       DEF Labels, ReleaseRead, LastRead, AdmitsWriter, NoPromotion
  <2>2. TypeOK'
    BY <1>3, <1>a, <1>b, <2>1, Counts
       DEF TypeOK, Labels, ReleaseRead, LastRead, AdmitsWriter, NoPromotion, Goto
  <2>3. NoPromotion'
    BY <1>3 DEF NoPromotion, ReleaseRead, LastRead, AdmitsWriter, NoPromotion
  <2>4. Entries'
    BY <1>3, <1>a, <2>1
       DEF TypeOK, Labels, Entries, Waiting, ReleaseRead, LastRead, AdmitsWriter,
           NoPromotion, Goto
  <2>5. ActiveCount'
    BY <1>3, <2>1, Counts
       DEF TypeOK, Entries, Waiting, ActiveCount, ReleaseRead, LastRead, AdmitsWriter,
           NoPromotion, Goto
  <2>6. Exclusion'
    BY <1>3, <2>1, Counts, OneWriter
       DEF TypeOK, Entries, Waiting, ActiveCount, Exclusion, Reads, Writes,
           ReleaseRead, LastRead, AdmitsWriter, NoPromotion, Goto
  <2>7. PendingCount' /\ WaitsForSomebody'
    BY <1>3, <1>a, <1>b, <2>1, Counts
       DEF TypeOK, ActiveCount, PendingCount, WaitsForSomebody, ReleaseRead, LastRead,
           AdmitsWriter, NoPromotion, Goto
  <2> QED  BY <2>2, <2>3, <2>4, <2>5, <2>6, <2>7
<1> QED  BY <1>1, <1>2, <1>3

\* fmReleaseWriteLock: without upgrades the thread does not read as well.
LEMMA InvReleaseWrite ==
  ASSUME LockInv, ~Upgrades, NEW t \in Threads,
         ReleaseWriteNested(t) \/ ReleaseToWriter(t) \/ ReleaseToReaders(t)
  PROVE  LockInv'
<1> USE DEF LockInv, active, pending, bits, handles
<1>a. numReaders[t] \in Nat /\ numWriters[t] \in Nat  BY DEF TypeOK
<1>b. numWriters[t] > 0 => numActiveWriters = 1  BY OneWriter DEF Writes
<1>1. CASE ReleaseWriteNested(t)
  <2>1. /\ numWriters' \in [Threads -> Nat] /\ numWriters'[t] = numWriters[t] - 1
        /\ \A u \in Threads : u # t => numWriters'[u] = numWriters[u]
        /\ writers' = (IF numWriters[t] = 1 THEN writers - 1 ELSE writers)
        /\ UNCHANGED <<readers, posting, toRead, toWrite>>
    BY <1>1, <1>a, Releases, Stays DEF Labels, ReleaseWriteNested
  <2>2. TypeOK'
    BY <1>1, <1>a, <1>b, <2>1, Counts DEF TypeOK, Labels, ReleaseWriteNested, Goto
  <2>3. NoPromotion'  BY <1>1 DEF NoPromotion, ReleaseWriteNested
  <2>4. Entries'
    BY <1>1, <1>a, <2>1 DEF TypeOK, Labels, Entries, Waiting, ReleaseWriteNested, Goto
  <2>5. ActiveCount'
    BY <1>1, <2>1, Counts
       DEF TypeOK, Entries, Waiting, ActiveCount, ReleaseWriteNested, Goto
  <2>6. Exclusion'
    BY <1>1, <2>1, Counts, OneWriter
       DEF TypeOK, Entries, Waiting, ActiveCount, Exclusion, Reads, Writes,
           ReleaseWriteNested, Goto
  <2>7. PendingCount' /\ WaitsForSomebody'
    BY <1>1, <1>a, <1>b, <2>1, Counts
       DEF TypeOK, ActiveCount, PendingCount, WaitsForSomebody, ReleaseWriteNested,
           Goto
  <2> QED  BY <2>2, <2>3, <2>4, <2>5, <2>6, <2>7
<1>2. CASE ReleaseToWriter(t)
  <2>1. /\ numWriters' \in [Threads -> Nat] /\ numWriters'[t] = numWriters[t] - 1
        /\ \A u \in Threads : u # t => numWriters'[u] = numWriters[u]
        /\ writers' = (IF numWriters[t] = 1 THEN writers - 1 ELSE writers)
        /\ posting' = posting + 1 /\ toRead' = toRead /\ toWrite' = toWrite
        /\ pc' \in [Threads -> Labels] /\ pc'[t] = "post"
        /\ \A u \in Threads : u # t => pc'[u] = pc[u]
        /\ UNCHANGED readers
    BY <1>2, <1>a, Releases, Moves, Stays, Counts DEF Labels, ReleaseToWriter, LastWrite
  <2>2. TypeOK'
    BY <1>2, <1>a, <1>b, <2>1, Counts
       DEF TypeOK, Labels, ReleaseToWriter, LastWrite, Goto
  <2>3. NoPromotion'  BY <1>2 DEF NoPromotion, ReleaseToWriter, LastWrite
  <2>4. Entries'
    BY <1>2, <1>a, <2>1
       DEF TypeOK, Labels, Entries, Waiting, ReleaseToWriter, LastWrite, Goto
  <2>5. ActiveCount'
    BY <1>2, <2>1, Counts
       DEF TypeOK, Entries, Waiting, ActiveCount, ReleaseToWriter, LastWrite, Goto
  <2>6. Exclusion'
    BY <1>2, <2>1, Counts, OneWriter
       DEF TypeOK, Entries, Waiting, ActiveCount, Exclusion, Reads, Writes,
           ReleaseToWriter, LastWrite, Goto
  <2>7. PendingCount' /\ WaitsForSomebody'
    BY <1>2, <1>a, <1>b, <2>1, Counts
       DEF TypeOK, ActiveCount, PendingCount, WaitsForSomebody, ReleaseToWriter,
           LastWrite, Goto
  <2> QED  BY <2>2, <2>3, <2>4, <2>5, <2>6, <2>7
<1>3. CASE ReleaseToReaders(t)
  <2>1. /\ numWriters' \in [Threads -> Nat] /\ numWriters'[t] = numWriters[t] - 1
        /\ \A u \in Threads : u # t => numWriters'[u] = numWriters[u]
        /\ writers' = (IF numWriters[t] = 1 THEN writers - 1 ELSE writers)
        /\ UNCHANGED <<readers, posting, toRead, toWrite>>
    BY <1>3, <1>a, Releases, Stays, Counts DEF Labels, ReleaseToReaders, LastWrite
  <2>2. TypeOK'
    BY <1>3, <1>a, <1>b, <2>1, Counts
       DEF TypeOK, Labels, ReleaseToReaders, LastWrite, Goto
  <2>3. NoPromotion'  BY <1>3 DEF NoPromotion, ReleaseToReaders, LastWrite
  <2>4. Entries'
    BY <1>3, <1>a, <2>1
       DEF TypeOK, Labels, Entries, Waiting, ReleaseToReaders, LastWrite, Goto
  <2>5. ActiveCount'
    BY <1>3, <2>1, Counts
       DEF TypeOK, Entries, Waiting, ActiveCount, ReleaseToReaders, LastWrite, Goto
  <2>6. Exclusion'
    BY <1>3, <2>1, Counts, OneWriter
       DEF TypeOK, Entries, Waiting, ActiveCount, Exclusion, Reads, Writes,
           ReleaseToReaders, LastWrite, Goto
  <2>7. PendingCount' /\ WaitsForSomebody'
    BY <1>3, <1>a, <1>b, <2>1, Counts
       DEF TypeOK, ActiveCount, PendingCount, WaitsForSomebody, ReleaseToReaders,
           LastWrite, Goto
  <2> QED  BY <2>2, <2>3, <2>4, <2>5, <2>6, <2>7
<1> QED  BY <1>1, <1>2, <1>3
-----------------------------------------------------------------------------
\* Every step of the three kinds of threads keeps the invariant.
LEMMA InvStep ==
  ASSUME LockInv, ~Upgrades, [Next]_vars
  PROVE  LockInv'
<1>1. CASE UNCHANGED vars
  <2>1. UNCHANGED <<readers, writers, posting, toRead, toWrite>>  BY <1>1, Stays DEF vars
  <2> QED  BY <1>1, <2>1
           DEF vars, LockInv, TypeOK, NoPromotion, Entries, ActiveCount, Exclusion,
               PendingCount, WaitsForSomebody, Reads, Writes
<1>2. ASSUME NEW t \in Threads, Capture(t) \/ Admitted(t) \/ ReleaseAny(t)
      PROVE  LockInv'
  <2>1. CASE Capture(t)  BY <2>1, InvCaptureRead, InvCaptureWrite DEF Capture
  <2>2. CASE Admitted(t)  BY <2>2, InvWake, InvAfter DEF Admitted
  <2>3. CASE ReleaseAny(t)  BY <2>3, InvReleaseRead, InvReleaseWrite DEF ReleaseAny
  <2> QED  BY <1>2, <2>1, <2>2, <2>3
<1> QED  BY <1>1, <1>2 DEF Next

LEMMA InvAlways ==
  ASSUME ~Upgrades PROVE Spec => []LockInv
<1>1. Init => LockInv  BY InvInit
<1>2. LockInv /\ [Next]_vars => LockInv'  BY InvStep
<1> QED  BY <1>1, <1>2, PTL DEF Spec

\* No counter of the lock goes below zero: not that of pending writers, which the
\* code asserts, nor a semaphore.
THEOREM TypeCorrect ==
  ASSUME ~Upgrades PROVE Spec => []TypeOK
<1>1. LockInv => TypeOK  BY DEF LockInv
<1> QED  BY <1>1, InvAlways, PTL

\* Whoever waits in sem_wait, somebody else holds the lock or has a post for it:
\* the functions never leave every thread asleep, however many there are.
THEOREM NobodyIsStranded ==
  ASSUME ~Upgrades PROVE Spec => []NoneStranded
<1>1. LockInv => NoneStranded
  <2> SUFFICES ASSUME LockInv, \E t \in Threads : pc[t] \in {"waitRead", "waitWrite"}
               PROVE  \E t \in Threads : \/ pc[t] \in {"clear", "post"}
                                         \/ pc[t] = "caller" /\ HasEntry(t)
                                         \/ pc[t] = "waitRead" /\ readHandle > 0
                                         \/ pc[t] = "waitWrite" /\ writeHandle > 0
    BY DEF NoneStranded
  <2> USE DEF LockInv
  <2>n. /\ numPendingReaders \in Nat /\ numPendingWriters \in Nat
        /\ readHandle \in Nat /\ writeHandle \in Nat
        /\ numActiveReaders \in Nat /\ numActiveWriters \in Nat
    BY DEF TypeOK
  <2>1. CASE readHandle > 0
    <3>1. toRead # 0  BY <2>1, <2>n, Counts DEF PendingCount
    <3> QED  BY <2>1, <3>1, Counts
  <2>2. CASE writeHandle > 0
    <3>1. toWrite # 0  BY <2>2, <2>n, Counts DEF PendingCount
    <3> QED  BY <2>2, <3>1, Counts
  <2>3. CASE posting > 0  BY <2>3, Counts
  <2>4. ASSUME NEW t \in Threads, Reads(t) \/ Writes(t)
        PROVE  pc[t] \in {"clear", "post"} \/ (pc[t] = "caller" /\ HasEntry(t))
    BY <2>4 DEF TypeOK, Entries, Waiting, Reads, Writes, HasEntry
  <2>5. CASE readers > 0 \/ writers > 0  BY <2>4, <2>5, Counts
  <2>6. CASE readHandle = 0 /\ writeHandle = 0 /\ posting = 0 /\ readers = 0 /\ writers = 0
    <3>1. numActiveReaders = 0 /\ numActiveWriters = 0  BY <2>6 DEF ActiveCount
    <3>2. numPendingWriters = 0 /\ numPendingReaders = 0
      BY <2>n, <3>1 DEF WaitsForSomebody
    <3>3. toRead = 0 /\ toWrite = 0  BY <2>6, <3>2 DEF PendingCount
    <3> QED  BY <3>3, Counts
  <2> QED  BY <2>1, <2>2, <2>3, <2>5, <2>6, <2>n, Counts
<1> QED  BY <1>1, InvAlways, PTL
-----------------------------------------------------------------------------
(* The lock implements the abstract one. *)

\* Where a thread writes, no other thread writes or reads.
LEMMA WriterExcludes ==
  ASSUME LockInv, NEW t \in Threads, Writes(t), NEW u \in Threads, u # t
  PROVE  ~Writes(u) /\ ~Reads(u)
<1>1. ~Writes(u)  BY OneWriter
<1>2. numActiveWriters = 1  BY OneWriter
<1>3. Reads(u) => Writes(u)  BY <1>2 DEF LockInv, Exclusion
<1> QED  BY <1>1, <1>3

\* Nobody writes while no writer is active, and nobody reads while no reader is.
LEMMA NobodyActive ==
  ASSUME LockInv
  PROVE  /\ numActiveWriters = 0 => \A t \in Threads : ~Writes(t)
         /\ numActiveReaders = 0 => \A t \in Threads : ~Reads(t)
<1>1. /\ numActiveWriters = 0 => writers = 0
      /\ numActiveReaders = 0 => readers = 0
  BY Counts DEF LockInv, TypeOK, ActiveCount
<1> QED  BY <1>1, Counts

\* How a thread with these counts holds the lock, and what a step of one thread
\* does to the mode of all.
Mode(r, w) == IF w > 0 THEN "write" ELSE IF r > 0 THEN "read" ELSE "none"

LEMMA ModeStep ==
  ASSUME NEW t \in Threads,
         \A u \in Threads : u # t => numReaders'[u] = numReaders[u] /\ numWriters'[u] = numWriters[u]
  PROVE  /\ lockMode[t] = Mode(numReaders[t], numWriters[t])
         /\ lockMode' = [lockMode EXCEPT ![t] = Mode(numReaders'[t], numWriters'[t])]
         /\ Mode(numReaders'[t], numWriters'[t]) = lockMode[t] => lockMode' = lockMode
<1>1. /\ lockMode = [u \in Threads |-> Mode(numReaders[u], numWriters[u])]
      /\ lockMode' = [u \in Threads |-> Mode(numReaders'[u], numWriters'[u])]
  BY DEF lockMode, Mode, Reads, Writes
<1>2. \A u \in Threads : u # t => Mode(numReaders'[u], numWriters'[u]) = lockMode[u]
  BY <1>1
<1>3. lockMode[t] = Mode(numReaders[t], numWriters[t])  BY <1>1
<1> QED  BY <1>1, <1>2, <1>3

\* The mode of a thread says what it holds.
LEMMA ModeSays ==
  ASSUME NEW t \in Threads
  PROVE  /\ lockMode[t] = "write" <=> Writes(t)
         /\ lockMode[t] = "none" <=> ~Writes(t) /\ ~Reads(t)
  BY DEF lockMode

LEMMA StepImplements ==
  ASSUME LockInv, ~Upgrades, [Next]_vars
  PROVE  [Abstract!RWNext]_lockMode
<1> USE DEF LockInv
<1>1. ASSUME UNCHANGED <<numReaders, numWriters>> PROVE UNCHANGED lockMode
  BY <1>1 DEF lockMode, Reads, Writes
<1>2. ASSUME NEW t \in Threads, CaptureReadFree(t) \/ WakeReader(t)
      PROVE  Abstract!AcquireRead(t)
  <2>1. /\ numReaders[t] = 0 /\ numWriters[t] = 0 /\ numReaders'[t] = 1
        /\ \A u \in Threads : u # t => numReaders'[u] = numReaders[u]
        /\ UNCHANGED numWriters
    BY <1>2, Captures
       DEF TypeOK, Entries, Waiting, CaptureReadFree, BecomesReader, HasEntry, WakeReader
  <2>2. numActiveWriters = 0
    BY <1>2 DEF TypeOK, Exclusion, CaptureReadFree, WakeReader
  <2>3. lockMode[t] = "none" /\ \A u \in Threads : lockMode[u] # "write"
    BY <2>1, <2>2, NobodyActive, ModeSays DEF Reads, Writes
  <2>4. lockMode' = [lockMode EXCEPT ![t] = "read"]  BY <2>1, ModeStep DEF Mode
  <2> QED  BY <2>3, <2>4 DEF Abstract!AcquireRead
<1>3. ASSUME NEW t \in Threads, CaptureWriteFree(t) \/ WakeWriter(t)
      PROVE  Abstract!AcquireWrite(t)
  <2>1. /\ numWriters'[t] > 0 /\ UNCHANGED numReaders
        /\ \A u \in Threads : u # t => numWriters'[u] = numWriters[u]
    BY <1>3, Captures DEF TypeOK, CaptureWriteFree, WakeWriter
  <2>2. \A u \in Threads : ~Writes(u) /\ ~Reads(u)
    <3>1. CASE CaptureWriteFree(t)
      <4>1. numActiveWriters = 0 /\ numActiveReaders = 0
        BY <3>1 DEF NoPromotion, CaptureWriteFree, MayWrite, WriteIsFree, IsReader, CountSet
      <4> QED  BY <4>1, NobodyActive
    <3>2. CASE WakeWriter(t)
      <4>1. writeHandle > 0 /\ numActiveWriters = 1 /\ writers = 0
        BY <3>2, Counts DEF TypeOK, ActiveCount, Exclusion, WakeWriter
      <4>2. \A u \in Threads : ~Writes(u)  BY <4>1, Counts
      <4> QED  BY <4>1, <4>2 DEF Exclusion
    <3> QED  BY <1>3, <3>1, <3>2
  <2>3. \A u \in Threads : lockMode[u] = "none"  BY <2>2, ModeSays
  <2>4. lockMode' = [lockMode EXCEPT ![t] = "write"]  BY <2>1, ModeStep DEF Mode
  <2> QED  BY <2>3, <2>4 DEF Abstract!AcquireWrite
<1>4. ASSUME NEW t \in Threads, CaptureReadAgain(t) \/ CaptureWriteAgain(t)
                               \/ ReleaseReadNested(t) \/ ReleaseWriteNested(t)
      PROVE  UNCHANGED lockMode
  <2>1. numReaders[t] \in Nat /\ numWriters[t] \in Nat  BY DEF TypeOK
  <2>2. CASE CaptureReadAgain(t)
    <3>1. numReaders[t] > 0 \/ numWriters[t] > 0
      BY <2>2 DEF TypeOK, Entries, Waiting, CaptureReadAgain, MayCapture, HasEntry
    <3> QED  BY <2>1, <2>2, <3>1, Captures, ModeStep DEF Mode, CaptureReadAgain
  <2>3. CASE CaptureWriteAgain(t)
    BY <2>1, <2>3, Captures, ModeStep DEF Mode, CaptureWriteAgain
  <2>4. CASE ReleaseReadNested(t)
    BY <2>1, <2>4, Releases, ModeStep DEF Mode, ReleaseReadNested
  <2>5. CASE ReleaseWriteNested(t)
    BY <2>1, <2>5, Releases, ModeStep DEF Mode, ReleaseWriteNested
  <2> QED  BY <1>4, <2>2, <2>3, <2>4, <2>5
<1>5. ASSUME NEW t \in Threads, ReleaseRead(t)
      PROVE  Abstract!Release(t) \/ UNCHANGED lockMode
  <2>1. numReaders[t] = 1 /\ numReaders'[t] = 0 /\ UNCHANGED numWriters
        /\ \A u \in Threads : u # t => numReaders'[u] = numReaders[u]
    BY <1>5, Releases DEF ReleaseRead, LastRead
  <2>2. CASE Writes(t)  BY <2>1, <2>2, ModeStep DEF Mode, Writes
  <2>3. CASE ~Writes(t)
    BY <2>1, <2>3, ModeStep, ModeSays DEF Mode, Reads, Writes, Abstract!Release
  <2> QED  BY <2>2, <2>3
<1>6. ASSUME NEW t \in Threads, ReleaseToWriter(t) \/ ReleaseToReaders(t)
      PROVE  Abstract!Release(t)
  <2>1. LastWrite(t) /\ UNCHANGED numReaders
    BY <1>6 DEF ReleaseToWriter, ReleaseToReaders
  <2>2. /\ numWriters[t] = 1 /\ numWriters'[t] = 0 /\ numReaders[t] = 0
        /\ \A u \in Threads : u # t => numWriters'[u] = numWriters[u]
    BY <2>1, Releases DEF LastWrite
  <2> QED  BY <2>1, <2>2, ModeStep, ModeSays DEF Mode, Writes, Abstract!Release
<1>7. ASSUME NEW t \in Threads, CaptureReadBlocks(t) \/ CaptureWriteBlocks(t)
                               \/ ClearBit(t) \/ Post(t)
      PROVE  UNCHANGED lockMode
  BY <1>1, <1>7 DEF CaptureReadBlocks, CaptureWriteBlocks, ClearBit, Post
<1>8. CASE UNCHANGED vars  BY <1>1, <1>8 DEF vars
<1>9. ASSUME NEW t \in Threads, Capture(t) \/ Admitted(t) \/ ReleaseAny(t)
      PROVE  Abstract!RWNext \/ UNCHANGED lockMode
  BY <1>2, <1>3, <1>4, <1>5, <1>6, <1>7, <1>9
     DEF Capture, Admitted, ReleaseAny, Abstract!RWNext
<1> QED  BY <1>8, <1>9 DEF Next

\* The functions of fm_alos_rwlock.c implement a lock that many threads hold to read
\* or one holds to write, for any number of threads and depth of nesting.
THEOREM LockImplemented ==
  ASSUME ~Upgrades PROVE Spec => ImplementsLock
<1>1. Init => Abstract!RWInit  BY DEF Init, Abstract!RWInit, lockMode, Reads, Writes
<1>2. LockInv /\ [Next]_vars => [Abstract!RWNext]_lockMode  BY StepImplements
<1> QED  BY <1>1, <1>2, InvAlways, PTL DEF Spec, ImplementsLock, Abstract!RWSpec
=============================================================================
