-------------------------- MODULE ReaderWriterLock --------------------------
(***************************************************************************)
(* What the functions of src/alos/linux/fm_alos_rwlock.c promise their     *)
(* callers: a lock that any number of threads hold to read, or one thread  *)
(* holds to write.  A thread that writes may also read, and stays a writer.*)
(***************************************************************************)
CONSTANT Threads
VARIABLE mode \* how each thread holds the lock

RWInit == mode = [t \in Threads |-> "none"]

AcquireRead(t) == /\ mode[t] = "none"
                  /\ \A u \in Threads : mode[u] # "write"
                  /\ mode' = [mode EXCEPT ![t] = "read"]

AcquireWrite(t) == /\ \A u \in Threads : mode[u] = "none"
                   /\ mode' = [mode EXCEPT ![t] = "write"]

Release(t) == /\ mode[t] # "none"
              /\ mode' = [mode EXCEPT ![t] = "none"]

RWNext == \E t \in Threads : AcquireRead(t) \/ AcquireWrite(t) \/ Release(t)

RWSpec == RWInit /\ [][RWNext]_mode
=============================================================================
