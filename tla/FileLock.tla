------------------------------ MODULE FileLock ------------------------------
(***************************************************************************)
(* The lock that serialises the snappy commands: a flock(2) on             *)
(* /run/snappy.lock (priv/priv.go, priv/filelock.go), polled by            *)
(* withMutexAndRetry (cmd/snappy/common.go).                               *)
(*                                                                         *)
(* Locking takes two system calls, open(O_CREAT) and flock, and unlocking  *)
(* takes three, flock(LOCK_UN), close and unlink, and other processes run  *)
(* between any two of them.  flock locks the inode, not the name, so the   *)
(* model tells the inode at the path from the inode a process has open.    *)
(***************************************************************************)
EXTENDS FiniteSets, Naturals

CONSTANTS Process,  \* the snappy processes
          Inode     \* identities of the files created at the path

\* A process that creates the file finds an inode that no other has open.
ASSUME FileLockAssumption ==
    /\ IsFiniteSet(Process) /\ IsFiniteSet(Inode)
    /\ Cardinality(Inode) >= Cardinality(Process)

NoFile == "no file"
Nobody == "nobody"

ASSUME NoFileAssumption == NoFile \notin Inode /\ Nobody \notin Process

VARIABLES
    path,   \* the inode that snappyLockFile names, or NoFile
    owner,  \* the process that holds the flock of each inode, or Nobody
    fd,     \* the inode each process' FileLock.realFile is open on, or NoFile
    pc,     \* where each process is
    raced   \* history: the file was unlinked under a process that relied on it

vars == <<path, owner, fd, pc, raced>>

\* Processes that will hold, or do hold, the lock of the file they opened.
Engaged == {p \in Process : pc[p] \in {"flock", "critical"}}

TypeOK ==
    /\ path \in Inode \union {NoFile}
    /\ owner \in [Inode -> Process \union {Nobody}]
    /\ fd \in [Process -> Inode \union {NoFile}]
    /\ pc \in [Process -> {"idle", "retry", "flock", "critical", "remove"}]
    /\ raced \in BOOLEAN
    /\ \A p \in Process : fd[p] = NoFile <=> pc[p] \in {"idle", "retry"}

Init ==
    /\ path = NoFile
    /\ owner = [i \in Inode |-> Nobody]
    /\ fd = [p \in Process |-> NoFile]
    /\ pc = [p \in Process |-> "idle"]
    /\ raced = FALSE

Unused == {i \in Inode : i # path /\ \A p \in Process : fd[p] # i}

\* Variant: O_EXCL, so that a file left behind counts as a lock.
OpenFileExclusive(p) ==
    /\ pc[p] \in {"idle", "retry"}
    /\ \/ /\ path = NoFile
          /\ \E i \in Unused : path' = i /\ fd' = [fd EXCEPT ![p] = i]
          /\ pc' = [pc EXCEPT ![p] = "flock"]
       \/ /\ path # NoFile
          /\ pc' = [pc EXCEPT ![p] = "retry"]
          /\ UNCHANGED <<path, fd>>
    /\ UNCHANGED <<owner, raced>>

(* A command starts, or tries again 5 seconds after ErrAlreadyLocked: the  *)
(* file is opened, or created when there is none.                          *)
OpenFile(p) ==
    /\ pc[p] \in {"idle", "retry"}
    /\ pc' = [pc EXCEPT ![p] = "flock"]
    /\ \/ path # NoFile /\ fd' = [fd EXCEPT ![p] = path] /\ UNCHANGED path
       \/ path = NoFile /\ \E i \in Unused : path' = i /\ fd' = [fd EXCEPT ![p] = i]
    /\ UNCHANGED <<owner, raced>>

\* Variant: a shared lock.
FlockShared(p) ==
    /\ pc[p] = "flock"
    /\ pc' = [pc EXCEPT ![p] = "critical"]
    /\ owner' = [owner EXCEPT ![fd[p]] = p]
    /\ UNCHANGED <<path, fd, raced>>

(* flock(LOCK_EX|LOCK_NB).  A failed FileLock is dropped with its file     *)
(* open, and withMutexAndRetry makes a new one.                            *)
Flock(p) ==
    /\ pc[p] = "flock"
    /\ \/ /\ owner[fd[p]] = Nobody
          /\ owner' = [owner EXCEPT ![fd[p]] = p]
          /\ pc' = [pc EXCEPT ![p] = "critical"]
          /\ UNCHANGED fd
       \/ /\ owner[fd[p]] # Nobody
          /\ pc' = [pc EXCEPT ![p] = "retry"]
          /\ fd' = [fd EXCEPT ![p] = NoFile]
          /\ UNCHANGED owner
    /\ UNCHANGED <<path, raced>>

\* f() has returned and the deferred Unlock runs: flock(LOCK_UN).
Unflock(p) ==
    /\ pc[p] = "critical"
    /\ pc' = [pc EXCEPT ![p] = "remove"]
    /\ owner' = [owner EXCEPT ![fd[p]] = Nobody]
    /\ UNCHANGED <<path, fd, raced>>

(* Close, and unlink whatever file the path names by then; the error of an *)
(* unlink that finds none is lost with the deferred call's result.         *)
RemoveFile(p) ==
    /\ pc[p] = "remove"
    /\ pc' = [pc EXCEPT ![p] = "idle"]
    /\ fd' = [fd EXCEPT ![p] = NoFile]
    /\ path' = NoFile
    /\ raced' = IF path # NoFile /\ \E q \in Engaged : fd[q] = path THEN TRUE ELSE raced
    /\ UNCHANGED owner

\* ctrl-c or a kill: the kernel closes the file, which ends its flock.
Killed(p) ==
    /\ pc[p] # "idle"
    /\ pc' = [pc EXCEPT ![p] = "idle"]
    /\ fd' = [fd EXCEPT ![p] = NoFile]
    /\ owner' = [i \in Inode |-> IF owner[i] = p THEN Nobody ELSE owner[i]]
    /\ UNCHANGED <<path, raced>>

Step(p) == OpenFile(p) \/ Flock(p) \/ Unflock(p) \/ RemoveFile(p)

Next == \E p \in Process : Step(p) \/ Killed(p)

Spec == Init /\ [][Next]_vars

\* A command that has started goes on until it ends.
Fairness == \A p \in Process : WF_vars(pc[p] # "idle" /\ Step(p))

FairSpec == Spec /\ Fairness

----------------------------------------------------------------------------
(* AtMostOneRuns: the FileLock serialises the functions that WithMutex     *)
(* runs.                                                                   *)
AtMostOneRuns ==
    \A p, q \in Process : pc[p] = "critical" /\ pc[q] = "critical" => p = q

(* OverlapOnlyAfterUnlink: as long as Unlock's os.Remove never hit a file  *)
(* that another process had opened and was about to lock or had locked, no *)
(* two commands overlap, processes that are killed at any point included.  *)
OverlapOnlyAfterUnlink == ~raced => AtMostOneRuns

(* LoneCommandRuns: a command with no other command around gets the lock   *)
(* and ends, whatever file earlier commands that were killed left behind   *)
(* (Lock opens the file without O_EXCL because only the lock on it counts). *)
LoneCommandRuns ==
    \A p \in Process :
        ~<>[](pc[p] # "idle" /\ \A q \in Process \ {p} : pc[q] = "idle")
=============================================================================
