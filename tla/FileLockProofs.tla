--------------------------- MODULE FileLockProofs ---------------------------
(***************************************************************************)
(* Theorems about FileLock, for any number of processes.                   *)
(***************************************************************************)
EXTENDS FileLock, TLAPS

(* TypeCorrect: the lock's state keeps its type, and a process has the     *)
(* file open exactly between OpenFile in Lock and Close in Unlock.         *)
THEOREM TypeCorrect == Spec => []TypeOK
<1>1. Init => TypeOK
  BY NoFileAssumption, Zenon DEF Init, TypeOK
<1>2. TypeOK /\ [Next]_vars => TypeOK'
  <2> SUFFICES ASSUME TypeOK, [Next]_vars PROVE TypeOK'
    OBVIOUS
  <2> USE NoFileAssumption DEF TypeOK
  <2>1. ASSUME NEW p \in Process, OpenFile(p) PROVE TypeOK'
    BY <2>1 DEF OpenFile, Unused
  <2>2. ASSUME NEW p \in Process, Flock(p) PROVE TypeOK'
    BY <2>2 DEF Flock
  <2>3. ASSUME NEW p \in Process, Unflock(p) PROVE TypeOK'
    BY <2>3 DEF Unflock
  <2>4. ASSUME NEW p \in Process, RemoveFile(p) PROVE TypeOK'
    BY <2>4, Zenon DEF RemoveFile
  <2>5. ASSUME NEW p \in Process, Killed(p) PROVE TypeOK'
    BY <2>5 DEF Killed
  <2>6. CASE UNCHANGED vars
    BY <2>6 DEF vars
  <2> QED
    BY <2>1, <2>2, <2>3, <2>4, <2>5, <2>6 DEF Next, Step
<1> QED
  BY <1>1, <1>2, PTL DEF Spec

(* Who is recorded as the owner of an inode is in the critical section     *)
(* with that inode open, and the other way round; and until a file was     *)
(* unlinked under somebody, everybody who relies on a file relies on the   *)
(* one the path names.                                                     *)
LockInv ==
    /\ \A p \in Process : pc[p] = "critical" => owner[fd[p]] = p
    /\ \A i \in Inode : owner[i] # Nobody => pc[owner[i]] = "critical" /\ fd[owner[i]] = i
    /\ ~raced => \A p \in Engaged : fd[p] = path

LEMMA LockInvInductive == TypeOK /\ LockInv /\ [Next]_vars => LockInv'
<1> SUFFICES ASSUME TypeOK, LockInv, [Next]_vars PROVE LockInv'
  OBVIOUS
<1> USE NoFileAssumption DEF TypeOK, LockInv, Engaged
<1>1. ASSUME NEW p \in Process, OpenFile(p) PROVE LockInv'
  BY <1>1 DEF OpenFile, Unused
<1>2. ASSUME NEW p \in Process, Flock(p) PROVE LockInv'
  BY <1>2 DEF Flock
<1>3. ASSUME NEW p \in Process, Unflock(p) PROVE LockInv'
  BY <1>3 DEF Unflock
<1>4. ASSUME NEW p \in Process, RemoveFile(p) PROVE LockInv'
  BY <1>4 DEF RemoveFile
<1>5. ASSUME NEW p \in Process, Killed(p) PROVE LockInv'
  BY <1>5 DEF Killed
<1>6. CASE UNCHANGED vars
  BY <1>6 DEF vars
<1> QED
  BY <1>1, <1>2, <1>3, <1>4, <1>5, <1>6 DEF Next, Step

(* SerialCorrect: two commands overlap only after Unlock's os.Remove       *)
(* unlinked a file that another process had opened in Lock.                *)
THEOREM SerialCorrect == Spec => []OverlapOnlyAfterUnlink
<1>1. Init => LockInv
  BY DEF Init, LockInv, Engaged
<1>2. TypeOK /\ LockInv => OverlapOnlyAfterUnlink
  BY DEF TypeOK, LockInv, Engaged, OverlapOnlyAfterUnlink, AtMostOneRuns
<1> QED
  BY <1>1, <1>2, LockInvInductive, TypeCorrect, PTL DEF Spec
=============================================================================
