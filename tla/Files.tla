------------------------------- MODULE Files -------------------------------
(***************************************************************************)
(* How files are written and copied (helpers/helpers.go, cp.go, cmp.go):   *)
(* AtomicWriteFile for configuration, CopyFile for policies and time       *)
(* zones, CopyIfDifferent for boot assets and RSyncWithDelete for the boot *)
(* files of the other system.                                              *)
(*                                                                         *)
(* What processes see is not what a power cut leaves: data that was not    *)
(* synced may be cut off anywhere, and a directory that was not synced may *)
(* have the entry from before a create, a rename or a remove.              *)
(***************************************************************************)
EXTENDS Integers, SequencesExt

CONSTANTS Data,         \* the contents of files, sequences of bytes
          bufsz,        \* bytes that are compared at a time
          maxcp,        \* bytes that sendfile copies at a time, at most
          MaxFileOps, MaxFileFaults

ASSUME FilesAssumption ==
    /\ bufsz \in Nat \ {0} /\ maxcp \in Nat \ {0} /\ MaxFileOps \in Nat /\ MaxFileFaults \in Nat
    /\ \A d \in Data : d \in Seq(Nat)

BootFiles == <<"initrd", "kernel">>   \* the boot files, in the order of Walk
Config == "hostname"
Linked == "writable/hostname"    \* where a link at Config leads
Temp == "hostname.random"

Path == Range(BootFiles) \union {Config, Linked, Temp}

Absent == [is |-> "absent", data |-> << >>, synced |-> TRUE]
Symlink == [is |-> "link", data |-> << >>, synced |-> TRUE]
File(data, synced) == [is |-> "file", data |-> data, synced |-> synced]

VARIABLES
    running,     \* the boot files of the running system
    now,         \* what processes see at a path
    back,        \* what a power cut may bring back there
    fileCalls,   \* the calls the operation has still to make
    fileOp,      \* the operation: its name, path and contents
    fileResult,  \* what it returned, and whether power was cut since
    fileOps, fileFaults

fileVars == <<running, now, back, fileCalls, fileOp, fileResult, fileOps, fileFaults>>

FileTypeOK ==
    /\ running \in [Range(BootFiles) -> Data \union {<< >>}]
    /\ \A p \in Path : \A e \in {now[p]} \union back[p] : e.is \in {"absent", "link", "file"}
    /\ fileResult \in {"none", "ok", "ok, then cut", "error"}
    /\ fileOps \in 0..MaxFileOps /\ fileFaults \in 0..MaxFileFaults

FileInit ==
    /\ running \in [Range(BootFiles) -> Data \union {<< >>}]
    /\ \E config \in {Symlink, File(<<0>>, TRUE)}, boot \in [Range(BootFiles) -> Data \union {<< >>}] :
          now = [p \in Path |->
                   CASE p \in Range(BootFiles) -> IF boot[p] = << >> THEN Absent ELSE File(boot[p], TRUE)
                     [] p = Config -> config
                     [] p = Linked -> File(<<0>>, TRUE)
                     [] OTHER -> Absent]
    /\ back = [p \in Path |-> {}]
    /\ fileCalls = << >> /\ fileOp = <<"none", Config, << >>>> /\ fileResult = "none"
    /\ fileOps = 0 /\ fileFaults = 0

----------------------------------------------------------------------------
(* Comparing.                                                              *)

\* io.ReadAtLeast of bufsz bytes at an offset.
ReadAtLeast(data, at) ==
    LET n == IF Len(data) - at < bufsz THEN Len(data) - at ELSE bufsz
    IN  [bytes |-> SubSeq(data, at + 1, at + n),
         err |-> CASE n = 0 -> "EOF" [] n < bufsz -> "UnexpectedEOF" [] OTHER -> "nil"]

\* Variant: two ends in the middle of a buffer are taken for equal.
streamsEqualTail(a, b) ==
    LET equal[at \in 0..Len(a)] ==
          LET ra == ReadAtLeast(a, at)
              rb == ReadAtLeast(b, at)
          IN  \/ ra.err # "nil" /\ ra.err = rb.err
              \/ /\ ra.err = "nil" /\ rb.err = "nil"
                 /\ ra.bytes = rb.bytes /\ equal[at + Len(ra.bytes)]
    IN  equal[0]

streamsEqual(a, b) ==
    LET equal[at \in 0..Len(a)] ==
          LET ra == ReadAtLeast(a, at)
              rb == ReadAtLeast(b, at)
          IN  \/ ra.err = "EOF" /\ rb.err = "EOF"
              \/ /\ ra.err = rb.err /\ ra.err # "EOF"
                 /\ ra.bytes = rb.bytes /\ equal[at + Len(ra.bytes)]
    IN  equal[0]

\* A file that is not there is equal to none.
FilesAreEqual(data, p) ==
    /\ now[p].is = "file" /\ Len(data) = Len(now[p].data)
    /\ streamsEqual(data, now[p].data)

----------------------------------------------------------------------------
(* The operations.                                                         *)

StartFileOp(op, calls) ==
    /\ fileCalls = << >> /\ fileOps < MaxFileOps /\ fileOps' = fileOps + 1
    /\ fileOp' = op /\ fileCalls' = calls
    /\ fileResult' = IF calls = << >> THEN "ok" ELSE "none"
    /\ UNCHANGED <<running, now, back, fileFaults>>

\* Variant: the data is not synced before the rename.
AtomicCallsUnsynced == <<"temp", "write", "rename", "sync dir">>

AtomicCalls == <<"temp", "write", "sync", "rename", "sync dir">>

\* With AtomicWriteFollow a link is followed, otherwise it is replaced.
AtomicWriteFile(data, follow) ==
    LET p == IF follow /\ now[Config].is = "link" THEN Linked ELSE Config
    IN  StartFileOp(<<"write", p, data>>, AtomicCalls)

copyCalls(sync) == <<"create", "copy">> \o (IF sync THEN <<"sync">> ELSE << >>)

\* Without CopyFlagOverwrite the file must not be there.
CopyFile(p, sync, overwrite) ==
    /\ running[p] # << >>
    /\ StartFileOp(<<IF overwrite THEN "overwrite" ELSE "copy", p, running[p]>>, copyCalls(sync))

CopyIfDifferent(p) ==
    /\ running[p] # << >>
    /\ StartFileOp(<<"overwrite", p, running[p]>>,
                   IF FilesAreEqual(running[p], p) THEN << >> ELSE copyCalls(TRUE))

\* First what is not in the source goes, then each file is looked at.
RSyncWithDelete ==
    StartFileOp(<<"rsync", BootFiles[1], << >>>>,
        [i \in DOMAIN BootFiles |-> <<"delete", BootFiles[i]>>]
          \o [i \in DOMAIN BootFiles |-> <<"sync", BootFiles[i]>>])

----------------------------------------------------------------------------
(* The calls.                                                              *)

\* The file at p becomes e; until that is synced the old one may return.
Enter(p, e) ==
    /\ now' = [now EXCEPT ![p] = e]
    /\ back' = [back EXCEPT ![p] = @ \union {now[p]}]

Finish(calls) ==
    /\ fileCalls' = calls /\ fileResult' = IF calls = << >> THEN "ok" ELSE "none"
    /\ UNCHANGED <<running, fileOp, fileOps, fileFaults>>

\* sendfile copies less than is asked for when it likes.
doCopyFile(p, data) ==
    LET offset == Len(now[p].data)
    IN  \E n \in 1..maxcp : /\ offset + n <= Len(data)
                            /\ now' = [now EXCEPT ![p] = File(SubSeq(data, 1, offset + n), FALSE)]

FileCall ==
    LET c == Head(fileCalls)
        p == IF fileOp[1] = "write" /\ c \in {"temp", "write", "sync"} THEN Temp ELSE fileOp[2]
        data == fileOp[3]
    IN  /\ fileCalls # << >> /\ fileOp[1] # "rsync"
        /\ c = "create" /\ fileOp[1] = "copy" => now[p].is = "absent"
        /\ \/ c \in {"temp", "create"} /\ Enter(p, File(<< >>, FALSE))
           \/ c = "write" /\ now' = [now EXCEPT ![p] = File(data, FALSE)] /\ UNCHANGED back
           \/ c = "copy" /\ doCopyFile(p, data) /\ UNCHANGED back
           \/ /\ c = "sync" /\ now' = [now EXCEPT ![p].synced = TRUE]
              /\ back' = [back EXCEPT ![p] = {e \in @ : e.is = "absent"}]
           \/ /\ c = "rename"
              /\ now' = [now EXCEPT ![p] = now[Temp], ![Temp] = Absent]
              /\ back' = [back EXCEPT ![p] = @ \union {now[p]}, ![Temp] = @ \union {now[Temp]}]
           \/ /\ c = "sync dir" /\ UNCHANGED now
              /\ back' = [q \in Path |-> IF q \in {p, Temp} THEN {} ELSE back[q]]
        /\ Finish(IF c = "copy" /\ now'[p].data # data THEN fileCalls ELSE Tail(fileCalls))

\* One file of the walks: what differs is copied by cp, which may be cut short.
RSyncCall ==
    LET c == Head(fileCalls)[1]
        p == Head(fileCalls)[2]
    IN  /\ fileCalls # << >> /\ fileOp[1] = "rsync"
        /\ IF c = "delete" /\ running[p] = << >> /\ now[p].is # "absent" THEN Enter(p, Absent)
           ELSE IF c = "sync" /\ running[p] # << >> /\ ~FilesAreEqual(running[p], p)
           THEN Enter(p, File(running[p], FALSE))
           ELSE UNCHANGED <<now, back>>
        /\ Finish(Tail(fileCalls))

Beginning(data) == {SubSeq(data, 1, n) : n \in 0..Len(data)}

(* A call fails and the operation returns: cp may have copied a part, and  *)
(* AtomicWriteFile removes its temporary file.                             *)
FileCallFails ==
    LET c == Head(fileCalls)
        p == fileOp[2]
    IN  /\ fileCalls # << >>
        /\ \/ /\ c = "create" /\ fileOp[1] = "copy" /\ now[p].is # "absent"
              /\ UNCHANGED <<now, back, fileFaults>>
           \/ /\ fileFaults < MaxFileFaults /\ fileFaults' = fileFaults + 1
              /\ \/ fileOp[1] = "write" /\ now[Temp].is = "file" /\ Enter(Temp, Absent)
                 \/ ~(fileOp[1] = "write" /\ now[Temp].is = "file") /\ UNCHANGED <<now, back>>
                 \/ /\ fileOp[1] = "rsync" /\ c[1] = "sync" /\ ~FilesAreEqual(running[c[2]], c[2])
                    /\ \E d \in Beginning(running[c[2]]) : Enter(c[2], File(d, FALSE))
        /\ fileCalls' = << >> /\ fileResult' = "error"
        /\ UNCHANGED <<running, fileOp, fileOps>>

\* What may be on disk of an entry.
Survives(e) == IF e.synced THEN {e} ELSE {File(d, TRUE) : d \in Beginning(e.data)}

\* Power is cut; each path is as it was, or as it was before.  A temporary
\* file that is left gets in nobody's way: the next one has another name.
FilePowerCut ==
    LET May(p) == UNION {Survives(e) : e \in {now[p]} \union back[p]}
    IN  /\ fileFaults < MaxFileFaults /\ fileFaults' = fileFaults + 1
        /\ \E initrd \in May(BootFiles[1]), kernel \in May(BootFiles[2]),
              config \in May(Config), target \in May(Linked) :
              now' = [now EXCEPT ![BootFiles[1]] = initrd, ![BootFiles[2]] = kernel,
                                 ![Config] = config, ![Linked] = target, ![Temp] = Absent]
        /\ back' = [p \in Path |-> {}] /\ fileCalls' = << >>
        /\ fileResult' = IF fileResult \in {"ok", "ok, then cut"} THEN "ok, then cut" ELSE "none"
        /\ UNCHANGED <<running, fileOp, fileOps>>

FileNext ==
    \/ \E data \in Data, follow \in BOOLEAN : AtomicWriteFile(data, follow)
    \/ \E p \in Range(BootFiles) : \/ CopyIfDifferent(p)
                              \/ \E sync, overwrite \in BOOLEAN : CopyFile(p, sync, overwrite)
    \/ RSyncWithDelete
    \/ FileCall \/ RSyncCall \/ FileCallFails \/ FilePowerCut

----------------------------------------------------------------------------
(* A file that is written with AtomicWriteFile ("updates the filename      *)
(* atomically") always has the whole of its old or of its new contents,    *)
(* also after a power cut at any point, and when the call has returned it  *)
(* has the new ones for good.                                              *)
OldOrNew ==
    /\ \A p \in {Config, Linked} :
          now[p].is = "link" \/ (now[p].is = "file" /\ now[p].data \in Data \union {<<0>>})
    /\ fileResult \in {"ok", "ok, then cut"} /\ fileOp[1] = "write" =>
          now[fileOp[2]] = File(fileOp[3], TRUE)

(* A copy that returned without error has copied, whatever a failed        *)
(* attempt or a power cut had left there: after RSyncWithDelete the boot   *)
(* files are those of the running system, after CopyFile and               *)
(* CopyIfDifferent the file has the contents of its source.                *)
CopiedIsEqual ==
    fileResult = "ok" =>
        /\ fileOp[1] = "rsync" => \A p \in Range(BootFiles) :
              IF running[p] = << >> THEN now[p].is = "absent" ELSE now[p].data = running[p]
        /\ fileOp[1] \in {"copy", "overwrite"} => now[fileOp[2]].data = fileOp[3]
=============================================================================
