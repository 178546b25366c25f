------------------------------ MODULE Archive ------------------------------
(***************************************************************************)
(* A click package from its source directory to the directory it is        *)
(* installed in: BuildLegacySnap (snappy/build.go), ClickDeb.Build, Verify *)
(* and Unpack (pkg/clickdeb), the tar helpers, and the process without     *)
(* privileges that unpacks (cmd/snappy/cmd_internal_unpack.go).            *)
(*                                                                         *)
(* The package is a file in which one member follows the other; a member   *)
(* that was cut short is there but not whole.  A build or an unpacking may *)
(* fail or be cut off at any step and is tried again.                      *)
(***************************************************************************)
EXTENDS Integers, SequencesExt

(* An entry of a tree is a record: its path as a sequence of names, its    *)
(* kind, and whether it is ignored, is DEBIAN (or in it), or begins with   *)
(* that.                                                                   *)
CONSTANTS Trees,             \* source directories, in the order of a walk
          Profiles,          \* the paths of the apparmor files a build adds
          MaxPackFaults, MaxTries

ASSUME ArchiveAssumption ==
    /\ MaxPackFaults \in Nat /\ MaxTries \in Nat
    /\ \A t \in Trees : \A e \in Range(t) :
          /\ e.kind \in {"dir", "file", "symlink", "device", "fifo"}
          /\ e.name \in {"plain", "ignored", "DEBIAN", "DEBIAN..."}

EmptySnap == [control |-> [there |-> FALSE, whole |-> FALSE, hashes |-> {}],
              data |-> [there |-> FALSE, whole |-> FALSE, entries |-> << >>]]

VARIABLES
    tree,       \* the source directory
    buildDir,   \* what was copied of it
    tars,       \* control.tar.gz and data.tar.gz in the temporary directory
    hashed,     \* the paths in DEBIAN/hashes.yaml
    snap,       \* the package: its control.tar.gz and its data.tar.gz
    packer,     \* where a build or an unpacking is
    rights,     \* what the unpacking process has given up
    place,      \* how many entries it has unpacked
    instDir,    \* what is in the directory
    skipped,    \* the directories that were silently left out
    packed,     \* what the last operation returned
    tries, packFaults

packVars == <<tree, buildDir, tars, hashed, snap, packer, rights, place, instDir, skipped,
              packed, tries, packFaults>>

\* What handleApparmor generates.
Generated(path) == [path |-> path, kind |-> "file", name |-> "plain"]

generated == {Generated(path) : path \in Range(Profiles)}

\* The calls that give up privileges, in their order.
Drops == <<"mkdir", "chown", "no_new_privs", "setgroups", "setgid", "setuid", "check">>

PackTypeOK ==
    /\ tree \in Trees /\ Range(buildDir) \subseteq Range(tree) \union generated
    /\ packer \in {"idle", "prepare", "data", "hashes", "control", "magic", "add control",
                   "add data", "verify", "members", "drop", "unpack", "compat", "extract"}
    /\ rights \in 0..Len(Drops) /\ place \in 0..Len(buildDir)
    /\ packed \in {"none", "built", "installed", "error"}
    /\ tries \in 0..MaxTries /\ packFaults \in 0..MaxPackFaults

PackInit ==
    /\ tree \in Trees /\ buildDir = << >> /\ tars = EmptySnap /\ hashed = {}
    /\ snap = EmptySnap
    /\ packer = "idle" /\ rights = 0 /\ place = 0 /\ instDir = {} /\ skipped = {}
    /\ packed = "none" /\ tries = 0 /\ packFaults = 0

Paths(entries) == {e.path : e \in Range(entries)}

Returns(how) == packer' = "idle" /\ packed' = how

----------------------------------------------------------------------------
(* Building.                                                               *)

\* What is not ignored is linked or copied.
copyToBuildDir == SelectSeq(tree, LAMBDA e : e.name \in {"plain", "DEBIAN..."})

(* handleBinaries, handleServices and handleConfigHookApparmor write the   *)
(* profiles into the copy, in the place of those that are there.           *)
handleApparmor(dir) ==
    dir \o SelectSeq([i \in 1..Len(Profiles) |-> Generated(Profiles[i])],
                     LAMBDA e : e.path \notin Paths(dir))

(* Other kinds of files are refused.  The control files and the manifest   *)
(* are written last, and Create makes the package, empty, at the place of  *)
(* an older one.                                                           *)
prepare ==
    /\ packer = "prepare" /\ hashed' = {}
    /\ IF \E e \in Range(copyToBuildDir) : e.kind = "fifo"
         THEN buildDir' = copyToBuildDir /\ Returns("error") /\ UNCHANGED snap
         ELSE /\ buildDir' = handleApparmor(copyToBuildDir)
              /\ packer' = "data" /\ snap' = EmptySnap /\ UNCHANGED packed
    /\ UNCHANGED <<tree, tars, rights, place, instDir, skipped, tries, packFaults>>

\* All that begins with DEBIAN is left out.
tarCreate(entries) == SelectSeq(entries, LAMBDA e : e.name = "plain")

(* A tar file is closed by a deferred call whose error is lost: with the   *)
(* disk full it is cut short and the build goes on.                        *)
createData ==
    /\ packer = "data" /\ packer' = "hashes"
    /\ \/ /\ tars' = [tars EXCEPT !.data = [there |-> TRUE, whole |-> TRUE,
                                            entries |-> tarCreate(buildDir)]]
          /\ UNCHANGED packFaults
       \/ /\ packFaults < MaxPackFaults /\ packFaults' = packFaults + 1
          /\ \E n \in 0..Len(tarCreate(buildDir)) :
                tars' = [tars EXCEPT !.data = [there |-> TRUE, whole |-> FALSE,
                                               entries |-> SubSeq(tarCreate(buildDir), 1, n)]]
    /\ UNCHANGED <<tree, buildDir, hashed, snap, rights, place, instDir, skipped, packed, tries>>

\* The callback, between the two tar files: only DEBIAN itself is left out.
writeHashes ==
    /\ packer = "hashes" /\ packer' = "control"
    /\ hashed' = Paths(buildDir)
    /\ UNCHANGED <<tree, buildDir, tars, snap, rights, place, instDir, skipped, packed, tries, packFaults>>

\* The same for the directory DEBIAN, hashes.yaml before or behind the cut.
createControl ==
    /\ packer = "control" /\ packer' = "magic"
    /\ \/ /\ tars' = [tars EXCEPT !.control = [there |-> TRUE, whole |-> TRUE, hashes |-> hashed]]
          /\ UNCHANGED packFaults
       \/ /\ packFaults < MaxPackFaults /\ packFaults' = packFaults + 1
          /\ \E hashes \in {{}, hashed} :
                tars' = [tars EXCEPT !.control = [there |-> TRUE, whole |-> FALSE, hashes |-> hashes]]
    /\ UNCHANGED <<tree, buildDir, hashed, snap, rights, place, instDir, skipped, packed, tries>>

addDataToAr ==
    /\ packer = "magic" /\ packer' = "add control"
    /\ UNCHANGED <<tree, buildDir, tars, hashed, snap, rights, place, instDir, skipped, packed, tries,
                   packFaults>>

\* A tar file that does not open is left out without an error.
addFileToAr ==
    /\ \/ packer = "add control" /\ packer' = "add data" /\ UNCHANGED packed
       \/ packer = "add data" /\ Returns("built")
    /\ \/ /\ snap' = IF packer = "add data" THEN [snap EXCEPT !.data = tars.data]
                     ELSE [snap EXCEPT !.control = tars.control]
          /\ UNCHANGED packFaults
       \/ packFaults < MaxPackFaults /\ packFaults' = packFaults + 1 /\ UNCHANGED snap
    /\ UNCHANGED <<tree, buildDir, tars, hashed, rights, place, instDir, skipped, tries>>

----------------------------------------------------------------------------
(* Installing.                                                             *)

\* debsig-verify's exit codes.
dsSuccess == 0
dsFail == {10, 11, 12, 13, 14}

allowUnauthenticatedOkExitCode(code) == code \in {10, 11, 12}

Verify(code, allowUnauthenticated) ==
    /\ packer = "verify"
    /\ IF code = dsSuccess \/ (allowUnauthenticated /\ allowUnauthenticatedOkExitCode(code))
         THEN packer' = "members" /\ UNCHANGED packed
         ELSE Returns("error")
    /\ UNCHANGED <<tree, buildDir, tars, hashed, snap, rights, place, instDir, skipped, tries, packFaults>>

\* Variant: a tar file that breaks off is taken for one that ends.
TarIterateToBreak(tar) == tar.there

\* Whether the walk over a tar file comes to its end without an error.
TarIterate(tar) == tar.there /\ tar.whole

\* package.yaml is read from the data and the manifest from the control files.
member ==
    /\ packer = "members"
    /\ IF TarIterate(snap.data) /\ TarIterate(snap.control) THEN packer' = "drop" /\ UNCHANGED packed
       ELSE Returns("error")
    /\ UNCHANGED <<tree, buildDir, tars, hashed, snap, rights, place, instDir, skipped, tries, packFaults>>

\* The helper process, one call after the other.
unpackAndDropPrivs ==
    /\ packer = "drop" /\ rights' = rights + 1
    /\ packer' = IF rights' = Len(Drops) THEN "unpack" ELSE "drop"
    /\ UNCHANGED <<tree, buildDir, tars, hashed, snap, place, instDir, skipped, packed, tries, packFaults>>

Owner == IF rights >= 6 THEN "snappypkg" ELSE "root"

Made(path, kind, owner) == [path |-> path, kind |-> kind, owner |-> owner]

Exists(dir, path) == \E f \in dir : f.path = path

\* os.MkdirAll: the directories of these paths that are not there.
MkdirAll(dir, paths, owner) == {Made(p, "dir", owner) : p \in {q \in paths : ~Exists(dir, q)}}

\* The directories a path is in.
Parents(path) == {SubSeq(path, 1, n) : n \in 1..(Len(path) - 1)}

\* From the helper on, an error makes Install remove the directory.
InstallFails ==
    /\ Returns("error") /\ rights' = 0 /\ place' = 0
    /\ instDir' = {} /\ skipped' = {}

(* One entry, behind the directories it is in.  A directory that cannot be *)
(* made is passed over; a link that is there, and a device without         *)
(* privileges, are errors.                                                 *)
UnpackTar ==
    LET e == snap.data.entries[place + 1]
        taken == Exists(instDir, e.path)
        above == instDir \union MkdirAll(instDir, Parents(e.path), Owner)
    IN  /\ packer = "unpack" /\ place < Len(snap.data.entries)
        /\ \/ /\ e.kind = "dir" \/ e.kind = "file" \/ (e.kind = "symlink" /\ ~taken)
              /\ instDir' = IF taken THEN instDir ELSE above \union {Made(e.path, e.kind, Owner)}
              /\ place' = place + 1 /\ UNCHANGED <<rights, packer, packed, skipped, packFaults>>
           \/ /\ e.kind = "dir" /\ ~taken /\ packFaults < MaxPackFaults /\ packFaults' = packFaults + 1
              /\ instDir' = above /\ skipped' = skipped \union {e.path} /\ place' = place + 1
              /\ UNCHANGED <<rights, packer, packed>>
           \/ /\ (e.kind = "symlink" /\ taken) \/ (e.kind = "device" /\ Owner # "root")
              /\ InstallFails /\ UNCHANGED packFaults
        /\ UNCHANGED <<tree, buildDir, tars, hashed, snap, tries>>

\* The end of the tar file; the process exits.
UnpackEnds ==
    /\ packer = "unpack" /\ place = Len(snap.data.entries)
    /\ IF TarIterate(snap.data)
         THEN packer' = "compat" /\ rights' = 0 /\ place' = 0 /\ UNCHANGED <<packed, instDir, skipped>>
         ELSE InstallFails
    /\ UNCHANGED <<tree, buildDir, tars, hashed, snap, tries, packFaults>>

(* The rest is done by the privileged process, which makes the files that  *)
(* are not there and writes over those that are.                           *)
WriteFile(dir, path) ==
    dir \union (IF Exists(dir, path) THEN {} ELSE {Made(path, "file", "root")})

CompatManifest == <<".click", "info", "manifest">>
HashesFile == <<"meta", "hashes.yaml">>

writeCompatManifestJSON ==
    /\ packer = "compat" /\ packer' = "extract"
    /\ instDir' = WriteFile(instDir \union MkdirAll(instDir, Parents(CompatManifest), "root"),
                            CompatManifest)
    /\ UNCHANGED <<tree, buildDir, tars, hashed, snap, rights, place, skipped, packed, tries, packFaults>>

\* hashes.yaml is read from the control files, to their end.
ExtractHashes ==
    /\ packer = "extract"
    /\ IF TarIterate(snap.control)
         THEN /\ Returns("installed") /\ instDir' = WriteFile(instDir, HashesFile)
              /\ UNCHANGED <<rights, place, skipped>>
         ELSE InstallFails
    /\ UNCHANGED <<tree, buildDir, tars, hashed, snap, tries, packFaults>>

----------------------------------------------------------------------------
StartPack(at) ==
    /\ packer = "idle" /\ packed # "installed" /\ tries < MaxTries /\ tries' = tries + 1
    /\ packer' = at /\ packed' = "none"
    /\ UNCHANGED <<tree, buildDir, tars, hashed, snap, rights, place, instDir, skipped, packFaults>>

BuildLegacySnap == StartPack("prepare")

InstallSnap == StartPack("verify")

\* A call fails, and what was written of the package stays.
PackFails ==
    /\ packer # "idle" /\ packFaults < MaxPackFaults /\ packFaults' = packFaults + 1
    /\ IF packer \in {"drop", "unpack", "compat", "extract"} THEN InstallFails
       ELSE Returns("error") /\ UNCHANGED <<rights, place, instDir, skipped>>
    /\ UNCHANGED <<tree, buildDir, tars, hashed, snap, tries>>

\* Power is cut or the command is killed: the directory stays, too.
PackCut ==
    /\ packer # "idle" /\ packFaults < MaxPackFaults /\ packFaults' = packFaults + 1
    /\ Returns("none") /\ rights' = 0 /\ place' = 0
    /\ UNCHANGED <<tree, buildDir, tars, hashed, snap, instDir, skipped, tries>>

PackNext ==
    \/ BuildLegacySnap \/ InstallSnap
    \/ prepare \/ createData \/ writeHashes \/ createControl \/ addDataToAr \/ addFileToAr
    \/ \E code \in {dsSuccess} \union dsFail, allow \in BOOLEAN : Verify(code, allow)
    \/ member \/ unpackAndDropPrivs \/ UnpackTar \/ UnpackEnds
    \/ writeCompatManifestJSON \/ ExtractHashes
    \/ PackFails \/ PackCut

----------------------------------------------------------------------------
(* UnpackedIsBuilt: what is installed is what was built.  When an          *)
(* installation has succeeded, the directory holds what was unpacked       *)
(* without privileges, which is every entry of the source directory that   *)
(* is not ignored and does not begin with DEBIAN, and the profiles the     *)
(* build added; it holds the manifest and hashes.yaml, which root wrote;   *)
(* and it holds nothing else, whatever went wrong unnoticed in the build   *)
(* (a tar file cut short or left out) and whatever an earlier attempt      *)
(* left.  hashes.yaml knows of all that was unpacked.  Only an empty       *)
(* directory that os.Mkdir failed to make may be missing.                  *)
UnpackedIsBuilt ==
    LET source == {e \in Range(tree) \union generated : e.name = "plain"}
        unpacked == {Made(e.path, e.kind, "snappypkg") : e \in source}
        ofRoot == {Made(HashesFile, "file", "root"), Made(CompatManifest, "file", "root")}
                    \union {Made(p, "dir", "root") : p \in Parents(CompatManifest)}
        inUse == UNION {Parents(e.path) : e \in source}
    IN  packed = "installed" =>
            /\ instDir \subseteq unpacked \union ofRoot
            /\ ofRoot \subseteq instDir
            /\ \A f \in unpacked \ instDir : f.path \in skipped \ inUse
            /\ \A f \in instDir \intersect unpacked : f.path \in snap.control.hashes
=============================================================================
