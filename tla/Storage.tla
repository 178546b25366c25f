------------------------------ MODULE Storage ------------------------------
(***************************************************************************)
(* What commands do on disks: an update mounts the other root (Mounts),    *)
(* downloads the image (ImageDownload) and copies boot files (Files), an   *)
(* installation unpacks a package (Archive).  These share no state, so     *)
(* that their interleavings add nothing: each is explored by itself, from  *)
(* the choice of focus on.                                                 *)
(***************************************************************************)
EXTENDS Mounts, Files, ImageDownload, Archive

VARIABLE focus

storageVars == <<vars, fileVars, downloadVars, packVars, focus>>

\* Two of the five bind mounts, /dev and the boot partition; in the order of
\* their targets the boot partition's comes before /dev's.
MCBindOrder == <<2, 1>>

\* Contents of the same length that differ at the end.
MCData == {<<0, 0, 0>>, <<0, 0, 1>>}

Entry(path, kind, name) == [path |-> path, kind |-> kind, name |-> name]

Common == <<Entry(<<"bin">>, "dir", "plain"), Entry(<<"bin", "app">>, "file", "plain"),
            Entry(<<"lib">>, "symlink", "plain"), Entry(<<"meta">>, "dir", "plain")>>

\* Trees with names that are left out, a profile and a directory that is
\* empty, and with kinds of files that are refused.
MCTrees ==
    {Common \o <<Entry(<<"var">>, "dir", "plain")>>,
     <<Entry(<<".git">>, "dir", "ignored"), Entry(<<"DEBIAN">>, "dir", "DEBIAN"),
       Entry(<<"DEBIAN.txt">>, "file", "DEBIAN...")>>
       \o Common \o <<Entry(<<"meta", "app.apparmor">>, "file", "plain")>>,
     Common \o <<Entry(<<"null">>, "device", "plain")>>,
     Common \o <<Entry(<<"pipe">>, "fifo", "plain")>>}

MCProfiles == <<<<"meta", "app.apparmor">>>>

\* Every initial state of the focus, one of the others.
StorageInit ==
    /\ focus \in {"mounts", "files", "download", "archive"}
    /\ Init /\ (focus # "mounts" => dualRootPartitions(lsblk) /\ \A d \in bootPartition(lsblk) : d.mounted)
    /\ FileInit /\ (focus # "files" => /\ \A p \in Range(BootFiles) : running[p] = << >> /\ now[p] = Absent
                                       /\ now[Config] = Symlink)
    /\ DownloadInit
    /\ PackInit /\ (focus # "archive" => Len(tree) = Len(Common) + 1 /\ tree[Len(tree)].path = <<"var">>)

Mounting == focus = "mounts" /\ Next /\ UNCHANGED <<fileVars, downloadVars, packVars, focus>>

\* Nothing need be written, downloaded or packed again.
Writing ==
    /\ focus = "files" /\ (FileNext \/ (fileCalls = << >> /\ UNCHANGED fileVars))
    /\ UNCHANGED <<vars, downloadVars, packVars, focus>>

Downloading ==
    /\ focus = "download" /\ (DownloadNext \/ (parser = "idle" /\ UNCHANGED downloadVars))
    /\ UNCHANGED <<vars, fileVars, packVars, focus>>

Packing ==
    /\ focus = "archive" /\ (PackNext \/ (packer = "idle" /\ UNCHANGED packVars))
    /\ UNCHANGED <<vars, fileVars, downloadVars, focus>>

StorageNext == Mounting \/ Writing \/ Downloading \/ Packing

\* The signal goroutine, once it runs, is scheduled.
StorageSpec == StorageInit /\ [][StorageNext]_storageVars /\ WF_vars(HandlerNext)

\* The state of the component in focus has its type; the others do not change.
StorageTypeOK ==
    /\ focus = "mounts" => TypeOK
    /\ focus = "files" => FileTypeOK
    /\ focus = "download" => DownloadTypeOK
    /\ focus = "archive" => PackTypeOK
=============================================================================
