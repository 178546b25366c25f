------------------------------ MODULE Packages ------------------------------
(***************************************************************************)
(* What the daemon tells of the packages (daemon/api.go), through the      *)
(* lightweight bags of versions (pkg/lightweight), the parts they load     *)
(* (snappy/snapp.go, pkg/removed) and the store (snapp.go).                *)
(*                                                                         *)
(* A handler reads the disk in several steps and takes no lock: the        *)
(* directory names first, then the current link, then the part, then the   *)
(* link again.  A task, or a command, may install, switch, remove or purge *)
(* a package in between.                                                   *)
(***************************************************************************)
EXTENDS Integers, SequencesExt, FiniteSetsExt

CONSTANTS Package,     \* the package names in the order that Glob gives
          Kind,        \* "core", "app", "framework" or "oem" for each
          MaxRelease,  \* versions of a package
          MaxJobs,     \* commands and tasks that change packages
          MaxCuts      \* jobs cut short by a power cut

Snap == Range(Package)
Release == 1..MaxRelease
NoRelease == 0

ASSUME PackagesAssumption ==
    /\ Kind \in [Snap -> {"core", "app", "framework", "oem"}]
    /\ MaxRelease \in Nat \ {0} /\ MaxJobs \in Nat /\ MaxCuts \in Nat

VARIABLES
    inst,     \* versions with a meta/package.yaml
    torn,     \* those of them that do not load: no hashes.yaml, bad manifest
    data,     \* versions with a data directory
    current,  \* the version the current link names
    offered,  \* the version the store has
    job,      \* what changes a package: its steps, the package, the version
    query,    \* the handler at work
    answer,   \* what it answered
    changed,  \* the package changed while the handler was at work
    seen,     \* versions that were active while the handler was at work
    sawTorn,  \* the handler loaded while a version did not load
    jobs, cuts

diskVars == <<inst, torn, data, current>>
pkgVars == <<diskVars, offered, job, query, answer, changed, seen, sawTorn, jobs, cuts>>

NoJob == [steps |-> << >>, pkg |-> Package[1], rel |-> NoRelease]
NoRequest == [what |-> "none", pkg |-> Package[1], at |-> "idle", remote |-> NoRelease,
              bag |-> << >>, misplaced |-> FALSE, link |-> NoRelease, part |-> <<"none", NoRelease>>]
NoAnswer == [status |-> "none", version |-> NoRelease, update |-> NoRelease, rollback |-> NoRelease]

Handlers == {"info", "list", "config", "multi"}

PkgTypeOK ==
    /\ \A s \in {inst, torn, data} : s \in [Snap -> SUBSET Release]
    /\ \A p \in Snap : torn[p] \subseteq inst[p]
    /\ current \in [Snap -> Release \union {NoRelease}]
    /\ offered \in [Snap -> Release \union {NoRelease}]
    /\ query.what \in Handlers \union {"none"} /\ query.pkg \in Snap
    /\ \A i \in DOMAIN query.bag : query.bag[i] \in Release
    /\ answer.version \in Release \union {NoRelease}
    /\ changed \in BOOLEAN /\ sawTorn \in BOOLEAN /\ seen \subseteq Release
    /\ jobs \in 0..MaxJobs /\ cuts \in 0..MaxCuts

(* A snap is absent or was installed once, the OEM package is there; both  *)
(* images of the core are, and either is the one that runs.                *)
PkgInit ==
    /\ current \in [Snap -> {NoRelease, 1, 2}]
    /\ \A p \in Snap : current[p] \in CASE Kind[p] = "core" -> {1, 2}
                                        [] Kind[p] = "oem" -> {1}
                                        [] OTHER -> {NoRelease, 1}
    /\ inst = [p \in Snap |-> IF Kind[p] = "core" THEN {1, 2} ELSE {current[p]} \ {NoRelease}]
    /\ data = inst /\ torn = [p \in Snap |-> {}]
    /\ \E r \in {NoRelease, MaxRelease} : offered = [p \in Snap |-> r]
    /\ job = NoJob /\ query = NoRequest /\ answer = NoAnswer
    /\ changed = FALSE /\ seen = {} /\ sawTorn = FALSE /\ jobs = 0 /\ cuts = 0

----------------------------------------------------------------------------
(* The jobs, as far as the directories and links of snaps are concerned,   *)
(* one at a time.                                                          *)

\* RemoteSnapPart.Install up to installClick: only the manifest matters below.
Download == <<"download">>

downloadIcon == <<"icon">>

saveStoreManifest == <<"truncate", "manifest">>

remoteSteps == Download \o downloadIcon \o saveStoreManifest

deactivateSteps(p) == IF current[p] = NoRelease THEN << >> ELSE <<"unlink">>

installSteps(p) ==
    remoteSteps \o <<"unpack", "hashes">> \o deactivateSteps(p) \o <<"data", "link">>

\* activate makes the data directory after the link.
activateSteps(p) == deactivateSteps(p) \o <<"link", "data">>

removeSteps(p, v) ==
    (IF current[p] = v THEN <<"unlink">> ELSE << >>) \o <<"tear", "rmdir">>

purgeSteps(p, v) ==
    IF Kind[p] # "oem" /\ current[p] = v THEN <<"unlink", "purge", "link", "data">>
    ELSE <<"purge">>

\* Installed: one part that does not load fails the call, whichever is wanted.
Installed == \A p \in Snap : torn[p] = {}

BeginJob(p, v, steps) ==
    /\ job.steps = << >> /\ jobs < MaxJobs /\ jobs' = jobs + 1
    /\ Kind[p] # "core"
    /\ job' = [steps |-> steps, pkg |-> p, rel |-> v]
    /\ UNCHANGED <<diskVars, offered, query, answer, changed, seen, sawTorn, cuts>>

\* doInstall refuses a version that is there and a name that is active.
InstallJob(p) ==
    /\ Installed /\ offered[p] \notin inst[p] \union {NoRelease} /\ current[p] = NoRelease
    /\ BeginJob(p, offered[p], installSteps(p))

(* Update takes the store's version of every active snap when it is not    *)
(* the active one, and does not ask whether it is there already.           *)
UpdateJob(p) ==
    /\ Installed /\ current[p] # NoRelease /\ offered[p] \notin {current[p], NoRelease}
    /\ BeginJob(p, offered[p], installSteps(p))

\* Activate and roll back.
ActivateJob(p, v) ==
    Installed /\ v \in inst[p] \ {current[p]} /\ BeginJob(p, v, activateSteps(p))

DeactivateJob(p) ==
    Installed /\ current[p] # NoRelease /\ BeginJob(p, current[p], <<"unlink">>)

\* An active OEM snap is not removable.
RemoveJob(p, v) ==
    /\ Installed /\ v \in inst[p] /\ (Kind[p] = "oem" => v # current[p])
    /\ BeginJob(p, v, removeSteps(p, v))

(* Purge looks for the version in /apps: it refuses the data of an active  *)
(* app or framework unless told otherwise, never that of an OEM package.   *)
PurgeJob(p, v) == v \in data[p] /\ BeginJob(p, v, purgeSteps(p, v))

\* packageInstruction.dispatch; the commands begin the same jobs.
dispatch(p) ==
    \/ InstallJob(p) \/ UpdateJob(p) \/ DeactivateJob(p)
    \/ \E v \in Release : ActivateJob(p, v) \/ RemoveJob(p, v) \/ PurgeJob(p, v)

\* One step; RemoveAll takes the files away in no particular order.
JobStep ==
    LET c == Head(job.steps)
        p == job.pkg
        v == job.rel
    IN  /\ job.steps # << >>
        /\ job' = IF Tail(job.steps) = << >> THEN NoJob ELSE [job EXCEPT !.steps = Tail(@)]
        /\ inst' = CASE c = "unpack" -> [inst EXCEPT ![p] = @ \union {v}]
                     [] c = "rmdir" -> [inst EXCEPT ![p] = @ \ {v}]
                     [] OTHER -> inst
        /\ torn' = CASE c = "unpack" /\ v \notin inst[p] -> [torn EXCEPT ![p] = @ \union {v}]
                     [] c = "truncate" -> [torn EXCEPT ![p] = @ \union (inst[p] \intersect {v})]
                     [] c = "tear" -> [torn EXCEPT ![p] = @ \union {v}]
                     [] c \in {"manifest", "hashes", "rmdir"} -> [torn EXCEPT ![p] = @ \ {v}]
                     [] OTHER -> torn
        /\ data' = CASE c = "data" -> [data EXCEPT ![p] = @ \union {v}]
                     [] c = "purge" -> [data EXCEPT ![p] = @ \ {v}]
                     [] OTHER -> data
        /\ current' = CASE c = "unlink" -> [current EXCEPT ![p] = NoRelease]
                        [] c = "link" -> [current EXCEPT ![p] = v]
                        [] OTHER -> current
        /\ changed' = (changed \/ p = query.pkg)
        /\ seen' = seen \union ({current'[query.pkg]} \ {NoRelease})
        /\ UNCHANGED <<offered, query, answer, sawTorn, jobs, cuts>>

\* The store, or the connection to it, fails.
DownloadFails ==
    /\ job.steps # << >> /\ Head(job.steps) \in {"download", "icon"} /\ job' = NoJob
    /\ UNCHANGED <<diskVars, offered, query, answer, changed, seen, sawTorn, jobs, cuts>>

\* Power is cut: the daemon is gone with its request, the disk stays.
PkgPowerCut ==
    /\ job.steps # << >> /\ cuts < MaxCuts /\ cuts' = cuts + 1
    /\ job' = NoJob /\ query' = NoRequest /\ answer' = NoAnswer
    /\ UNCHANGED <<diskVars, offered, changed, seen, sawTorn, jobs>>

----------------------------------------------------------------------------
(* The handlers.                                                           *)

\* find with "*" and "*": configMulti and getPackagesInfo.
Whole == query.what \in {"list", "multi"}

Before(q, p) ==
    \E i, j \in DOMAIN Package : i < j /\ Package[i] = q /\ Package[j] = p

(* In the pass over the frameworks, find sets the type and the directory   *)
(* for an OEM package and leaves them so for the packages that follow.     *)
Misplaced(p) ==
    /\ Whole /\ Kind[p] = "framework"
    /\ \E q \in Snap : Kind[q] = "oem" /\ data[q] # {} /\ inst[q] # {} /\ Before(q, p)

IsInstalled(p, v) == v \in inst[p] /\ ~query.misplaced

\* NewInstalledSnapPart.
SnapPart(p, v) ==
    IF v \in torn[p] THEN <<"error", v>>
    ELSE IF current[p] = v THEN <<"active", v>> ELSE <<"installed", v>>

\* Variant: a version that is gone is an error.
LoadGone(p, v) == IF IsInstalled(p, v) THEN SnapPart(p, v) ELSE <<"error", v>>

\* concreteSnap.Load: without a package.yaml the part is a removed one.
Load(p, v) == IF IsInstalled(p, v) THEN SnapPart(p, v) ELSE <<"removed", v>>

\* concreteCore: the active index is always 0, that of the newest image.
concreteCore == query.bag[1]

\* ActiveIndex, as the version at the index.
Active(p) ==
    CASE Kind[p] = "core" -> concreteCore
      [] current[p] \in Range(query.bag) /\ ~query.misplaced -> current[p]
      [] OTHER -> NoRelease

\* versionSort: newest first.
versionSort(S) == SetToSortSeq(S, LAMBDA a, b : a > b)

(* PartBag.LoadBest, with the active version it has read: that one, or the *)
(* newest installed one that loads, or the first.                          *)
LoadBest(p, active) ==
    LET ok == SelectSeq(query.bag, LAMBDA v : IsInstalled(p, v) /\ Load(p, v)[1] # "error")
    IN  CASE active # NoRelease /\ Load(p, active)[1] # "error" -> Load(p, active)
          [] ok # << >> -> Load(p, ok[1])
          [] OTHER -> Load(p, query.bag[1])

\* The store is asked, of which the handlers ignore the errors.
Details(p) == {offered[p], NoRelease}

\* A request comes in; remote is what the store and the image server said.
Request(what, p, remote) ==
    /\ query.at = "idle"
    /\ \E r \in remote :
          query' = [NoRequest EXCEPT !.what = what, !.pkg = p, !.at = "glob", !.remote = r]
    /\ answer' = NoAnswer /\ changed' = FALSE /\ sawTorn' = FALSE
    /\ seen' = {current[p]} \ {NoRelease}
    /\ UNCHANGED <<diskVars, offered, job, jobs, cuts>>

\* The store knows nothing of the core.
getPackageInfo(p) == Request("info", p, IF Kind[p] = "core" THEN {NoRelease} ELSE Details(p))

\* All of the store, and the updates of the image for the core.
getPackagesInfo(p) == Request("list", p, Details(p))

packageConfig(p) == Request("config", p, {NoRelease})

configMulti(p) == Request("multi", p, {NoRelease})

ReadOnly == UNCHANGED <<diskVars, offered, job, changed, seen, jobs, cuts>>

Answer(a) == answer' = a /\ query' = [query EXCEPT !.at = "idle"]

\* extract: every directory of the package's data but the current link.
extract(p) == versionSort(data[p])

\* find: the versions that have data.  Without them there is no bag.
Glob ==
    /\ query.at = "glob" /\ ReadOnly /\ UNCHANGED sawTorn
    /\ IF data[query.pkg] # {}
       THEN /\ query' = [query EXCEPT !.bag = extract(query.pkg), !.at = "link",
                                          !.misplaced = Misplaced(query.pkg)]
            /\ UNCHANGED answer
       ELSE Answer([NoAnswer EXCEPT !.status = IF query.remote = NoRelease THEN "not found"
                                               ELSE "not installed",
                                    !.version = query.remote])

\* ActiveIndex; packageConfig and configMulti stop at a snap that is not active.
ReadLink ==
    /\ query.at = "link" /\ ReadOnly /\ UNCHANGED sawTorn
    /\ IF query.what \in {"config", "multi"} /\ Active(query.pkg) = NoRelease
       THEN Answer([NoAnswer EXCEPT !.status = "not active"])
       ELSE /\ query' = [query EXCEPT !.link = Active(query.pkg), !.at = "load"]
            /\ UNCHANGED answer

\* Variant: the configuration goes to the best part.
PartToConfigureBest(p, active) == LoadBest(p, NoRelease)

PartToConfigure(p, active) == Load(p, active)

(* Config of the part: a removed one returns ErrRemoved, and configMulti   *)
(* takes a part that does not load for an inactive one.  Whichever image   *)
(* was loaded, the configuration of the core is that of the running one.   *)
LoadToConfigure ==
    LET p == query.pkg
        part == PartToConfigure(p, query.link)
    IN  /\ query.at = "load" /\ query.what \in {"config", "multi"} /\ ReadOnly /\ UNCHANGED sawTorn
        /\ Answer([NoAnswer EXCEPT
                     !.status = CASE part[1] \in {"active", "installed"} -> "configured"
                                  [] part[1] = "error" /\ Whole -> "not active"
                                  [] OTHER -> "error",
                     !.version = IF Kind[p] = "core" THEN current[p] ELSE part[2]])

\* Map begins with LoadBest, and panics when it has no part at all.
LoadToShow ==
    LET part == LoadBest(query.pkg, query.link) IN
    /\ query.at = "load" /\ query.what \in {"info", "list"} /\ ReadOnly
    /\ sawTorn' = (torn[query.pkg] # {})
    /\ IF part[1] = "error" /\ query.remote = NoRelease
       THEN Answer([NoAnswer EXCEPT !.status = "panic"])
       ELSE /\ query' = [query EXCEPT !.at = "map", !.part =
                              IF part[1] = "error" THEN <<"not installed", query.remote>> ELSE part]
            /\ UNCHANGED answer

\* The rest of Map, which reads the link again.
Map ==
    LET p == query.pkg
        active == Active(p)
        older == SelectSeq(query.bag, LAMBDA v : v < active /\ IsInstalled(p, v))
    IN  /\ query.at = "map" /\ ReadOnly /\ UNCHANGED sawTorn
        /\ Answer([status |-> query.part[1], version |-> query.part[2],
                   update |-> IF active # NoRelease /\ query.remote # query.part[2]
                              THEN query.remote ELSE NoRelease,
                   rollback |-> IF active # NoRelease /\ older # << >> THEN older[1]
                                ELSE NoRelease])

PkgNext ==
    \/ job.steps = << >> /\ jobs < MaxJobs /\ \E p \in Snap : dispatch(p)
    \/ JobStep \/ DownloadFails \/ PkgPowerCut
    \/ query.at = "idle" /\ \E p \in Snap :
                       \/ getPackageInfo(p) \/ getPackagesInfo(p)
                       \/ packageConfig(p) \/ configMulti(p)
    \/ Glob \/ ReadLink \/ LoadToConfigure \/ LoadToShow \/ Map

----------------------------------------------------------------------------
\* What there is to say of package p when the store has r.
Truth(p, r) ==
    LET there == inst[p] \intersect data[p]
        act == current[p]
        older == {v \in there : v < act}
    IN  [status |-> CASE act # NoRelease -> "active" [] there # {} -> "installed" [] OTHER -> "removed",
         version |-> CASE act # NoRelease -> act [] there # {} -> Max(there) [] OTHER -> Max(data[p]),
         update |-> IF act \notin {NoRelease, r} THEN r ELSE NoRelease,
         rollback |-> IF act # NoRelease /\ older # {} THEN Max(older) ELSE NoRelease]

Shown == query.at = "idle" /\ query.what \in {"info", "list"}

(* The answer about a package that did not change meanwhile is what Truth  *)
(* says of it, and whatever changes, Map finds a part to show unless a     *)
(* version that does not load was in the way (PartBag.Map, LoadBest).      *)
(* Left out: what is active without data, a framework listed after an OEM  *)
(* package, and a core that does not run its newest image.                 *)
AnswerIsTrue ==
    LET p == query.pkg IN
    Shown =>
        /\ (/\ ~changed /\ torn[p] = {} /\ data[p] # {}
            /\ current[p] \in data[p] \union {NoRelease} /\ ~query.misplaced
            /\ (Kind[p] = "core" => current[p] = Max(inst[p])))
              => answer = Truth(p, query.remote)
        /\ answer.status = "panic" => sawTorn

(* A configuration goes to a version that was active at some moment of the *)
(* request, never to one that is only installed (packageConfig and         *)
(* configMulti, api.go).                                                   *)
ConfiguresActive == answer.status = "configured" => answer.version \in seen
=============================================================================
