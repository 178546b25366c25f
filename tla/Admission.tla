----------------------------- MODULE Admission -----------------------------
(***************************************************************************)
(* What may be installed next to what: CanInstall and its checks, the two  *)
(* ways into it, from the store (doInstall, Updates) and from a file       *)
(* (sideloading by the command and by snapd), and what Uninstall refuses   *)
(* (snappy/snapp.go, install.go, click.go, oem.go, parts.go, and           *)
(* sideloadPackage in daemon/api.go).                                      *)
(*                                                                         *)
(* The checks look at what is installed when they are made, the change     *)
(* comes later.  Commands hold the file lock meanwhile; tasks of the       *)
(* daemon do not.  How the change is made, and what becomes of it when a   *)
(* call fails, is the subject of SnapLifecycle.                            *)
(***************************************************************************)
EXTENDS Integers, FiniteSets, SequencesExt

CONSTANTS SnapFile,  \* the snap files there are, records, see AdmissionAssumption
          LocalFile, \* those of them that are on the device, to be sideloaded
          Origin,    \* the origins, in the order of the directory names
          Built,     \* the versions, of the store and of sideloads
          UbuntuArchitecture,  \* of this device
          License,   \* license versions in meta/package.yaml of the working directory
          MaxTasks   \* operations of the daemon in a behaviour

Sideloaded == "sideload"
NoLicense == 0

ASSUME AdmissionAssumption ==
    /\ \A i \in DOMAIN SnapFile :
          /\ DOMAIN SnapFile[i] = {"name", "origin", "type", "version", "frameworks", "binaries",
                                   "services", "fields", "dotted", "whitelisted", "architectures",
                                   "signed", "license", "text", "builtin"}
          /\ SnapFile[i].type \in {"app", "framework", "oem"}
          /\ SnapFile[i].origin \in Range(Origin)
          /\ SnapFile[i].version \in Built
    /\ LocalFile \subseteq DOMAIN SnapFile
    /\ MaxTasks \in Nat

\* Without architectures a package is for all of them.
parsePackageYamlData(f) ==
    [f EXCEPT !.architectures = IF @ = {} THEN {"all"} ELSE @]

PackageYaml == [i \in DOMAIN SnapFile |-> parsePackageYamlData(SnapFile[i])]

Doer == {"command", "task"}
Idle == [do |-> "nothing", part |-> << >>]

VARIABLES
    present,   \* the parts on disk: <<file, origin, version>>
    linked,    \* those that their current link names
    doing,     \* what the command and the task have been allowed to do
    agreed,    \* the licenses, with the names, that the user agreed to
    assumed,   \* those that a package.yaml in the working directory settled
    met,       \* history: the command and the task have overlapped
    mixed,     \* history: whose operation overlaps, or overlapped, another
    tasks

admVars == <<present, linked, doing, agreed, assumed, met, mixed, tasks>>

Yaml(p) == PackageYaml[p[1]]
PartName(p) == Yaml(p).name

\* qualifiedName: frameworks and OEM packages have no origin in theirs.
qualifiedName(p) ==
    IF Yaml(p).type = "app" THEN <<PartName(p), p[2]>> ELSE <<PartName(p)>>

basedir(p) == <<qualifiedName(p), p[3]>>

AdmTypeOK ==
    /\ linked \subseteq present
    /\ \A p \in present : p[1] \in DOMAIN PackageYaml /\ p[2] \in Range(Origin) /\ p[3] \in Built
    \* a directory holds one part, and has one current link
    /\ Cardinality({basedir(p) : p \in present}) = Cardinality(present)
    /\ Cardinality({qualifiedName(p) : p \in linked}) = Cardinality(linked)
    /\ \A d \in Doer : doing[d].do \in {"nothing", "install", "remove"}
    /\ met \in BOOLEAN /\ mixed \subseteq Doer /\ tasks \in 0..MaxTasks

\* A device as it is delivered: with its OEM package.
AdmInit ==
    /\ \E i \in DOMAIN PackageYaml :
          /\ PackageYaml[i].type = "oem"
          /\ present = {<<i, PackageYaml[i].origin, PackageYaml[i].version>>}
    /\ linked = present
    /\ doing = [d \in Doer |-> Idle]
    /\ agreed = {} /\ assumed = {} /\ met = FALSE /\ mixed = {} /\ tasks = 0

----------------------------------------------------------------------------
(* The checks.                                                             *)

\* ActiveSnapByName: the first in the order of the directories.
ActiveSnapByName(name) ==
    LET named == {p \in linked : PartName(p) = name}
        place(p) == CHOOSE i \in DOMAIN Origin : Origin[i] = p[2]
    IN  {p \in named : \A q \in named : place(p) <= place(q)}

ActiveSnapsByType(type) == {p \in linked : Yaml(p).type = type}

\* The strings of binaries and services, up to the first nested struct, match.
verifyStruct(f) == f.whitelisted

validatePackageYamlData(f) ==
    {"name", "version", "vendor"} \subseteq f.fields /\ ~f.dotted /\ verifyStruct(f)

\* What Open, Verify and the parser of package.yaml let through.
NewSnapPartFromSnapFile(f, unauthOk) == (f.signed \/ unauthOk) /\ validatePackageYamlData(f)

\* Variant: only parts of the same origin are looked at.
checkForPackageInstalledFullName(f, origin) == TRUE

checkForPackageInstalled(f, origin) ==
    \A p \in ActiveSnapByName(f.name) : p[2] = origin

IsSupportedArchitecture(f) == f.architectures \intersect {"all", UbuntuArchitecture} # {}

checkForNameClashes(f) == f.binaries \intersect f.services = {}

checkForFrameworks(f) ==
    f.frameworks \subseteq {PartName(p) : p \in ActiveSnapsByType("framework")}

\* The OEM package, when there is exactly one.
getOem == IF Cardinality(ActiveSnapsByType("oem")) = 1 THEN ActiveSnapsByType("oem") ELSE {}

\* No caller sets AllowOEM: only a new version of the OEM package will do.
OemAllowed(f) == f.type = "oem" => \E p \in getOem : PartName(p) = f.name

CanInstall(f, origin) ==
    /\ checkForPackageInstalled(f, origin) /\ IsSupportedArchitecture(f)
    /\ checkForNameClashes(f) /\ checkForFrameworks(f) /\ OemAllowed(f)

(* The license that was in force: that of the version the current link     *)
(* names.  Without one the path that is read is relative: the package.yaml *)
(* in the working directory of the command, if there is any.               *)
OldLicense(p, here) ==
    LET old == {q \in linked : qualifiedName(q) = qualifiedName(p)}
    IN  IF old = {} THEN {here} \ {NoLicense} ELSE {Yaml(q).license : q \in old} \ {NoLicense}

\* checkLicenseAgreement; NullProgress, which the daemon uses, never agrees.
checkLicenseAgreement(d, p, here) ==
    LET f == Yaml(p)
        license == <<f.name, f.license>>
    IN  \/ f.license = NoLicense /\ UNCHANGED <<agreed, assumed>>
        \/ /\ f.license # NoLicense /\ f.text /\ f.license \in OldLicense(p, here)
           /\ assumed' = IF \E q \in linked : qualifiedName(q) = qualifiedName(p) THEN assumed
                         ELSE assumed \union {license}
           /\ UNCHANGED agreed
        \/ /\ f.license # NoLicense /\ f.text /\ f.license \notin OldLicense(p, here)
           /\ d = "command"
           /\ agreed' = agreed \union {license} /\ UNCHANGED assumed

----------------------------------------------------------------------------
(* The operations.                                                         *)

Turn(d) ==
    /\ doing[d] = Idle
    /\ IF d = "task" THEN tasks < MaxTasks /\ tasks' = tasks + 1 ELSE UNCHANGED tasks
    /\ LET others == {e \in Doer : doing[e] # Idle}
       IN  /\ met' = (met \/ others # {})
           /\ mixed' = IF others = {} THEN {} ELSE others \union {d}

\* SnapPart.Install up to the first change.
Admit(d, p, unauthOk) ==
    /\ Turn(d)
    /\ NewSnapPartFromSnapFile(Yaml(p), unauthOk) /\ CanInstall(Yaml(p), p[2])
    /\ \E here \in (IF d = "command" THEN License \union {NoLicense} ELSE {NoLicense}) :
          checkLicenseAgreement(d, p, here)
    /\ doing' = [doing EXCEPT ![d] = [do |-> "install", part |-> p]]
    /\ UNCHANGED <<present, linked>>

StorePart(i) == <<i, PackageYaml[i].origin, PackageYaml[i].version>>

(* From the store, a name that is not active and a version that is not     *)
(* there.  snappy install may be told to take one without a signature.     *)
doInstall(d, i) ==
    LET p == StorePart(i) IN
    /\ p[2] # Sideloaded
    /\ ~\E q \in present : basedir(q) = basedir(p)
    /\ ActiveSnapByName(PartName(p)) = {}
    /\ Admit(d, p, d = "command")

\* A version other than the active one of what is active.
Update(d, i) ==
    LET p == StorePart(i) IN
    /\ p[2] # Sideloaded
    /\ \E q \in linked : qualifiedName(q) = qualifiedName(p) /\ q[2] = p[2]
    /\ \A q \in ActiveSnapByName(PartName(p)) : q[3] # p[3]
    /\ Admit(d, p, FALSE)

StoreVersions == {f.version : f \in Range(PackageYaml)}

\* A version that nothing has: it is made from the clock.
NewSideloadVersion ==
    Built \ (StoreVersions \union {q[3] : q \in present}
                           \union {doing[e].part[3] : e \in {x \in Doer : doing[x] # Idle}})

(* From a file: the origin is sideload and the version a new one.  Both    *)
(* the command and the daemon may be told to take one without a signature. *)
sideloadPackage(d, i) ==
    \E v \in NewSideloadVersion : Admit(d, <<i, Sideloaded, v>>, TRUE)

\* Installs of one directory replace its active version.
Installs(d) ==
    LET p == doing[d].part IN
    /\ doing[d].do = "install"
    /\ present' = {q \in present : basedir(q) # basedir(p)} \union {p}
    /\ linked' = {q \in linked : qualifiedName(q) # qualifiedName(p)} \union {p}
    /\ doing' = [doing EXCEPT ![d] = Idle] /\ mixed' = mixed \ {d}
    /\ UNCHANGED <<agreed, assumed, met, tasks>>

(* A call fails.  What was done is undone, and the directory of the        *)
(* version is removed, also when there was one before; only a failure      *)
(* before the directory is made leaves that alone.                         *)
InstallFails(d) ==
    LET gone == {q \in present : basedir(q) = basedir(doing[d].part)} IN
    /\ doing[d].do = "install"
    /\ \/ present' = present \ gone /\ linked' = linked \ gone
       \/ UNCHANGED <<present, linked>>
    /\ doing' = [doing EXCEPT ![d] = Idle] /\ mixed' = mixed \ {d}
    /\ UNCHANGED <<agreed, assumed, met, tasks>>

IsBuiltInSoftware(name) == \E p \in getOem : name \in Yaml(p).builtin

\* Variant: parts that are not active need no framework.
DependentsActive(p) ==
    {q \in linked : Yaml(p).type = "framework" /\ PartName(p) \in Yaml(q).frameworks}

\* Every installed part that lists the framework, active or not.
Dependents(p) ==
    {q \in present : Yaml(p).type = "framework" /\ PartName(p) \in Yaml(q).frameworks}

\* Uninstall, by remove or by garbage collection, up to the first change.
UninstallPart(d, p) ==
    /\ Turn(d)
    /\ ~(Yaml(p).type = "oem" /\ p \in linked)
    /\ ~(IsBuiltInSoftware(PartName(p)) /\ p \in linked)
    /\ Dependents(p) = {}
    /\ doing' = [doing EXCEPT ![d] = [do |-> "remove", part |-> p]]
    /\ UNCHANGED <<present, linked, agreed, assumed>>

Removes(d) ==
    /\ doing[d].do = "remove"
    /\ present' = present \ {doing[d].part} /\ linked' = linked \ {doing[d].part}
    /\ doing' = [doing EXCEPT ![d] = Idle] /\ mixed' = mixed \ {d}
    /\ UNCHANGED <<agreed, assumed, met, tasks>>

(* activate and rollback make any installed part the active one of its     *)
(* directory, whatever is active in others.                                *)
makeSnapActiveByNameAndVersion(d, p) ==
    /\ Turn(d) /\ p \notin linked
    /\ linked' = {q \in linked : qualifiedName(q) # qualifiedName(p)} \union {p}
    /\ UNCHANGED <<present, doing, agreed, assumed>>

\* deactivate asks nobody who depends on the part.
DeactivatePart(d, p) ==
    /\ Turn(d) /\ p \in linked /\ linked' = linked \ {p}
    /\ UNCHANGED <<present, doing, agreed, assumed>>

AdmNext ==
    \E d \in Doer :
       \/ /\ doing[d] = Idle /\ (d = "task" => tasks < MaxTasks)
          /\ \/ \E i \in DOMAIN PackageYaml : doInstall(d, i) \/ Update(d, i)
             \/ \E i \in LocalFile : sideloadPackage(d, i)
             \/ \E p \in present : \/ UninstallPart(d, p) \/ DeactivatePart(d, p)
                                   \/ makeSnapActiveByNameAndVersion(d, p)
       \/ Installs(d) \/ InstallFails(d) \/ Removes(d)

----------------------------------------------------------------------------
\* The origins whose packages of a name are active.
ActiveOrigins(l, name) == {p[2] : p \in {q \in l : PartName(q) = name}}

(* An installation that no other operation overlaps, from the store or a   *)
(* file, new or an update, never makes a second origin of a name active:   *)
(* "only one of the same package name can be active at any time"           *)
(* (docs/package-names.md).  Where activate or rollback, which do not      *)
(* check, or operations that overlapped have made two active, it makes it  *)
(* no worse.  CanInstall looks at one active part of the name only.        *)
OneOriginActive ==
    [][\A d \in Doer \ mixed :
         doing[d].do = "install" /\ doing'[d] = Idle =>
            LET name == PartName(doing[d].part)
                after == ActiveOrigins(linked', name)
            IN  Cardinality(after) <= 1 \/ Cardinality(after) <= Cardinality(ActiveOrigins(linked, name))
      ]_admVars

(* What CanInstall made sure of stays so for every installed part, active  *)
(* or not, after any sequence of operations that do not overlap: the       *)
(* frameworks it lists are installed, and the user has agreed to its       *)
(* license, or it was taken as agreed from the working directory.          *)
InstalledIsAdmitted ==
    \A p \in present :
        /\ ~met => \A f \in Yaml(p).frameworks :
                      \E q \in present : Yaml(q).type = "framework" /\ PartName(q) = f
        /\ Yaml(p).license # NoLicense => <<PartName(p), Yaml(p).license>> \in agreed \union assumed
=============================================================================
