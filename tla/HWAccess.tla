------------------------------ MODULE HWAccess ------------------------------
(***************************************************************************)
(* Access of a snap to devices: snappy hw-assign and hw-unassign           *)
(* (snappy/hwaccess.go), the rules an OEM snap brings (snappy/oem.go) and  *)
(* the end of all access when a version is uninstalled (snapp.go).         *)
(*                                                                         *)
(* Access is in force when four places agree: the paths in                 *)
(* <snap>.json.additional, the profile generated from them, the udev rules *)
(* file and the tags udev gave to the devices.  An operation changes them  *)
(* one after the other; any call may fail and power may be cut in between. *)
(* udev knows a device by the last element of its path.  The snap is given *)
(* by its name, without an app and a version.                              *)
(***************************************************************************)
EXTENDS Integers, FiniteSets, SequencesExt

CONSTANTS SnapName,    \* the snap the devices are assigned to
          Device,      \* the device paths that validDevice accepts
          KernelName,  \* filepath.Base of a device path
          MaxVersions, \* versions of the snap that may be installed
          MaxFaults    \* failing calls and power cuts

AllDevices == "/dev/**"   \* apparmorAdditionalContent
OemRule == "80-snappy"    \* what the OEM snap's rules file matches

ASSUME HWAccessAssumption ==
    /\ SnapName \in STRING /\ KernelName \in [Device -> STRING]
    /\ AllDevices \notin Device /\ OemRule \notin Range(KernelName)
    /\ MaxVersions \in Nat \ {0} /\ MaxFaults \in Nat

VARIABLES
    versions,  \* how many versions have a security json file
    json,      \* the .additional file: "absent", "malformed" or "valid"
    writePath, \* its WritePath
    rules,     \* kernel names matched by 70-snappy_hwassign_<snap>.rules
    oemRules,  \* 80-snappy_<oem>_<snap>.rules is there
    loaded,    \* the rules as udevd has read them
    tagged,    \* the kernel names whose devices carry the snap's tag
    profile,   \* the paths of the generated apparmor profile
    work,      \* the calls the operation has still to make
    op,        \* the last operation: its name and its device
    outcome,   \* what it returned
    faults

hwVars == <<versions, json, writePath, rules, oemRules, loaded, tagged, profile,
            work, op, outcome, faults>>

Name(d) == KernelName[d]
RulesOnDisk == rules \union (IF oemRules THEN {OemRule} ELSE {})

\* A device the snap can use: the cgroup has it and the profile allows it.
InForce(d) ==
    /\ d \in writePath /\ d \in profile
    /\ Name(d) \in rules /\ Name(d) \in tagged

HWTypeOK ==
    /\ versions \in 0..MaxVersions
    /\ json \in {"absent", "malformed", "valid"}
    /\ writePath \subseteq Device \union {AllDevices}
    /\ json # "valid" => writePath = {}
    /\ rules \subseteq Range(KernelName) /\ oemRules \in BOOLEAN
    /\ loaded \subseteq Range(KernelName) \union {OemRule}
    /\ tagged \subseteq Range(KernelName) \union {OemRule}
    /\ profile \subseteq Device \union {AllDevices}
    /\ outcome \in {"none", "ok", "error", "already added"}
    /\ faults \in 0..MaxFaults

HWInit ==
    /\ versions = 1
    /\ json = "absent" /\ writePath = {} /\ rules = {} /\ oemRules = FALSE
    /\ loaded = {} /\ tagged = {} /\ profile = {}
    /\ work = << >> /\ op = <<"none">> /\ outcome = "none" /\ faults = 0

----------------------------------------------------------------------------
(* The operations up to the first call that changes anything.              *)

\* activateOemHardwareUdevRules
activateRules == <<"reload", "trigger">>

Begin(o, calls) ==
    /\ work = << >>
    /\ op' = o /\ work' = calls /\ outcome' = "none"
    /\ UNCHANGED <<versions, json, writePath, rules, oemRules, loaded, tagged,
                   profile, faults>>

Refuse(o, how) ==
    /\ work = << >>
    /\ op' = o /\ outcome' = how
    /\ UNCHANGED <<versions, json, writePath, rules, oemRules, loaded, tagged,
                   profile, work, faults>>

\* Variant: the profile is generated before the file is written.
addCallsProfileFirst == <<"regenerate", "add path", "add rule">> \o activateRules

addCalls == <<"add path", "add rule">> \o activateRules \o <<"regenerate">>

\* The .additional file parses; whether it has to be there is the caller's.
readHWAccessJSONFile(missingOk) == json = "valid" \/ (json = "absent" /\ missingOk)

AddHWAccess(d) ==
    \/ versions = 0 /\ Refuse(<<"add", d>>, "error")
    \/ versions > 0 /\ ~readHWAccessJSONFile(TRUE) /\ Refuse(<<"add", d>>, "error")
    \/ versions > 0 /\ d \in writePath /\ Refuse(<<"add", d>>, "already added")
    \/ versions > 0 /\ readHWAccessJSONFile(TRUE) /\ d \notin writePath
       /\ Begin(<<"add", d>>, addCalls)

removeCalls == <<"remove path", "remove rule">> \o activateRules \o <<"regenerate">>

RemoveHWAccess(d) ==
    \/ (~readHWAccessJSONFile(FALSE) \/ d \notin writePath) /\ Refuse(<<"remove", d>>, "error")
    \/ readHWAccessJSONFile(FALSE) /\ d \in writePath /\ Begin(<<"remove", d>>, removeCalls)

(* Uninstall of any version, the oldest by garbage collection included,    *)
(* ends with RemoveAllHWAccess.                                            *)
Uninstall ==
    /\ versions > 0 /\ work = << >>
    /\ versions' = versions - 1
    /\ op' = <<"remove all">> /\ outcome' = "none"
    /\ work' = <<"remove rules", "remove json", "regenerate">>
    /\ UNCHANGED <<json, writePath, rules, oemRules, loaded, tagged, profile, faults>>

\* Another version of the snap is installed.
Install ==
    /\ versions < MaxVersions /\ work = << >>
    /\ versions' = versions + 1
    /\ UNCHANGED <<json, writePath, rules, oemRules, loaded, tagged, profile, work, op,
                   outcome, faults>>

\* An OEM snap that assigns hardware to the snap is installed.
installOemHardwareUdevRules ==
    Begin(<<"oem">>, <<"cleanup", "oem rules", "truncate json", "oem json">> \o activateRules)

----------------------------------------------------------------------------
(* The calls.                                                              *)

Device0 == op[2]

\* Variant: the file is written from the new device alone.
NewPathsAlone == IF Head(work) = "add path" THEN {Device0} ELSE writePath \ {Device0}

\* What AddHWAccess and RemoveHWAccess write back.
NewPaths ==
    IF Head(work) = "add path" THEN writePath \union {Device0} ELSE writePath \ {Device0}

\* The names a rule has in quotes: the device's, the tag and the snap's.
InQuotes(name) == {name, "snappy-assign", SnapName}

\* Every rule with the kernel name in quotes goes, whoever else needs it.
removeUdevRuleForSnap == {n \in rules : Name(Device0) \notin InQuotes(n)}

\* The state after the next call; os.Remove of a rules file needs the file.
Effect ==
    LET c == Head(work) IN
    /\ c = "remove rule" => rules # {}
    /\ json' = CASE c \in {"add path", "remove path", "oem json"} -> "valid"
                 [] c \in {"remove json", "cleanup"} -> "absent"
                 [] c = "truncate json" -> "malformed"
                 [] OTHER -> json
    /\ writePath' = CASE c \in {"add path", "remove path"} -> NewPaths
                      [] c \in {"remove json", "cleanup", "truncate json"} -> {}
                      [] c = "oem json" -> {AllDevices}
                      [] OTHER -> writePath
    /\ rules' = CASE c = "add rule" -> rules \union {Name(Device0)}
                  [] c = "remove rule" -> removeUdevRuleForSnap
                  [] c = "remove rules" -> {}
                  [] OTHER -> rules
    /\ oemRules' = CASE c = "cleanup" -> FALSE
                     [] c = "oem rules" -> TRUE
                     [] OTHER -> oemRules
    /\ loaded' = IF c = "reload" THEN RulesOnDisk ELSE loaded
    /\ tagged' = IF c = "trigger" THEN loaded ELSE tagged
    /\ profile' = IF c = "regenerate" THEN writePath ELSE profile

CallDone ==
    /\ work # << >> /\ Effect
    /\ work' = Tail(work)
    /\ outcome' = IF work' = << >> THEN "ok" ELSE "none"
    /\ UNCHANGED <<versions, op, faults>>

(* The next call fails and the operation returns.  removeUdevRuleForSnap   *)
(* always does when the file is not there; the errors of the removals in   *)
(* cleanup are only logged.                                                *)
HWCallFails ==
    /\ work # << >> /\ Head(work) # "cleanup"
    /\ \/ Head(work) = "remove rule" /\ rules = {} /\ UNCHANGED faults
       \/ faults < MaxFaults /\ faults' = faults + 1
    /\ work' = << >> /\ outcome' = "error"
    /\ UNCHANGED <<versions, json, writePath, rules, oemRules, loaded, tagged, profile, op>>

\* Power is cut; udev starts with the rules on disk and tags the devices.
HWPowerCut ==
    /\ faults < MaxFaults /\ faults' = faults + 1
    /\ work' = << >> /\ outcome' = "none"
    /\ loaded' = RulesOnDisk /\ tagged' = RulesOnDisk
    /\ UNCHANGED <<versions, json, writePath, rules, oemRules, profile, op>>

HWNext ==
    \/ work = << >> /\ \E d \in Device : AddHWAccess(d) \/ RemoveHWAccess(d)
    \/ Uninstall \/ Install \/ installOemHardwareUdevRules
    \/ CallDone \/ HWCallFails \/ HWPowerCut

----------------------------------------------------------------------------
(* hw-assign that succeeds leaves the device in force in all four places,  *)
(* and hw-unassign that succeeds in none, whatever an earlier failure, an  *)
(* OEM snap or a power cut left there.                                     *)
AccessInForce ==
    outcome = "ok" =>
        /\ op[1] = "add" => InForce(op[2])
        /\ op[1] = "remove" => /\ op[2] \notin writePath \union profile
                               /\ Name(op[2]) \notin rules \union tagged

(* Assigning or unassigning one device takes no other device away from the *)
(* snap, unless udev cannot tell the two apart, or a device is unassigned  *)
(* that is called like the snap or the tag, which are in every rule.       *)
OthersKeepAccess ==
    [][work # << >> /\ op[1] \in {"add", "remove"} =>
          \A e \in Device :
             \/ ~InForce(e) \/ InForce(e)'
             \/ Name(e) = Name(op[2])
             \/ op[1] = "remove" /\ Name(op[2]) \in {"snappy-assign", SnapName}]_hwVars
=============================================================================
