------------------------------- MODULE Device -------------------------------
(***************************************************************************)
(* What the user of a device sets and is told: the settings of the system  *)
(* (CoreConfig), the hardware its snaps may use (HWAccess), what may be    *)
(* installed (Admission), the packages and their versions (Packages,       *)
(* Versions).  These share no state, so that their interleavings add       *)
(* nothing: each is explored by itself, from the choice of focus on.       *)
(***************************************************************************)
EXTENDS CoreConfig, HWAccess, Admission, Packages, Versions

VARIABLE focus

deviceVars == <<confVars, hwVars, admVars, pkgVars, sortVars, focus>>

MCKernelName ==
    [d \in Device |-> IF d = "/dev/gpio1" THEN "gpio1"
                      ELSE IF d = "/sys/devices/gpio1" THEN "gpio1" ELSE "ttyS0"]

MCPackage == <<"ubuntu-core", "canonical-pc", "docker">>

MCKind == [p \in {"ubuntu-core", "canonical-pc", "docker"} |->
    CASE p = "ubuntu-core" -> "core" [] p = "canonical-pc" -> "oem" [] OTHER -> "framework"]

(* Fragments: 0, 1, the largest int, one more, ".", "~", "a" and "ab".     *)
(* Versions: up to three fragments in turn numbers and words, as "1.0",    *)
(* "1~1" or "ab".                                                          *)
MCKnown ==
    LET numbers == {Number(0), Number(1), Number(MaxInt), Number(MaxInt + 1)}
        words == {Word(<<chOrder(46)>>), Word(<<chOrder(126)>>),
                  Word(<<chOrder(97)>>), Word(<<chOrder(97), chOrder(98)>>)}
        mains == {<<n>> : n \in numbers} \union {<<w>> : w \in words}
                   \union {<<Number(1), w>> : w \in words}
                   \union {<<Number(1), Word(<<chOrder(46)>>), n>> : n \in numbers}
    IN  {[valid |-> TRUE, main |-> m, rev |-> << >>] : m \in mains}
          \union {[valid |-> TRUE, main |-> <<Number(1)>>, rev |-> <<n>>] : n \in numbers}
          \union {[valid |-> FALSE, main |-> <<Number(1)>>, rev |-> << >>]}

SnapYaml == [name |-> "vim", origin |-> "beuno", type |-> "app", version |-> 1, frameworks |-> {},
             binaries |-> {"edit"}, services |-> {}, fields |-> {"name", "version", "vendor"},
             dotted |-> FALSE, whitelisted |-> TRUE, architectures |-> {}, signed |-> TRUE,
             license |-> NoLicense, text |-> TRUE, builtin |-> {}]

(* An OEM package with a built-in app, a framework, an app in two versions *)
(* of which the first needs the framework, and a fork that is not signed.  *)
MCSnapFile == <<
    [SnapYaml EXCEPT !.name = "pc", !.origin = "canonical", !.type = "oem", !.builtin = {"docker"}],
    [SnapYaml EXCEPT !.name = "docker", !.origin = "canonical", !.type = "framework"],
    [SnapYaml EXCEPT !.frameworks = {"docker"}, !.license = 1],
    [SnapYaml EXCEPT !.version = 2, !.license = 1],
    [SnapYaml EXCEPT !.origin = "giuseppe", !.services = {"vi"}, !.signed = FALSE,
                     !.architectures = {"amd64", "armhf"}] >>

MCOrigin == <<"beuno", "canonical", "giuseppe", "sideload">>

(* Every initial state of the focus, one of the others.  Which image of    *)
(* the core runs matters to no other package.                              *)
Init ==
    /\ focus \in {"settings", "hardware", "admission", "packages", "versions"}
    /\ ConfInit /\ HWInit /\ AdmInit
    /\ PkgInit /\ (focus # "packages" => \A p \in Snap : current[p] = 1)
    /\ focus # "packages" \/ current["ubuntu-core"] = 2 => \A p \in Snap : offered[p] = NoRelease
    /\ SortInit /\ (focus # "versions" => \A i \in 1..Parts : list[i] = [valid |-> TRUE,
                                               main |-> <<Number(1)>>, rev |-> <<Number(0)>>])

Settings ==
    /\ focus = "settings" /\ ConfNext
    /\ UNCHANGED <<hwVars, admVars, pkgVars, sortVars, focus>>

Hardware ==
    /\ focus = "hardware" /\ HWNext
    /\ UNCHANGED <<confVars, admVars, pkgVars, sortVars, focus>>

Admitting ==
    /\ focus = "admission" /\ AdmNext
    /\ UNCHANGED <<confVars, hwVars, pkgVars, sortVars, focus>>

Telling ==
    /\ focus = "packages" /\ PkgNext
    /\ UNCHANGED <<confVars, hwVars, admVars, sortVars, focus>>

\* A list stays as it was sorted.
Sorting ==
    /\ focus = "versions" /\ (SortNext \/ (next > Parts /\ UNCHANGED sortVars))
    /\ UNCHANGED <<confVars, hwVars, admVars, pkgVars, focus>>

Next == Settings \/ Hardware \/ Admitting \/ Telling \/ Sorting

Spec == Init /\ [][Next]_deviceVars

\* The state of the component in focus has its type; the others do not change.
TypeOK ==
    /\ focus = "settings" => ConfTypeOK
    /\ focus = "hardware" => HWTypeOK
    /\ focus = "admission" => AdmTypeOK
    /\ focus = "packages" => PkgTypeOK
    /\ focus = "versions" => SortTypeOK
=============================================================================
