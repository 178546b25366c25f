----------------------------- MODULE CoreConfig -----------------------------
(***************************************************************************)
(* The configuration of the system (coreconfig/config.go) and the first    *)
(* boot that applies the OEM snap's configuration (snappy/firstboot.go).   *)
(*                                                                         *)
(* Set compares what it is given with what the system says, and for every  *)
(* setting that differs makes one or two calls: a systemctl, a system call *)
(* or the write of a file, which is atomic but for the copy of a time zone *)
(* and the removal of a network file.  Any call may fail, which ends Set   *)
(* with the settings before it in place, and power may be cut at any time, *)
(* with the loss of what was not synced.  FirstBoot runs Set and the       *)
(* config hook of a snap and then, as deferred functions, enables the      *)
(* first network card and writes a stamp.                                  *)
(***************************************************************************)
EXTENDS Integers, FiniteSets, SequencesExt

CONSTANTS Text,      \* what names and the contents of files are told apart by
          Module,    \* the ranks of kernel module names in their order
          MaxSets,   \* how often Set is called
          MaxFailures

Empty == ""        \* no content; also a file that is not there
Dhcp == "dhcp"     \* what enableFirstEther writes
Torn == "torn"     \* a file cut short

ASSUME CoreConfigAssumption ==
    /\ {Empty, Dhcp} \subseteq Text /\ Torn \notin Text
    /\ Module \subseteq Nat \ {0} /\ IsFiniteSet(Module)
    /\ MaxSets \in Nat /\ MaxFailures \in Nat

VARIABLES
    sys,       \* what the settings are made of: files, units, the kernel's name
    todo,      \* the calls that the command at work has still to make
    deferred,  \* the calls of the functions FirstBoot has deferred
    request,   \* the settings the last Set was given
    result,    \* "none", "ok" and then "rebooted", "error", or where it failed
    unsynced,  \* calls that put back what a power cut may bring back
    half,      \* history: settings changed in part only, files not removed
    stamp,     \* stampFile is there
    noEther,   \* history: enableFirstEther could not write its file
    sets,
    failures

confVars == <<sys, todo, deferred, request, result, unsynced, half, stamp,
              noEther, sets, failures>>

\* The fields of systemConfig, in their order.
FieldOrder == <<"Autopilot", "Timezone", "Hostname", "Modprobe", "Modules",
                "Network", "Watchdog">>
Field == Range(FieldOrder)

Card == {"eth0", "eth1"}   \* the files below interfacesRoot
Link == {"ppp0"}           \* the files below pppRoot

(* Lists with one entry or two: a positive one adds a module, a negative   *)
(* one, written with a minus sign, removes it.                             *)
ModuleList ==
    {<<m>> : m \in Module} \union {<<-m>> : m \in Module}
      \union {l \in Module \X Module : l[1] # l[2]} \union {<<m, -m>> : m \in Module}

\* The values a document can give a field; one it leaves out is nil.
Value(f) ==
    CASE f = "Autopilot" -> BOOLEAN
      [] f \in {"Timezone", "Hostname"} -> Text \ {Empty, Dhcp}
      [] f = "Modprobe" -> {Empty, "x"}
      [] f = "Modules" -> ModuleList
      [] f = "Network" -> [Interfaces : UNION {[C -> {Empty, "x"}] : C \in {Card, {"eth0"}}},
                           PPP : {<< >>}]
                          \union [Interfaces : {<< >>}, PPP : [Link -> {Empty, "x"}]]
      [] f = "Watchdog" -> [Startup : {Empty, "x"}, Config : {Empty, "x"}]

\* Documents with one setting, or with two of those that take two calls.
Documents ==
    UNION {{f :> v : v \in Value(f)} : f \in Field}
    \union
    UNION {{(f :> v) @@ (g :> w) : v \in Value(f), w \in Value(g)} :
            f \in {"Autopilot", "Timezone"}, g \in {"Hostname"}}

\* A document for the OEM snap's ubuntu-core section.
OemDocument ==
    [Hostname |-> "x",
     Network |-> [Interfaces |-> [c \in {"eth0"} |-> "x"], PPP |-> << >>]]

----------------------------------------------------------------------------
(* Reading the settings.                                                   *)

\* getPassthrough: the files of a directory that are there.
getPassthrough(files) ==
    [n \in {m \in DOMAIN files : files[m] # Empty} |-> files[n]]

\* newSystemConfig.  A setting that reads as nil is not in the domain.
newSystemConfig(s) ==
    LET i == getPassthrough(s.interfaces)
        p == getPassthrough(s.ppp)
    IN [Autopilot |-> s.enabled, Timezone |-> s.tzfile, Hostname |-> s.kernelname,
        Modprobe |-> s.modprobe]
       @@ (IF s.modules = << >> THEN << >> ELSE "Modules" :> s.modules)
       @@ (IF DOMAIN i \union DOMAIN p = {} THEN << >>
           ELSE "Network" :> [Interfaces |-> i, PPP |-> p])
       @@ (IF s.startup = Empty /\ s.config = Empty THEN << >>
           ELSE "Watchdog" :> [Startup |-> s.startup, Config |-> s.config])

----------------------------------------------------------------------------
(* The setters: each is the calls it makes, a call being the part of the   *)
(* system it changes and the new value.                                    *)

Call(field, part, value) == [field |-> field, part |-> part, value |-> value]

setTimezone(v) == <<Call("Timezone", "localtime", v), Call("Timezone", "tzfile", v)>>

setAutopilot(v) ==
    IF v THEN <<Call("Autopilot", "enabled", TRUE), Call("Autopilot", "started", TRUE)>>
    ELSE <<Call("Autopilot", "started", FALSE), Call("Autopilot", "enabled", FALSE)>>

setHostname(v) == <<Call("Hostname", "kernelname", v), Call("Hostname", "hostname", v)>>

setModprobe(v) == <<Call("Modprobe", "modprobe", v)>>

setWatchdog(v) ==
    <<Call("Watchdog", "startup", v.Startup), Call("Watchdog", "config", v.Config)>>

\* setPassthrough: one call per entry; one without content removes the file.
setPassthrough(dir, entries) ==
    LET names == SetToSeq(DOMAIN entries)
    IN [i \in 1..Len(names) |->
          Call("Network", dir, (names[i] :> entries[names[i]]))]

\* sort.SearchStrings: how many of the sorted list come before m.
SearchStrings(list, m) == Cardinality({i \in 1..Len(list) : list[i] < m})

\* Variant: a module that is there already is added again.
setModuleAgain(list, m) ==
    LET idx == SearchStrings(list, IF m < 0 THEN -m ELSE m)
        found == idx < Len(list) /\ list[idx + 1] = (IF m < 0 THEN -m ELSE m)
    IN IF m < 0 THEN IF found THEN RemoveAt(list, idx + 1) ELSE list
       ELSE InsertAt(list, idx + 1, m)

\* One entry of setModules' loop.
setModule(list, m) ==
    LET idx == SearchStrings(list, IF m < 0 THEN -m ELSE m)
        found == idx < Len(list) /\ list[idx + 1] = (IF m < 0 THEN -m ELSE m)
    IN CASE m < 0 /\ found -> RemoveAt(list, idx + 1)
         [] m > 0 /\ ~found -> InsertAt(list, idx + 1, m)
         [] OTHER -> list

setModules(list, entries) == FoldLeft(setModule, list, entries)

IsDir(part) == part \in {"interfaces", "ppp"}

\* What a call makes of the system.
Done(s, c) == [s EXCEPT ![c.part] = IF IsDir(c.part) THEN c.value @@ @ ELSE c.value]

\* The file of a directory that a call is for, or else the setting.
Subject(c) == IF IsDir(c.part) THEN CHOOSE n \in DOMAIN c.value : TRUE ELSE c.field

\* os.Remove of an entry without content.
RemovesFile(c) == IsDir(c.part) /\ c.value[Subject(c)] = Empty

\* The call that puts back what there was before c.
Undo(s, c) ==
    [c EXCEPT !.value = IF IsDir(c.part) THEN Subject(c) :> s[c.part][Subject(c)]
                        ELSE s[c.part]]

\* The calls that write a file with AtomicWriteFile.
IsAtomicWrite(c) ==
    c.part \in {"tzfile", "hostname", "modprobe", "modules", "interfaces", "ppp",
                "startup", "config"} /\ ~RemovesFile(c)

\* Variant: the watchdog counts as unchanged when its startup file does.
UnchangedWatchdogByStartup(old, f, v) ==
    /\ f \in DOMAIN old /\ f # "Network"
    /\ IF f = "Watchdog" THEN old[f].Startup = v.Startup
       ELSE f # "Modules" /\ old[f] = v

\* The comparisons that make Set skip a field altogether.
Unchanged(old, f, v) ==
    /\ f \in DOMAIN old \ {"Modules", "Network"}
    /\ old[f] = v

\* Network: each of the two directories is compared, and set, by itself.
setNetwork(old, v) ==
    LET same(part) == "Network" \in DOMAIN old /\ old["Network"][part] = v[part]
    IN (IF same("Interfaces") THEN << >> ELSE setPassthrough("interfaces", v.Interfaces))
       \o (IF same("PPP") THEN << >> ELSE setPassthrough("ppp", v.PPP))

\* The calls Set makes for one field of the document.
SetField(s, old, f, v) ==
    CASE Unchanged(old, f, v) -> << >>
      [] f = "Autopilot" -> setAutopilot(v)
      [] f = "Timezone"  -> setTimezone(v)
      [] f = "Hostname"  -> setHostname(v)
      [] f = "Modprobe"  -> setModprobe(v)
      [] f = "Modules"   -> <<Call("Modules", "modules", setModules(s.modules, v))>>
      [] f = "Network"   -> setNetwork(old, v)
      [] f = "Watchdog"  -> setWatchdog(v)

\* All the calls of Set, the fields in the order of the structure.
SetCalls(s, doc) ==
    LET old == newSystemConfig(s)
        calls(f) == IF f \in DOMAIN doc THEN SetField(s, old, f, doc[f]) ELSE << >>
    IN FlattenSeq([i \in 1..Len(FieldOrder) |-> calls(FieldOrder[i])])

----------------------------------------------------------------------------
ConfTypeOK ==
    /\ sys.enabled \in BOOLEAN /\ sys.started \in BOOLEAN
    /\ sys.localtime \in Text \union {Torn}
    /\ {sys.tzfile, sys.kernelname, sys.hostname, sys.modprobe,
        sys.startup, sys.config} \subseteq Text
    /\ sys.interfaces \in [Card -> Text] /\ sys.ppp \in [Link -> Text]
    \* the modules are sorted, and each is listed once
    /\ Range(sys.modules) \subseteq Module
    /\ \A i, j \in 1..Len(sys.modules) : i < j => sys.modules[i] < sys.modules[j]
    /\ DOMAIN request \subseteq Field
    /\ result \in {"none", "ok", "rebooted", "error", "hook"} \union Field
    /\ {c.field : c \in unsynced} \subseteq Field
    /\ half \subseteq Field \union Card \union Link
    /\ stamp \in BOOLEAN /\ noEther \in BOOLEAN
    /\ sets \in 0..MaxSets /\ failures \in 0..MaxFailures

ConfInit ==
    /\ sys = [enabled |-> TRUE, started |-> TRUE, localtime |-> "x", tzfile |-> "x",
              kernelname |-> "y", hostname |-> "y", modprobe |-> Empty,
              modules |-> << >>, interfaces |-> [c \in Card |-> Empty],
              ppp |-> [l \in Link |-> Empty], startup |-> Empty, config |-> Empty]
    /\ todo = << >> /\ deferred = << >> /\ request = << >> /\ result = "none"
    /\ unsynced = {} /\ half = {} /\ stamp = FALSE /\ noEther = FALSE /\ sets = 0 /\ failures = 0

Free == todo = << >> /\ deferred = << >>

(* Set starts, for snappy config or snapd and the package ubuntu-core: it  *)
(* has read the settings and the document.                                 *)
Set(doc) ==
    /\ Free /\ sets < MaxSets
    /\ sets' = sets + 1
    /\ todo' = SetCalls(sys, doc) /\ request' = doc
    /\ result' = IF todo' = << >> THEN "ok" ELSE "none"
    /\ UNCHANGED <<sys, deferred, unsynced, half, stamp, noEther, failures>>

\* configurePackage fails before that: no document, no package, no settings.
configurePackageFails ==
    /\ Free /\ sets < MaxSets /\ failures < MaxFailures
    /\ sets' = sets + 1 /\ failures' = failures + 1
    /\ result' = "error"
    /\ UNCHANGED <<sys, todo, deferred, request, unsynced, half, stamp, noEther>>

\* The next call is the last one for its field, and a second one.
Closes(calls) ==
    /\ Head(calls).part \in {"started", "enabled", "tzfile", "hostname"}
    /\ Len(calls) = 1 \/ calls[2].field # Head(calls).field

(* The next call of Set succeeds; in FirstBoot, that of the hook too.  An  *)
(* atomic write syncs the file and its directory, the copy of a time zone  *)
(* and a removal sync nothing.                                             *)
CallSucceeds ==
    /\ todo # << >>
    /\ LET c == Head(todo)
       IN  IF c.part = "hook" THEN UNCHANGED <<sys, unsynced, half>>
           ELSE /\ sys' = Done(sys, c)
                /\ unsynced' =
                     IF IsAtomicWrite(c) THEN {u \in unsynced : u.part # c.part}
                     ELSE IF RemovesFile(c) /\ sys' # sys THEN unsynced \union {Undo(sys, c)}
                     ELSE IF c.part = "localtime"
                     THEN unsynced \union {Undo(sys, c), [c EXCEPT !.value = Torn]}
                     ELSE unsynced
                /\ half' = IF Closes(todo) \/ IsDir(c.part) THEN half \ {Subject(c)} ELSE half
    /\ todo' = Tail(todo)
    /\ result' = IF todo' = << >> THEN "ok" ELSE "none"
    /\ UNCHANGED <<deferred, request, stamp, noEther, sets, failures>>

(* A call fails, and Set returns its error.  The copy of a time zone may   *)
(* have truncated the file by then, and AtomicWriteFile may have replaced  *)
(* its file, with the sync of the directory to come.                       *)
CallFails ==
    /\ todo # << >> /\ ~RemovesFile(Head(todo)) /\ failures < MaxFailures
    /\ failures' = failures + 1
    /\ LET c == Head(todo)
       IN  /\ \/ /\ UNCHANGED <<sys, unsynced>>
                 /\ half' = IF Closes(todo) THEN half \union {c.field} ELSE half
              \/ /\ c.part = "localtime"
                 /\ sys' = Done(sys, [c EXCEPT !.value = Torn])
                 /\ unsynced' = unsynced \union {Undo(sys, c)}
                 /\ half' = half \union {c.field}
              \/ /\ IsAtomicWrite(c)
                 /\ sys' = Done(sys, c)
                 /\ unsynced' = unsynced \union {Undo(sys, c)}
                 /\ UNCHANGED half
           /\ result' = c.field
    /\ todo' = << >>
    /\ UNCHANGED <<deferred, request, stamp, noEther, sets>>

\* os.Remove fails, which setPassthrough ignores.
RemoveFails ==
    /\ todo # << >> /\ RemovesFile(Head(todo)) /\ failures < MaxFailures
    /\ failures' = failures + 1
    /\ half' = half \union {Subject(Head(todo))}
    /\ todo' = Tail(todo)
    /\ result' = IF todo' = << >> THEN "ok" ELSE "none"
    /\ UNCHANGED <<sys, deferred, request, unsynced, stamp, noEther, sets>>

----------------------------------------------------------------------------
(* The first boot.                                                         *)

\* Variant: the stamp is written before the network is set up.
FirstBootDefersStampFirst == <<"stamp", "ether", "ifup">>

\* The deferred functions in the order in which Go runs them.
FirstBootDefers == <<"ether", "ifup", "stamp">>

\* The config hook of a snap, one command.
snapConfig == <<Call("hook", "hook", Empty)>>

firstBootHasRun == stamp

(* oemConfig configures the packages of a Go map, in any order: here       *)
(* ubuntu-core and one snap, whose config hook may fail.                   *)
FirstBoot ==
    /\ Free /\ ~firstBootHasRun
    /\ request' = << >>
    /\ LET core == SetCalls(sys, OemDocument)
       IN todo' \in {core \o snapConfig, snapConfig \o core}
    /\ deferred' = FirstBootDefers
    /\ result' = "none"
    /\ UNCHANGED <<sys, unsynced, half, stamp, noEther, sets, failures>>

(* enableFirstEther writes the file of the first card.  When that fails    *)
(* the file may be there, with the sync of the directory to come.          *)
EnableFirstEther ==
    LET c == Call("Network", "interfaces", "eth0" :> Dhcp) IN
    /\ todo = << >> /\ deferred # << >> /\ Head(deferred) = "ether"
    /\ \/ /\ sys' = Done(sys, c) /\ unsynced' = {u \in unsynced : u.part # c.part}
          /\ deferred' = Tail(deferred)
          /\ UNCHANGED <<noEther, failures>>
       \/ /\ failures < MaxFailures /\ failures' = failures + 1
          /\ noEther' = TRUE
          /\ deferred' = SelectSeq(deferred, LAMBDA d : d \notin {"ether", "ifup"})
          /\ \/ UNCHANGED <<sys, unsynced>>
             \/ sys' = Done(sys, c) /\ unsynced' = unsynced \union {Undo(sys, c)}
    /\ UNCHANGED <<todo, request, result, half, stamp, sets>>

\* ifup, whose failure nobody looks at.
Ifup ==
    /\ todo = << >> /\ deferred # << >> /\ Head(deferred) = "ifup"
    /\ deferred' = Tail(deferred)
    /\ UNCHANGED <<sys, todo, request, result, unsynced, half, stamp, noEther, sets, failures>>

stampFirstBoot ==
    /\ todo = << >> /\ deferred # << >> /\ Head(deferred) = "stamp"
    /\ \/ stamp' = TRUE /\ UNCHANGED failures
       \/ failures < MaxFailures /\ failures' = failures + 1 /\ UNCHANGED stamp
    /\ deferred' = Tail(deferred)
    /\ UNCHANGED <<sys, todo, request, result, unsynced, half, noEther, sets>>

(* Power is cut.  Any of the changes that were not synced may be lost, and *)
(* a copy at work leaves a part of the file.  systemd gives the kernel the *)
(* saved name and starts the timers that are enabled.                      *)
PowerCut ==
    LET torn == IF todo # << >> /\ Head(todo).part = "localtime"
                THEN {[Head(todo) EXCEPT !.value = Torn]} ELSE {}
        between == IF todo # << >> /\ Head(todo).part = "tzfile" THEN {"Timezone"} ELSE {}
        noted == {"localtime", "interfaces", "ppp"}
    IN  \E lost \in SUBSET (unsynced \union torn) :
          LET disk == FoldSet(LAMBDA c, s : Done(s, c), sys, lost)
          IN  /\ sys' = [disk EXCEPT !.kernelname = disk.hostname, !.started = disk.enabled]
              /\ result' =
                   IF /\ Free /\ result \in {"ok", "rebooted"}
                      /\ half \intersect DOMAIN request \subseteq {"Timezone"}
                      /\ \A c \in lost : c.part \in noted \/ c.field \notin DOMAIN request
                   THEN "rebooted" ELSE "none"
              /\ half' = (half \ {"Autopilot", "Hostname"}) \union between
                            \union {Subject(c) : c \in {l \in lost : l.part \in noted \union {"tzfile"}}}
              /\ todo' = << >> /\ deferred' = << >> /\ unsynced' = {}
              /\ stamp' \in {stamp, FALSE}
              /\ UNCHANGED <<request, noEther, sets, failures>>

ConfNext ==
    \/ Free /\ sets < MaxSets /\ \E doc \in Documents : Set(doc)
    \/ configurePackageFails
    \/ CallSucceeds \/ CallFails \/ RemoveFails
    \/ FirstBoot \/ EnableFirstEther \/ Ifup \/ stampFirstBoot
    \/ PowerCut

----------------------------------------------------------------------------
(* The setting is in force.  Of a setting in half, which was changed in    *)
(* part, only the part that the comparison looks at has to be.             *)
InPlace(f, v) ==
    CASE f = "Autopilot" -> sys.enabled = v /\ (sys.started = v \/ f \in half)
      [] f = "Timezone"  -> sys.tzfile = v /\ (sys.localtime = v \/ f \in half)
      [] f = "Hostname"  -> sys.kernelname = v /\ (sys.hostname = v \/ f \in half)
      [] f = "Modprobe"  -> sys.modprobe = v
      [] f = "Modules"   -> \A i \in 1..Len(v) :
                               \/ \E j \in (i + 1)..Len(v) : v[j] = -v[i]
                               \/ v[i] > 0 /\ v[i] \in Range(sys.modules)
                               \/ v[i] < 0 /\ -v[i] \notin Range(sys.modules)
      [] f = "Network"   ->
            /\ \A c \in DOMAIN v.Interfaces \ half : sys.interfaces[c] = v.Interfaces[c]
            /\ \A l \in DOMAIN v.PPP \ half : sys.ppp[l] = v.PPP[l]
      [] f = "Watchdog"  -> sys.startup = v.Startup /\ sys.config = v.Config

\* Set went past the setting: it returned no error, or that of a later one.
Passed(f) ==
    \/ result \in {"ok", "rebooted"}
    \/ /\ result \in Field
       /\ \E j \in DOMAIN FieldOrder :
             FieldOrder[j] = result /\ f \in {FieldOrder[i] : i \in 1..(j - 1)}

(* When Set returns, every setting of the document up to the first that    *)
(* failed is in force, whatever an earlier Set left undone, and if none    *)
(* failed all of them survive a power cut.  The exceptions are those of    *)
(* the code.  A setting that an earlier Set changed in part is skipped     *)
(* when the part that is compared is there: the other part may be missing. *)
(* The removal of a network file may fail unnoticed.  A power cut may lose *)
(* what was not synced: the copy of a time zone, the removal of a network  *)
(* file, and a write that had ended with an error.                         *)
SetApplied ==
    Free => \A f \in DOMAIN request : Passed(f) => InPlace(f, request[f])

(* The stamp that keeps FirstBoot from running again is written only when  *)
(* the first card is set up, or could not be: after a power cut the device *)
(* is not left without a network for good.                                 *)
NetworkBeforeStamp ==
    [][~stamp /\ stamp' => sys.interfaces["eth0"] = Dhcp \/ noEther]_confVars
=============================================================================
