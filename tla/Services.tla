------------------------------ MODULE Services ------------------------------
(***************************************************************************)
(* The services of one snap: the actor of snappy/service.go, the systemctl *)
(* calls of systemd/systemd.go, and the two places that use them, the      *)
(* service command (cmd_service.go) and the service requests of the daemon *)
(* (packageService in daemon/api.go), next to the switch of the snap to    *)
(* another version (activate and deactivate, click.go and snapp.go).       *)
(*                                                                         *)
(* A unit is a service of one version.  FindServices looks up the active   *)
(* version once and the operation then works on the units it found.  The   *)
(* commands hold the file lock while they run, the tasks of the daemon do  *)
(* not, so a switch may change the units under a task.                     *)
(***************************************************************************)
EXTENDS Integers, Functions, SequencesExt

CONSTANTS Versions,  \* how many versions of the snap are installed
          Service,   \* <<s1, ..., sn>>, the services in package.yaml
          Asked,     \* the service names asked for, "" for all of them
          Command,   \* processes of the snappy command
          Task,      \* tasks of the daemon
          StopSteps, \* times that Stop looks before it looks at the clock
          MaxRounds, \* rounds of StopSteps that fit in the stop timeout
          MaxOps,    \* operations in a behaviour
          MaxFaults  \* failing calls

ASSUME ServicesAssumption ==
    /\ Versions \in Nat \ {0}
    /\ Asked \subseteq Range(Service) \union {""}
    /\ Command \intersect Task = {}
    /\ StopSteps \in Nat \ {0} /\ MaxRounds \in Nat \ {0}
    /\ MaxOps \in Nat /\ MaxFaults \in Nat

Version == 1..Versions
Actor == Command \union Task
Unit == Version \X Range(Service)
NoVersion == 0
Free == "free"

VARIABLES
    active,    \* the version that the current link names
    unitFile,  \* unit files in /etc/systemd/system
    wants,     \* links in multi-user.target.wants
    known,     \* units that systemd read at the last daemon-reload
    running,   \* units whose processes run
    stopping,  \* units told to stop whose processes are still there
    lock,      \* who holds /run/snappy.lock
    plan,      \* the calls an actor has still to make
    op,        \* its operation: name and units
    waited,    \* <<rounds, steps>> of the Stop it is in
    outcome,
    told,      \* what an actor was shown: <<unit, ActiveState>>
    disturbed, \* units that others acted upon since the operation began
    overlap,   \* a unit was started in a switch the lock did not keep out
    survivors, \* units that SIGKILL did not end
    ops, faults

systemdVars == <<unitFile, wants, known, running, stopping, survivors>>
serviceVars == <<active, systemdVars, lock, plan, op, waited, outcome, told, disturbed, overlap, ops, faults>>

UnitsOf(v) == [i \in DOMAIN Service |-> <<v, Service[i]>>]

(* The snap as an installation left it: the services of the active version *)
(* run.  The versions are interchangeable here, so it is the first.        *)
ServiceInit ==
    /\ active = 1
    /\ unitFile = Range(UnitsOf(active)) /\ wants = unitFile /\ known = unitFile
    /\ running = unitFile /\ stopping = {} /\ survivors = {}
    /\ lock = Free
    /\ plan = [a \in Actor |-> << >>] /\ op = [a \in Actor |-> <<"none", << >>>>]
    /\ waited = [a \in Actor |-> <<0, 0>>]
    /\ outcome = [a \in Actor |-> "none"] /\ told = [a \in Actor |-> {}]
    /\ disturbed = [a \in Actor |-> {}]
    /\ overlap = FALSE /\ ops = 0 /\ faults = 0

----------------------------------------------------------------------------
(* What the operations do, call by call.                                   *)

Each(call, units) == [i \in DOMAIN units |-> <<call, units[i]>>]

\* Calls that are about no unit.
Reload == << <<"reload", << >>>> >>
Unlink == << <<"unlink", << >>>> >>
LinkTo(v) == << <<"link", v>> >>

\* serviceActor.Restart: Stop for all, then Start for all.
Restart(units) == Each("stop", units) \o Each("start", units)

\* Status and ServiceStatus, one unit after the other.
Status(units) == Each("show", units)

\* Logs asks for those of all units at once.
Logs == << <<"logs", << >>>> >>

ServicePlan(what, units) ==
    CASE what = "start" -> Each("start", units)
      [] what = "stop" -> Each("stop", units)
      [] what = "restart" -> Restart(units)
      [] what = "enable" -> Each("enable", units) \o Reload
      [] what = "disable" -> Each("disable", units) \o Reload
      [] what = "status" -> Status(units)
      [] what = "logs" -> Logs

removePackageServices(units) ==
    FlattenSeq([i \in DOMAIN units |->
        << <<"disable", units[i]>>, <<"stop", units[i]>>, <<"remove", units[i]>> >>])
    \o (IF units = << >> THEN << >> ELSE Reload)

addPackageServices(units) ==
    FlattenSeq([i \in DOMAIN units |->
        << <<"write", units[i]>>, <<"reload", << >>>>, <<"enable", units[i]>>,
           <<"start", units[i]>> >>])

\* activate, with the deactivate of the active version it begins with.
activate(v) ==
    (IF active = NoVersion THEN << >>
     ELSE removePackageServices(UnitsOf(active)) \o Unlink)
    \o addPackageServices(UnitsOf(v)) \o LinkTo(v)

----------------------------------------------------------------------------
(* Beginning and end of an operation.                                      *)

Busy(a) == plan[a] # << >>

\* Variant: the command does not wait for the lock.
MayBeginUnlocked(a, what) == ~Busy(a) /\ ops < MaxOps

\* withMutexAndRetry; the status command takes no lock, nor does a task.
Locks(a, what) == a \in Command /\ what # "status"

\* It tries again until the lock is free.
MayBegin(a, what) == ~Busy(a) /\ ops < MaxOps /\ (Locks(a, what) => lock = Free)

Begin(a, o, calls) ==
    /\ op' = [op EXCEPT ![a] = o] /\ plan' = [plan EXCEPT ![a] = calls]
    /\ outcome' = [outcome EXCEPT ![a] = "none"] /\ told' = [told EXCEPT ![a] = {}]
    /\ disturbed' = [disturbed EXCEPT ![a] = {}]
    /\ waited' = [waited EXCEPT ![a] = <<0, 0>>]
    /\ lock' = IF Locks(a, o[1]) THEN a ELSE lock
    /\ ops' = ops + 1
    /\ UNCHANGED <<active, systemdVars, overlap, faults>>

(* FindServices of the snap, or of one service of it.  A snap that is not  *)
(* active is an error (ErrPackageNotFound) and nothing is done.            *)
FindServices(name) == SelectSeq(UnitsOf(active), LAMBDA u : name \in {"", u[2]})

\* The service command; the logs too can be had from the daemon (getLogs).
doExecute(a, what, name) ==
    /\ MayBegin(a, what) /\ active # NoVersion
    /\ Begin(a, <<what, FindServices(name)>>, ServicePlan(what, FindServices(name)))

\* A task of the daemon ends with the status, which is its result.
packageService(a, what, name) ==
    LET units == FindServices(name) IN
    /\ MayBegin(a, what) /\ active # NoVersion
    /\ Begin(a, <<what, units>>,
             ServicePlan(what, units) \o (IF what = "status" THEN << >> ELSE Status(units)))

ServiceOp(a) ==
    \E what \in {"start", "stop", "restart", "enable", "disable", "status"}, name \in Asked :
       \/ a \in Command /\ doExecute(a, what, name)
       \/ a \in Task /\ packageService(a, what, name)

getLogs(a) == \E name \in Asked : doExecute(a, "logs", name)

Switching(a) == Busy(a) /\ op[a][1] = "switch"

(* snappy install, update, activate or rollback, as far as it concerns the *)
(* services; the daemon does the same in a task, without the lock.  Two    *)
(* switches at the same time are left out.                                 *)
Switch(a) ==
    /\ MayBegin(a, "switch") /\ \A b \in Actor : ~Switching(b)
    /\ \E v \in Version \ {active} : Begin(a, <<"switch", UnitsOf(v)>>, activate(v))

Return(a, how) ==
    /\ plan' = [plan EXCEPT ![a] = << >>]
    /\ outcome' = [outcome EXCEPT ![a] = how]
    /\ lock' = IF lock = a THEN Free ELSE lock

\* On to the calls that are left.
Proceed(a, rest) ==
    IF rest = << >> THEN Return(a, "ok")
    ELSE plan' = [plan EXCEPT ![a] = rest] /\ UNCHANGED <<outcome, lock>>

----------------------------------------------------------------------------
(* One call.                                                               *)

CallOf(a) == plan[a][1][1]
UnitOf(a) == plan[a][1][2]
Rest(a) == Tail(plan[a])

Disturb(a) ==
    disturbed' = [b \in Actor |->
        IF b # a /\ UnitOf(a) \in Range(op[b][2]) THEN disturbed[b] \union {UnitOf(a)}
        ELSE disturbed[b]]

\* systemctl start knows a unit it has read, or finds its file.
Start(a) ==
    /\ Busy(a) /\ CallOf(a) = "start"
    /\ IF UnitOf(a) \in known \union unitFile
       THEN /\ running' = running \union {UnitOf(a)}
            /\ stopping' = stopping \ {UnitOf(a)}
            /\ overlap' = (overlap \/ \E b \in Actor : /\ b # a /\ Switching(b)
                                                       /\ {a, b} \intersect Task # {})
            /\ Proceed(a, Rest(a))
       ELSE Return(a, "error") /\ UNCHANGED <<running, stopping, overlap>>
    /\ Disturb(a)
    /\ UNCHANGED <<active, unitFile, wants, known, survivors, op, waited, told, ops, faults>>

\* Variant: Stop returns as soon as systemctl has.
StopNoWait(a) == Rest(a)

\* After systemctl stop comes the wait.
AfterStop(a) == << <<"wait", UnitOf(a)>> >> \o Rest(a)

Stop(a) ==
    /\ Busy(a) /\ CallOf(a) = "stop"
    /\ IF UnitOf(a) \in known \union unitFile \union running \union stopping
       THEN /\ running' = running \ {UnitOf(a)}
            /\ stopping' = stopping \union ({UnitOf(a)} \intersect running)
            /\ waited' = [waited EXCEPT ![a] = <<0, 0>>]
            /\ Proceed(a, AfterStop(a))
       ELSE Return(a, "error") /\ UNCHANGED <<running, stopping, waited>>
    /\ Disturb(a)
    /\ UNCHANGED <<active, unitFile, wants, known, survivors, op, told, overlap, ops, faults>>

\* A Timeout: an operation returns it, removePackageServices kills the unit.
StopTimedOut(a) ==
    IF op[a][1] = "switch" THEN Proceed(a, << <<"kill", UnitOf(a)>> >> \o Rest(a))
    ELSE Return(a, "error")

\* Variant: the clock is not looked at.
ClockAllowsAlways(a) == TRUE

\* time.Now().Before(max) with this many rounds behind; calls take time too.
ClockAllows(a) == waited[a][1] + 1 < MaxRounds

\* for i := 0; i < stopSteps; i++
MoreSteps(a) == waited[a][2] + 1 < StopSteps

\* systemctl show, one look: it is done, or on to the next step or round.
Wait(a) ==
    /\ Busy(a) /\ CallOf(a) = "wait"
    /\ \/ /\ UnitOf(a) \notin running \union stopping
          /\ Proceed(a, Rest(a)) /\ waited' = [waited EXCEPT ![a] = <<0, 0>>]
       \/ /\ UnitOf(a) \in running \union stopping
          /\ MoreSteps(a)
          /\ waited' = [waited EXCEPT ![a][2] = @ + 1] /\ UNCHANGED <<plan, outcome, lock>>
       \/ /\ UnitOf(a) \in running \union stopping
          /\ ~MoreSteps(a)
          /\ IF ClockAllows(a)
             THEN /\ waited' = [waited EXCEPT ![a] = <<(@[1] + 1) % MaxRounds, 0>>]
                  /\ UNCHANGED <<plan, outcome, lock>>
             ELSE StopTimedOut(a) /\ waited' = [waited EXCEPT ![a] = <<0, 0>>]
    /\ UNCHANGED <<active, systemdVars, op, told, disturbed, overlap, ops, faults>>

\* SIGTERM, then SIGKILL; the errors are ignored.
Kill(a) ==
    /\ Busy(a) /\ CallOf(a) = "kill"
    /\ \/ /\ running' = running \ {UnitOf(a)} /\ stopping' = stopping \ {UnitOf(a)}
          /\ UNCHANGED <<survivors, faults>>
       \/ /\ faults < MaxFaults /\ faults' = faults + 1
          /\ survivors' = survivors \union {UnitOf(a)} /\ UNCHANGED <<running, stopping>>
    /\ Proceed(a, Rest(a)) /\ Disturb(a)
    /\ UNCHANGED <<active, unitFile, wants, known, op, waited, told, overlap, ops>>

\* Enable makes a link whether or not there is a unit file.
FileCall(a) ==
    /\ Busy(a) /\ CallOf(a) \in {"enable", "disable", "reload", "write", "remove", "unlink", "link"}
    /\ wants' = CASE CallOf(a) = "enable" -> wants \union {UnitOf(a)}
                  [] CallOf(a) = "disable" -> wants \ {UnitOf(a)}
                  [] OTHER -> wants
    /\ unitFile' = CASE CallOf(a) = "write" -> unitFile \union {UnitOf(a)}
                     [] CallOf(a) = "remove" -> unitFile \ {UnitOf(a)}
                     [] OTHER -> unitFile
    /\ known' = IF CallOf(a) = "reload" THEN unitFile ELSE known
    /\ active' = CASE CallOf(a) = "unlink" -> NoVersion
                   [] CallOf(a) = "link" -> UnitOf(a)
                   [] OTHER -> active
    /\ Proceed(a, Rest(a))
    /\ IF CallOf(a) \in {"enable", "disable"} THEN Disturb(a) ELSE UNCHANGED disturbed
    /\ UNCHANGED <<running, stopping, survivors, op, waited, told, overlap, ops, faults>>

ActiveState(u) ==
    IF u \in running THEN "active" ELSE IF u \in stopping THEN "deactivating" ELSE "inactive"

\* systemctl show; journalctl tells nothing that matters here.
Look(a) ==
    /\ Busy(a) /\ CallOf(a) \in {"show", "logs"}
    /\ told' = IF CallOf(a) = "show"
               THEN [told EXCEPT ![a] = @ \union {<<UnitOf(a), ActiveState(UnitOf(a))>>}]
               ELSE told
    /\ Proceed(a, Rest(a))
    /\ UNCHANGED <<active, systemdVars, op, waited, disturbed, overlap, ops, faults>>

\* A systemctl call of a service operation fails and ends it.
CallFails(a) ==
    /\ Busy(a) /\ ~Switching(a) /\ CallOf(a) # "reload"
    /\ faults < MaxFaults /\ faults' = faults + 1
    /\ Return(a, "error") /\ waited' = [waited EXCEPT ![a] = <<0, 0>>]
    /\ UNCHANGED <<active, systemdVars, op, told, disturbed, overlap, ops>>

\* The processes of a unit that was told to stop are gone.
Stopped(u) ==
    /\ u \in stopping /\ stopping' = stopping \ {u}
    /\ UNCHANGED <<active, unitFile, wants, known, running, survivors, lock, plan, op,
                   waited, outcome, told, disturbed, overlap, ops, faults>>

ServiceStep(a) == Start(a) \/ Stop(a) \/ Wait(a) \/ Kill(a) \/ FileCall(a) \/ Look(a)

ServiceNext ==
    \/ \E a \in Actor : ServiceOp(a) \/ getLogs(a) \/ Switch(a) \/ ServiceStep(a) \/ CallFails(a)
    \/ \E u \in Unit : Stopped(u)

(* An operation that has begun goes on: it is a process or a goroutine of  *)
(* its own.  Nothing is assumed of the services: they may never stop.      *)
ServiceFairness == \A a \in Actor : WF_serviceVars(ServiceStep(a))

----------------------------------------------------------------------------
(* When every operation has ended, only services of the active version run *)
(* (click.go removes the units of the old one), unless a service was       *)
(* started in the middle of a switch that the lock did not keep out, or a  *)
(* process outlived SIGKILL.  A task that looked its units up before the   *)
(* switch and starts them after it does no harm.                           *)
OnlyActiveRuns ==
    (~overlap /\ \A a \in Actor : ~Busy(a)) =>
        (running \union stopping) \ survivors \subseteq {u \in Unit : u[1] = active}

(* What an operation reports is so, for each unit nobody else has touched  *)
(* since it began: stopped services have stopped ("wait until it has       *)
(* stopped", systemd.go), restarted ones run, enabled ones are linked, and *)
(* the status at the end of a task is that of each of the units.           *)
ResultIsTrue ==
    \A a \in Actor : \A u \in Range(op[a][2]) \ disturbed[a] :
        outcome[a] = "ok" =>
            /\ op[a][1] = "stop" => u \notin running \union stopping
            /\ op[a][1] \in {"start", "restart", "switch"} => u \in running
            /\ op[a][1] \in {"enable", "switch"} => u \in wants
            /\ op[a][1] = "disable" => u \notin wants
            /\ (op[a][1] = "status" \/ (a \in Task /\ op[a][1] \notin {"logs", "switch"})) =>
                  \E state \in {ActiveState(u), "deactivating"} :
                     /\ {t \in told[a] : t[1] = u} = {<<u, state>>}
                     /\ state = "deactivating" => u \notin running /\ op[a][1] # "stop"

(* Every operation ends, also when a service never does: Stop gives up     *)
(* after its timeout.                                                      *)
OperationsEnd == \A a \in Actor : Busy(a) ~> ~Busy(a)
=============================================================================
