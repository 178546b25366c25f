------------------------------ MODULE Commands ------------------------------
(***************************************************************************)
(* Commands and the lock they hold: how the lock is taken (FileLock), and  *)
(* what goes on at once when commands take it and tasks of the daemon do   *)
(* not (Services, where the lock is one that works).  These share no       *)
(* state, so that their interleavings add nothing: each is explored by     *)
(* itself, from the choice of focus on.                                    *)
(***************************************************************************)
EXTENDS FileLock, Services

VARIABLE focus

commandVars == <<vars, serviceVars, focus>>

\* Two services, in the order of package.yaml.
MCService == <<"web", "db">>

CommandInit == focus \in {"lock", "services"} /\ Init /\ ServiceInit

Locking == focus = "lock" /\ Next /\ UNCHANGED <<serviceVars, focus>>

\* Nothing need be asked for again.
Serving ==
    /\ focus = "services"
    /\ ServiceNext \/ ((\A a \in Actor : ~Busy(a)) /\ UNCHANGED serviceVars)
    /\ UNCHANGED <<vars, focus>>

CommandNext == Locking \/ Serving

CommandSpec == CommandInit /\ [][CommandNext]_commandVars /\ Fairness /\ ServiceFairness
=============================================================================
