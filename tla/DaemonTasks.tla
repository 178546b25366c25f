---------------------------- MODULE DaemonTasks ----------------------------
(***************************************************************************)
(* snapd's asynchronous operations (daemon/daemon.go, task.go, api.go).  A *)
(* POST starts a goroutine and answers with the location of its Task; a    *)
(* GET answers with the task's map, a DELETE forgets a task that is done.  *)
(*                                                                         *)
(* The handlers and the goroutines run at the same time.  The tasks map is *)
(* under the daemon's lock, the state of a task is under its tomb's lock,  *)
(* and the output and the time of the last change are under none: a time   *)
(* that is read while it is written is any mixture of both values.         *)
(***************************************************************************)
EXTENDS Integers, Sequences

CONSTANTS Client,  \* connections, each one making one request at a time
          Task     \* the operations that the clients ask for

NoTask == "no task"

\* handler: no request, AddTask comes next, or the index in MapOrder that does.
Idle == 0
Adding == -1

ASSUME NoTaskAssumption == NoTask \notin Task

VARIABLES
    tomb,      \* t.tomb: "none", "alive", or the reason: "succeeded", "failed"
    pc,        \* where the goroutine of each task is
    output,    \* t.output
    tf,        \* t.tf
    tasks,     \* d.tasks
    known,     \* the tasks whose location was sent to a client
    handler,   \* what the handler of each client's request does next
    about,     \* the task that the request is about, or NoTask
    answer,    \* what the handler has read so far
    reported   \* history: tasks that were reported as done, or forgotten

taskVars == <<tomb, pc, output, tf>>
daemonVars == <<tasks, known, handler, about, answer, reported>>
vars == <<taskVars, daemonVars>>

TaskRunning == "running"

\* Variant: the output comes first.
MapOrderOutputFirst == <<"output", "updated_at", "status">>

\* The fields of Task.Map that change, in the order it reads them.
MapOrder == <<"status", "updated_at", "output">>

Fields == {"status", "updated_at", "output"}

NoAnswer == [name \in Fields |-> "unread"]

Values == {"unread", "running", "succeeded", "failed", "t0", "torn", "end",
           "nil", "result", "error", "errorResult"}

TypeOK ==
    /\ tomb \in [Task -> {"none", "alive", "succeeded", "failed"}]
    /\ pc \in [Task -> {"none", "f", "wrap", "stamp", "stamping", "return", "done"}]
    /\ output \in [Task -> {"nil", "result", "error", "errorResult"}]
    /\ tf \in [Task -> {"t0", "torn", "end"}]
    /\ tasks \subseteq Task /\ known \subseteq Task /\ reported \subseteq Task
    /\ handler \in [Client -> {Idle, Adding} \union DOMAIN MapOrder]
    /\ about \in [Client -> Task \union {NoTask}]
    /\ answer \in [Client -> [Fields -> Values]]

Init ==
    /\ tomb = [t \in Task |-> "none"]
    /\ pc = [t \in Task |-> "none"]
    /\ output = [t \in Task |-> "nil"]
    /\ tf = [t \in Task |-> "t0"]
    /\ tasks = {} /\ known = {} /\ reported = {}
    /\ handler = [c \in Client |-> Idle]
    /\ about = [c \in Client |-> NoTask]
    /\ answer = [c \in Client |-> NoAnswer]

----------------------------------------------------------------------------
(* The goroutine of a task.                                                *)

\* The operation returns nothing, a result, or an error, which is wrapped.
Finish(t) ==
    /\ pc[t] = "f"
    /\ \/ /\ \E out \in {"nil", "result"} : output' = [output EXCEPT ![t] = out]
          /\ pc' = [pc EXCEPT ![t] = "stamp"]
       \/ /\ output' = [output EXCEPT ![t] = "error"]
          /\ pc' = [pc EXCEPT ![t] = "wrap"]
    /\ UNCHANGED <<tomb, tf, daemonVars>>

Wrap(t) ==
    /\ pc[t] = "wrap"
    /\ output' = [output EXCEPT ![t] = "errorResult"]
    /\ pc' = [pc EXCEPT ![t] = "stamp"]
    /\ UNCHANGED <<tomb, tf, daemonVars>>

\* The deferred function that sets tf, a value of several words.
Stamp(t) ==
    /\ \/ /\ pc[t] = "stamp"
          /\ tf' = [tf EXCEPT ![t] = "torn"]
          /\ pc' = [pc EXCEPT ![t] = "stamping"]
       \/ /\ pc[t] = "stamping"
          /\ tf' = [tf EXCEPT ![t] = "end"]
          /\ pc' = [pc EXCEPT ![t] = "return"]
    /\ UNCHANGED <<tomb, output, daemonVars>>

\* Variant: the tomb of a task that failed stays alive.
BuryNot(t) ==
    /\ pc[t] = "return"
    /\ tomb' = [tomb EXCEPT ![t] = IF output[t] = "errorResult" THEN "alive" ELSE "succeeded"]
    /\ pc' = [pc EXCEPT ![t] = "done"]
    /\ UNCHANGED <<output, tf, daemonVars>>

\* Variant: the tomb of a task that failed is dead before the error is wrapped.
BuryEarly(t) ==
    /\ pc[t] = "return" \/ (pc[t] = "wrap" /\ tomb[t] = "alive")
    /\ tomb' = [tomb EXCEPT ![t] = IF output[t] \in {"error", "errorResult"} THEN "failed" ELSE "succeeded"]
    /\ pc' = [pc EXCEPT ![t] = IF @ = "wrap" THEN @ ELSE "done"]
    /\ UNCHANGED <<output, tf, daemonVars>>

\* The tomb's only goroutine has returned: it is dead, with what it returned.
Bury(t) ==
    /\ pc[t] = "return"
    /\ tomb' = [tomb EXCEPT ![t] = IF output[t] = "errorResult" THEN "failed" ELSE "succeeded"]
    /\ pc' = [pc EXCEPT ![t] = "done"]
    /\ UNCHANGED <<output, tf, daemonVars>>

----------------------------------------------------------------------------
(* Task.State, Output and UpdatedAt.                                       *)

State(t) == IF tomb[t] = "alive" THEN TaskRunning ELSE tomb[t]

Output(t) == IF tomb[t] = "alive" THEN "nil" ELSE output[t]

Field(t, name) ==
    CASE name = "status" -> State(t)
      [] name = "updated_at" -> tf[t]
      [] name = "output" -> Output(t)

----------------------------------------------------------------------------
(* The handlers.                                                           *)

GoesTo(c, h) == handler' = [handler EXCEPT ![c] = h]

Receive(c, t, h) ==
    /\ handler[c] = Idle
    /\ GoesTo(c, h)
    /\ about' = [about EXCEPT ![c] = t]
    /\ answer' = [answer EXCEPT ![c] = NoAnswer]

\* postPackage, packageService, configMulti, sideloadPackage: RunTask.
RunTask(c, t) ==
    /\ tomb[t] = "none"
    /\ Receive(c, t, Adding)
    /\ tomb' = [tomb EXCEPT ![t] = "alive"]
    /\ pc' = [pc EXCEPT ![t] = "f"]
    /\ UNCHANGED <<output, tf, tasks, known, reported>>

AddTask(c) ==
    /\ handler[c] = Adding
    /\ tasks' = tasks \union {about[c]}
    /\ GoesTo(c, 1)
    /\ UNCHANGED <<taskVars, known, about, answer, reported>>

Read(c, i) ==
    answer' = [answer EXCEPT ![c] = [@ EXCEPT ![MapOrder[i]] = Field(about[c], MapOrder[i])]]

(* Task.Map reads the fields one after the other; after the last one the   *)
(* answer is sent.                                                         *)
MapField(c, i) ==
    /\ handler[c] = i
    /\ Read(c, i)
    /\ IF i < Len(MapOrder)
         THEN GoesTo(c, i + 1) /\ UNCHANGED <<known, reported>>
         ELSE /\ GoesTo(c, Idle)
              /\ known' = known \union {about[c]}
              /\ reported' = IF answer'[c]["status"] = TaskRunning THEN reported
                             ELSE reported \union {about[c]}
    /\ UNCHANGED <<taskVars, tasks, about>>

Map(c) == \E i \in DOMAIN MapOrder : MapField(c, i)

\* getOpInfo; a task that is not in the map is not found.
GetOpInfo(c, t) ==
    /\ t \in known /\ t \in tasks
    /\ Receive(c, t, 1)
    /\ UNCHANGED <<taskVars, tasks, known, reported>>

\* Variant: whatever the task's state.
DeleteTaskUnchecked(c, t) ==
    /\ handler[c] = Idle
    /\ t \in known /\ t \in tasks
    /\ tasks' = tasks \ {t}
    /\ reported' = reported \union {t}
    /\ UNCHANGED <<taskVars, known, handler, about, answer>>

\* deleteOp, under the daemon's lock; a task that is running is refused.
DeleteTask(c, t) ==
    /\ handler[c] = Idle
    /\ t \in known /\ t \in tasks
    /\ State(t) # TaskRunning
    /\ tasks' = tasks \ {t}
    /\ reported' = reported \union {t}
    /\ UNCHANGED <<taskVars, known, handler, about, answer>>

Goroutine(t) == Finish(t) \/ Wrap(t) \/ Stamp(t) \/ Bury(t)

Handler(c) == AddTask(c) \/ Map(c)

Next ==
    \/ \E t \in Task : Goroutine(t)
    \/ \E c \in Client : Handler(c)
    \/ \E c \in Client, t \in Task : RunTask(c, t) \/ GetOpInfo(c, t) \/ DeleteTask(c, t)

Spec == Init /\ [][Next]_vars

(* The runtime runs every goroutine, an operation ends, and somebody goes  *)
(* on asking for each task.                                                *)
Fairness ==
    /\ \A t \in Task : WF_vars(Goroutine(t))
    /\ \A c \in Client : WF_vars(Handler(c))
    /\ \A t \in Task : SF_vars(\E c \in Client : GetOpInfo(c, t))

FairSpec == Spec /\ Fairness

----------------------------------------------------------------------------
Answered(c) == handler[c] = Idle /\ about[c] # NoTask

(* DoneIsFinal: an answer that says succeeded or failed has the final      *)
(* output in it, an error in its wrapping exactly when it says failed, and *)
(* the time at which the task ended, although Map reads the three without  *)
(* a lock while the goroutine writes them.                                 *)
DoneIsFinal ==
    \A c \in Client : Answered(c) /\ answer[c]["status"] # TaskRunning =>
        /\ answer[c]["updated_at"] = "end"
        /\ answer[c]["output"] \in (IF answer[c]["status"] = "failed" THEN {"errorResult"}
                                   ELSE {"nil", "result"})

(* RunningIsFound: the location of a task that was sent to a client works  *)
(* as long as the task runs, whoever deletes tasks meanwhile.              *)
RunningIsFound == \A t \in known : t \in tasks \/ pc[t] = "done"

(* DoneIsReported: whoever goes on asking for a task is told in the end    *)
(* that it is done, unless it was deleted.                                 *)
DoneIsReported == \A t \in Task : t \in known ~> t \in reported

----------------------------------------------------------------------------
(* What the clients see of it.  An operation ends when its goroutine is    *)
(* buried, and an answer is what Map has read so far, the output as it     *)
(* was read whatever the status was before it.                             *)

Ended(s) == s \in {"succeeded", "failed"}

SeenStatus == [t \in Task |-> State(t)]

SeenResult == [t \in Task |-> IF Ended(tomb[t]) THEN output[t] ELSE "nil"]

SeenPhase == [c \in Client |->
    IF handler[c] = Idle THEN "idle" ELSE IF handler[c] = Adding THEN "starting"
    ELSE IF handler[c] = 1 THEN "asking" ELSE "told"]

SeenReply == [c \in Client |-> [status |-> answer[c]["status"], result |-> answer[c]["output"]]]

Seen == INSTANCE Operations WITH status <- SeenStatus, result <- SeenResult, found <- tasks,
                                 phase <- SeenPhase, subject <- about, reply <- SeenReply

(* AnswersAreOrdered: although a goroutine writes the output, wraps it and *)
(* dies in separate steps, and Map reads the fields one by one without a   *)
(* lock, clients cannot tell the tasks from operations that end in one     *)
(* step and are asked for their status first and for their result later.   *)
(* An answer that says running may hold a result, of a task that ended     *)
(* while it was put together; it never holds one that is not the final     *)
(* one, and one that says succeeded or failed never lacks it.              *)
AnswersAreOrdered == Seen!Spec
=============================================================================
