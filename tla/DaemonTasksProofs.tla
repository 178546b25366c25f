------------------------- MODULE DaemonTasksProofs -------------------------
(***************************************************************************)
(* Proofs about DaemonTasks, for any number of clients and tasks.          *)
(*                                                                         *)
(* TaskInv says how far a goroutine has come by the time its tomb is dead, *)
(* AnswerInv what a handler has read once it has read a status other than  *)
(* "running".  Together they are inductive and imply DoneIsFinal.          *)
(*                                                                         *)
(* FoundInv adds to RunningIsFound the tasks whose location is about to be *)
(* sent: they are in the map, or done and deleted.                         *)
(*                                                                         *)
(* With ReadInv, which says what a handler has read at each point, every   *)
(* step of DaemonTasks is a step of Operations under the mapping of Seen,  *)
(* or is not seen.                                                         *)
(***************************************************************************)
EXTENDS DaemonTasks, TLAPS

(* A request that is being handled is about a task that was started.       *)
HandlerInv ==
    /\ \A c \in Client : handler[c] # Idle => about[c] \in Task /\ tomb[about[c]] # "none"
    /\ \A t \in known : tomb[t] # "none"

TypeInv == TypeOK /\ HandlerInv

\* The fields that Map reads, and their order.
LEMMA MapOrderFacts ==
    /\ DOMAIN MapOrder = {1, 2, 3} /\ Len(MapOrder) = 3
    /\ MapOrder[1] = "status" /\ MapOrder[2] = "updated_at" /\ MapOrder[3] = "output"
BY DEF MapOrder

\* Every step keeps the types, and requests about tasks that were started.
LEMMA TypeInvInductive == TypeInv /\ [Next]_vars => TypeInv'
<1> SUFFICES ASSUME TypeInv, [Next]_vars PROVE TypeInv'
  OBVIOUS
<1> USE DEF TypeInv, TypeOK, HandlerInv, Idle, Adding, taskVars, daemonVars
<1>1. CASE UNCHANGED vars
  BY <1>1 DEF vars
<1>2. ASSUME NEW t \in Task, Goroutine(t) PROVE TypeInv'
  <2>1. CASE Finish(t)
    BY <2>1, SMTT(30) DEF Finish
  <2>2. CASE Wrap(t)
    BY <2>2 DEF Wrap
  <2>3. CASE Stamp(t)
    BY <2>3 DEF Stamp
  <2>4. CASE Bury(t)
    BY <2>4 DEF Bury
  <2> QED
    BY <1>2, <2>1, <2>2, <2>3, <2>4 DEF Goroutine
<1>3. ASSUME NEW c \in Client, AddTask(c) PROVE TypeInv'
  BY <1>3, MapOrderFacts DEF AddTask, GoesTo
<1>4. ASSUME NEW c \in Client, Map(c) PROVE TypeInv'
  <2>1. PICK i \in {1, 2, 3} : MapField(c, i)
    BY <1>4, MapOrderFacts DEF Map
  <2>2. about[c] \in Task /\ tomb[about[c]] # "none"
    BY <2>1 DEF MapField
  <2>3. Field(about[c], MapOrder[i]) \in Values
    <3>1. State(about[c]) \in Values
      BY <2>2 DEF State, Values, TaskRunning
    <3>2. Output(about[c]) \in Values /\ tf[about[c]] \in Values
      BY <2>2 DEF Output, Values
    <3> QED
      BY <3>1, <3>2, MapOrderFacts DEF Field
  <2>4. answer' \in [Client -> [Fields -> Values]]
    BY <2>1, <2>3, Zenon DEF MapField, Read
  <2>5. handler' \in [Client -> {Idle, Adding} \union DOMAIN MapOrder]
    BY <2>1, MapOrderFacts DEF MapField, GoesTo
  <2> QED
    BY <2>1, <2>2, <2>4, <2>5 DEF MapField, GoesTo
<1>5. ASSUME NEW c \in Client, NEW t \in Task, RunTask(c, t) PROVE TypeInv'
  BY <1>5 DEF RunTask, Receive, GoesTo, NoAnswer, Values
<1>6. ASSUME NEW c \in Client, NEW t \in Task, GetOpInfo(c, t) PROVE TypeInv'
  BY <1>6, MapOrderFacts DEF GetOpInfo, Receive, GoesTo, NoAnswer, Values
<1>7. ASSUME NEW c \in Client, NEW t \in Task, DeleteTask(c, t) PROVE TypeInv'
  BY <1>7 DEF DeleteTask
<1> QED
  BY <1>1, <1>2, <1>3, <1>4, <1>5, <1>6, <1>7, SMTT(30) DEF Next, Handler

\* So they hold in every state.
LEMMA TypeInvariant == Spec => []TypeInv
<1>1. Init => TypeInv
  BY DEF Init, TypeInv, TypeOK, HandlerInv, NoAnswer, Values, Idle
<1> QED
  BY <1>1, TypeInvInductive, PTL DEF Spec

(* The types of the daemon's tasks, requests and answers.                  *)
THEOREM TypeCorrect == Spec => []TypeOK
BY TypeInvariant, PTL DEF TypeInv

----------------------------------------------------------------------------
(* The goroutines.                                                         *)

Dead == {"succeeded", "failed"}

(* The tomb dies last: by then the output is the final one, wrapped if it  *)
(* is an error, and tf is set.                                             *)
TaskInv ==
    \A t \in Task :
        /\ tomb[t] \in Dead => pc[t] = "done"
        /\ pc[t] = "none" => tomb[t] = "none"
        /\ pc[t] \in {"stamp", "stamping", "return"} =>
               output[t] \in {"nil", "result", "errorResult"}
        /\ pc[t] \in {"return", "done"} => tf[t] = "end"
        /\ tomb[t] = "failed" => output[t] = "errorResult"
        /\ tomb[t] = "succeeded" => output[t] \in {"nil", "result"}

\* The goroutine's steps keep to their order.
LEMMA TaskInvInductive == TypeInv /\ TaskInv /\ [Next]_vars => TaskInv'
<1> SUFFICES ASSUME TypeInv, TaskInv, [Next]_vars PROVE TaskInv'
  OBVIOUS
<1> USE DEF TypeInv, TypeOK, TaskInv, Dead, taskVars, daemonVars
<1>1. CASE UNCHANGED taskVars
  BY <1>1
<1>2. ASSUME NEW t \in Task, Finish(t) PROVE TaskInv'
  BY <1>2 DEF Finish
<1>3. ASSUME NEW t \in Task, Wrap(t) PROVE TaskInv'
  BY <1>3 DEF Wrap
<1>4. ASSUME NEW t \in Task, Stamp(t) PROVE TaskInv'
  BY <1>4 DEF Stamp
<1>5. ASSUME NEW t \in Task, Bury(t) PROVE TaskInv'
  BY <1>5 DEF Bury
<1>6. ASSUME NEW c \in Client, NEW t \in Task, RunTask(c, t) PROVE TaskInv'
  BY <1>6 DEF RunTask
<1>7. CASE \E c \in Client : Handler(c) \/ \E t \in Task : GetOpInfo(c, t) \/ DeleteTask(c, t)
  <2> UNCHANGED taskVars
    BY <1>7 DEF Handler, AddTask, Map, MapField, GetOpInfo, DeleteTask
  <2> QED
    BY <1>1
<1> QED
  BY <1>1, <1>2, <1>3, <1>4, <1>5, <1>6, <1>7 DEF Next, Goroutine, vars

\* So in every state a dead tomb means that the goroutine is over.
LEMMA TaskInvariant == Spec => []TaskInv
<1>1. Init => TaskInv
  BY DEF Init, TaskInv, Dead
<1> QED
  BY <1>1, TaskInvInductive, TypeInvariant, PTL DEF Spec

----------------------------------------------------------------------------
(* The answers.                                                            *)

(* Map reads the status first, so that once it has read that a task is     *)
(* done, whatever it reads afterwards is final.                            *)
SaidDone(c) == answer[c]["status"] # TaskRunning

AnswerInv ==
    \A c \in Client : SaidDone(c) =>
        /\ handler[c] \in {2, 3} \/ Answered(c) =>
               /\ about[c] \in Task /\ tomb[about[c]] \in Dead
               /\ answer[c]["status"] = tomb[about[c]]
        /\ handler[c] = 3 \/ Answered(c) => answer[c]["updated_at"] = "end"
        /\ Answered(c) => answer[c]["output"] = output[about[c]]

\* What a dead task has is final.
LEMMA DeadIsFinal ==
    ASSUME TypeInv, TaskInv, [Next]_vars, NEW t \in Task, tomb[t] \in Dead
    PROVE  tomb'[t] = tomb[t] /\ output'[t] = output[t]
<1> USE DEF TypeInv, TypeOK, TaskInv, Dead, taskVars, daemonVars
<1>1. CASE UNCHANGED taskVars
  BY <1>1, SMTT(30)
<1>2. ASSUME NEW u \in Task, Goroutine(u) PROVE tomb'[t] = tomb[t] /\ output'[t] = output[t]
  BY <1>2 DEF Goroutine, Finish, Wrap, Stamp, Bury
<1>3. ASSUME NEW c \in Client, NEW u \in Task, RunTask(c, u)
      PROVE  tomb'[t] = tomb[t] /\ output'[t] = output[t]
  BY <1>3 DEF RunTask
<1>4. CASE \E c \in Client : Handler(c) \/ \E u \in Task : GetOpInfo(c, u) \/ DeleteTask(c, u)
  <2> UNCHANGED taskVars
    BY <1>4 DEF Handler, AddTask, Map, MapField, GetOpInfo, DeleteTask
  <2> QED
    BY <1>1
<1> QED
  BY <1>1, <1>2, <1>3, <1>4 DEF Next, vars

\* A handler that has read "done" goes on to read what is final.
LEMMA AnswerInvInductive ==
    TypeInv /\ TaskInv /\ AnswerInv /\ [Next]_vars => AnswerInv'
<1> SUFFICES ASSUME TypeInv, TaskInv, AnswerInv, [Next]_vars PROVE AnswerInv'
  OBVIOUS
<1> USE DEF Idle, Adding
<1> TypeOK /\ HandlerInv
  BY DEF TypeInv
<1>1. CASE UNCHANGED <<handler, about, answer>>
  BY <1>1, DeadIsFinal DEF AnswerInv, Answered, SaidDone
<1>2. ASSUME NEW c \in Client, NEW t \in Task, NEW h \in {1, Adding}, Receive(c, t, h)
      PROVE  AnswerInv'
  BY <1>2, DeadIsFinal DEF Receive, GoesTo, AnswerInv, Answered, SaidDone, TypeOK
<1>3. ASSUME NEW c \in Client, AddTask(c) PROVE AnswerInv'
  BY <1>3, DeadIsFinal DEF AddTask, GoesTo, AnswerInv, Answered, SaidDone, TypeOK
<1>4. ASSUME NEW c \in Client, NEW i \in {1, 2, 3}, MapField(c, i) PROVE AnswerInv'
  <2>1. about[c] \in Task /\ tomb[about[c]] # "none" /\ about' = about /\ UNCHANGED taskVars
    BY <1>4 DEF MapField, HandlerInv
  <2>2. CASE i = 1
    BY <1>4, <2>1, <2>2, MapOrderFacts DEF MapField, Read, GoesTo, Field, State, TaskRunning,
        AnswerInv, Answered, SaidDone, TypeOK, Dead, Fields, taskVars
  <2>3. CASE i = 2
    BY <1>4, <2>1, <2>3, MapOrderFacts DEF MapField, Read, GoesTo, Field,
        AnswerInv, Answered, SaidDone, TypeOK, TaskInv, Dead, Fields, taskVars
  <2>4. CASE i = 3
    BY <1>4, <2>1, <2>4, MapOrderFacts DEF MapField, Read, GoesTo, Field, Output,
        AnswerInv, Answered, SaidDone, TypeOK, Dead, Fields, taskVars
  <2> QED
    BY <2>2, <2>3, <2>4, SMTT(30)
<1>5. CASE \E t \in Task : Goroutine(t)
  <2> UNCHANGED <<handler, about, answer>>
    BY <1>5 DEF Goroutine, Finish, Wrap, Stamp, Bury, daemonVars
  <2> QED
    BY <1>1
<1> QED
  BY <1>1, <1>2, <1>3, <1>4, <1>5, MapOrderFacts
  DEF Next, Handler, Map, RunTask, GetOpInfo, DeleteTask, vars, daemonVars

(* At the start nothing has been answered.                                 *)
LEMMA AnswerInvInit == Init => AnswerInv
<1> SUFFICES ASSUME Init PROVE AnswerInv
  OBVIOUS
<1>1. ASSUME NEW c \in Client PROVE handler[c] = 0 /\ about[c] = NoTask
  BY DEF Init, Idle
<1>2. ASSUME NEW c \in Client PROVE handler[c] \notin {2, 3} /\ handler[c] # 3
  BY <1>1
<1>3. ASSUME NEW c \in Client PROVE ~Answered(c)
  BY <1>1 DEF Answered
<1> QED
  BY <1>2, <1>3, Zenon DEF AnswerInv

(* What Map answers of a task that is done is complete and final.          *)
THEOREM AnswersCorrect == Spec => []DoneIsFinal
<1>1. TypeInv /\ TaskInv /\ AnswerInv => DoneIsFinal
  BY SMTT(30) DEF TypeInv, TypeOK, TaskInv, AnswerInv, SaidDone, DoneIsFinal, Dead
<1> QED
  BY <1>1, AnswerInvInit, AnswerInvInductive, TypeInvariant, TaskInvariant, PTL DEF Spec

----------------------------------------------------------------------------
(* The tasks map.                                                          *)

Found(t) == t \in tasks \/ pc[t] = "done"

FoundInv ==
    /\ RunningIsFound
    /\ \A c \in Client : handler[c] \in {1, 2, 3} => Found(about[c])

\* Neither AddTask's delay nor DeleteTask makes a running task unfindable.
LEMMA FoundInvInductive == TypeInv /\ TaskInv /\ FoundInv /\ [Next]_vars => FoundInv'
<1> SUFFICES ASSUME TypeInv, TaskInv, FoundInv, [Next]_vars PROVE FoundInv'
  OBVIOUS
<1> TypeOK /\ HandlerInv
  BY DEF TypeInv
<1> USE DEF FoundInv, RunningIsFound, Found, TypeOK, HandlerInv, Idle, Adding, taskVars, daemonVars
<1>1. CASE UNCHANGED vars
  BY <1>1 DEF vars
<1>2. ASSUME NEW t \in Task, Goroutine(t) PROVE FoundInv'
  BY <1>2 DEF Goroutine, Finish, Wrap, Stamp, Bury
<1>3. ASSUME NEW c \in Client, AddTask(c) PROVE FoundInv'
  BY <1>3 DEF AddTask, GoesTo
<1>4. ASSUME NEW c \in Client, NEW i \in {1, 2, 3}, MapField(c, i) PROVE FoundInv'
  BY <1>4, MapOrderFacts DEF MapField, GoesTo
<1>5. ASSUME NEW c \in Client, NEW t \in Task, RunTask(c, t) PROVE FoundInv'
  BY <1>5 DEF RunTask, Receive, GoesTo, TaskInv
<1>6. ASSUME NEW c \in Client, NEW t \in Task, GetOpInfo(c, t) PROVE FoundInv'
  BY <1>6 DEF GetOpInfo, Receive, GoesTo
<1>7. ASSUME NEW c \in Client, NEW t \in Task, DeleteTask(c, t) PROVE FoundInv'
  <2>1. tomb[t] \in Dead
    BY <1>7 DEF DeleteTask, State, TaskRunning, Dead
  <2>2. pc[t] = "done"
    BY <2>1 DEF TaskInv
  <2> QED
    BY <1>7, <2>2 DEF DeleteTask
<1> QED
  BY <1>1, <1>2, <1>3, <1>4, <1>5, <1>6, <1>7, MapOrderFacts DEF Next, Handler, Map

(* DeleteTask looks at the state under the daemon's lock and AddTask is    *)
(* over before the location is sent: a client finds its running task.      *)
THEOREM FoundCorrect == Spec => []RunningIsFound
<1>1. Init => FoundInv
  <2> SUFFICES ASSUME Init PROVE FoundInv
    OBVIOUS
  <2>1. ASSUME NEW c \in Client PROVE handler[c] \notin {1, 2, 3}
    BY DEF Init, Idle
  <2> QED
    BY <2>1 DEF Init, FoundInv, RunningIsFound
<1>2. FoundInv => RunningIsFound
  BY SMTT(30) DEF FoundInv
<1> QED
  BY <1>1, <1>2, FoundInvInductive, TypeInvariant, TaskInvariant, PTL DEF Spec

----------------------------------------------------------------------------
(* The clients' view: DaemonTasks implements Operations.                   *)

(* What a handler has read at each point, and that a goroutine that runs   *)
(* has a tomb.                                                             *)
ReadInv ==
    /\ \A t \in Task : tomb[t] = "none" => pc[t] = "none"
    /\ \A c \in Client :
        /\ handler[c] \in {Adding, 1} => answer[c] = NoAnswer
        /\ handler[c] \in {2, 3} => answer[c]["output"] = "unread"
        /\ handler[c] = Idle => answer[c] = NoAnswer \/ answer[c]["output"] # "unread"

(* Each handler reads the fields once and in the order of MapOrder.        *)
LEMMA ReadInvInductive == TypeInv /\ ReadInv /\ [Next]_vars => ReadInv'
<1> SUFFICES ASSUME TypeInv, ReadInv, [Next]_vars PROVE ReadInv'
  OBVIOUS
<1> TypeOK /\ HandlerInv
  BY DEF TypeInv
<1> USE DEF ReadInv, TypeOK, Idle, Adding, taskVars, daemonVars
<1>1. CASE UNCHANGED vars
  BY <1>1 DEF vars
<1>2. ASSUME NEW t \in Task, Goroutine(t) PROVE ReadInv'
  BY <1>2 DEF Goroutine, Finish, Wrap, Stamp, Bury
<1>3. ASSUME NEW c \in Client, AddTask(c) PROVE ReadInv'
  BY <1>3 DEF AddTask, GoesTo
<1>4. ASSUME NEW c \in Client, NEW i \in {1, 2, 3}, MapField(c, i) PROVE ReadInv'
  <2>1. about[c] \in Task /\ UNCHANGED taskVars
    BY <1>4 DEF MapField, HandlerInv
  <2>2. CASE i = 1
    BY <1>4, <2>1, <2>2, MapOrderFacts, SMTT(30) DEF MapField, Read, GoesTo, NoAnswer, Fields
  <2>3. CASE i = 2
    BY <1>4, <2>1, <2>3, MapOrderFacts DEF MapField, Read, GoesTo, NoAnswer, Fields
  <2>4. CASE i = 3
    <3>1. Output(about[c]) # "unread"
      BY <2>1 DEF Output
    <3> QED
      BY <1>4, <2>1, <2>4, <3>1, MapOrderFacts DEF MapField, Read, GoesTo, Field, Fields
  <2> QED
    BY <2>2, <2>3, <2>4, SMTT(30)
<1>5. ASSUME NEW c \in Client, NEW t \in Task, RunTask(c, t) PROVE ReadInv'
  BY <1>5 DEF RunTask, Receive, GoesTo
<1>6. ASSUME NEW c \in Client, NEW t \in Task, GetOpInfo(c, t) PROVE ReadInv'
  BY <1>6 DEF GetOpInfo, Receive, GoesTo
<1>7. ASSUME NEW c \in Client, NEW t \in Task, DeleteTask(c, t) PROVE ReadInv'
  BY <1>7 DEF DeleteTask
<1> QED
  BY <1>1, <1>2, <1>3, <1>4, <1>5, <1>6, <1>7, MapOrderFacts DEF Next, Handler, Map

SeenInv == TypeInv /\ TaskInv /\ AnswerInv /\ ReadInv

(* Of a task whose tomb and output stay, clients see the same.             *)
LEMMA TasksStay ==
    ASSUME UNCHANGED <<tomb, output>> PROVE SeenStatus' = SeenStatus /\ SeenResult' = SeenResult
BY DEF SeenStatus, SeenResult, State

(* Of a request whose handler does nothing, clients see the same.          *)
LEMMA RequestsStay ==
    ASSUME UNCHANGED <<handler, about, answer>>
    PROVE  SeenPhase' = SeenPhase /\ SeenReply' = SeenReply
BY DEF SeenPhase, SeenReply

(* What the goroutines do: only the death of the tomb is seen.             *)
LEMMA GoroutineSeen ==
    ASSUME SeenInv, [Next]_vars, NEW t \in Task, Goroutine(t)
    PROVE  Seen!Next \/ UNCHANGED Seen!opVars
<1> USE DEF SeenInv, TypeInv, TypeOK
<1>1. UNCHANGED daemonVars
  BY DEF Goroutine, Finish, Wrap, Stamp, Bury
<1>2. SeenPhase' = SeenPhase /\ SeenReply' = SeenReply /\ UNCHANGED <<tasks, about>>
  BY <1>1, RequestsStay DEF daemonVars
<1>3. CASE Finish(t) \/ Wrap(t) \/ Stamp(t)
  <2>1. tomb' = tomb /\ tomb[t] \notin Dead
    BY <1>3 DEF Finish, Wrap, Stamp, TaskInv
  <2>2. \A u \in Task : u # t => output'[u] = output[u]
    BY <1>3 DEF Finish, Wrap, Stamp
  <2>3. SeenStatus' = SeenStatus
    BY <2>1 DEF SeenStatus, State
  <2>4. SeenResult' = SeenResult
    BY <2>1, <2>2 DEF SeenResult, Ended, Dead
  <2> QED
    BY <1>2, <2>3, <2>4 DEF Seen!opVars
<1>4. CASE Bury(t)
  <2>1. tomb[t] = "alive" /\ output' = output
    BY <1>4 DEF Bury, TaskInv, ReadInv, Dead
  <2>2. output[t] \in {"nil", "result", "errorResult"}
    BY <1>4 DEF Bury, TaskInv
  <2>3. SeenStatus[t] = "running"
    BY <2>1 DEF SeenStatus, State, TaskRunning
  <2> DEFINE s == IF output[t] = "errorResult" THEN "failed" ELSE "succeeded"
  <2>4. tomb' = [tomb EXCEPT ![t] = s] /\ Ended(s) /\ s # "alive"
    BY <1>4 DEF Bury, Ended
  <2>5. SeenStatus' = [SeenStatus EXCEPT ![t] = s]
    BY <2>4, Zenon DEF SeenStatus, State
  <2>6. SeenResult' = [SeenResult EXCEPT ![t] = output[t]]
    BY <2>1, <2>4, Zenon DEF SeenResult, Ended
  <2>7. Seen!End(t, s, output[t])
    BY <1>2, <2>3, <2>5, <2>6 DEF Seen!End
  <2>8. \/ s = "failed" /\ output[t] = "errorResult"
        \/ s = "succeeded" /\ output[t] \in {"nil", "result"}
    BY <2>2
  <2> HIDE DEF s
  <2> QED
    BY <2>7, <2>8 DEF Seen!Next
<1> QED
  BY <1>3, <1>4 DEF Goroutine

(* A handler's step is seen by its own client only.                        *)
LEMMA OthersStay ==
    ASSUME NEW c \in Client,
           \A d \in Client \ {c} : handler'[d] = handler[d] /\ answer'[d] = answer[d]
    PROVE  /\ SeenPhase' = [SeenPhase EXCEPT ![c] = SeenPhase'[c]]
           /\ SeenReply' = [SeenReply EXCEPT ![c] = SeenReply'[c]]
BY Zenon DEF SeenPhase, SeenReply

(* What a request's arrival looks like.                                    *)
LEMMA ReceiveSeen ==
    ASSUME SeenInv, [Next]_vars, NEW c \in Client, NEW t \in Task, NEW h \in {Adding, 1},
           Receive(c, t, h)
    PROVE  Seen!Begin(c, t, IF h = 1 THEN "asking" ELSE "starting")
<1> USE DEF SeenInv, TypeInv, TypeOK
<1>1. /\ SeenPhase' = [SeenPhase EXCEPT ![c] = SeenPhase'[c]]
      /\ SeenReply' = [SeenReply EXCEPT ![c] = SeenReply'[c]]
  BY OthersStay DEF Receive, GoesTo
<1>2. SeenPhase[c] = "idle" /\ SeenPhase'[c] = IF h = 1 THEN "asking" ELSE "starting"
  BY DEF Receive, GoesTo, SeenPhase, Idle, Adding
<1>3. SeenReply'[c] = Seen!NoReply
  <2>1. answer'[c] = NoAnswer
    BY DEF Receive
  <2> QED
    BY <2>1 DEF SeenReply, Seen!NoReply, NoAnswer, Fields
<1> QED
  BY <1>1, <1>2, <1>3 DEF Seen!Begin, Receive

(* Map: the client is told the status and then the output that are read.   *)
LEMMA MapSeen ==
    ASSUME SeenInv, [Next]_vars, NEW c \in Client, NEW i \in {1, 2, 3}, MapField(c, i)
    PROVE  Seen!Next \/ UNCHANGED Seen!opVars
<1> USE DEF SeenInv, TypeInv, TypeOK, Idle, Adding
<1> DEFINE t == about[c]
<1>1. /\ handler[c] = i /\ t \in Task /\ tomb[t] # "none"
      /\ UNCHANGED <<tomb, output, tasks, about>>
  BY DEF MapField, HandlerInv, taskVars
<1>2. /\ SeenPhase' = [SeenPhase EXCEPT ![c] = SeenPhase'[c]]
      /\ SeenReply' = [SeenReply EXCEPT ![c] = SeenReply'[c]]
  BY OthersStay DEF MapField, Read, GoesTo
<1>3. SeenStatus' = SeenStatus /\ SeenResult' = SeenResult
  BY <1>1, TasksStay
<1>4. answer'[c] = [answer[c] EXCEPT ![MapOrder[i]] = Field(t, MapOrder[i])]
  BY DEF MapField, Read
<1>5. CASE i = 1
  <2>1. SeenPhase[c] = "asking" /\ SeenPhase'[c] = "told"
    BY <1>1, <1>5, MapOrderFacts DEF SeenPhase, MapField, GoesTo
  <2>2. answer'[c]["status"] = State(t) /\ answer'[c]["output"] = "unread"
    BY <1>1, <1>4, <1>5, MapOrderFacts DEF ReadInv, Field, Fields, NoAnswer
  <2>3. SeenReply'[c] = [SeenReply[c] EXCEPT !.status = SeenStatus[t]]
    BY <1>1, <1>5, <2>2 DEF ReadInv, NoAnswer, Fields, SeenReply, SeenStatus
  <2>4. Seen!Look(c)
    BY <1>1, <1>2, <1>3, <2>1, <2>3 DEF Seen!Look
  <2> QED
    BY <2>4 DEF Seen!Next
<1>6. CASE i = 2
  <2>1. SeenPhase[c] = "told" /\ SeenPhase'[c] = "told"
    BY <1>1, <1>6, MapOrderFacts DEF SeenPhase, MapField, GoesTo
  <2>2. answer'[c]["status"] = answer[c]["status"] /\ answer'[c]["output"] = answer[c]["output"]
    BY <1>4, <1>6, MapOrderFacts DEF Fields
  <2>3. SeenReply'[c] = SeenReply[c]
    BY <2>2 DEF SeenReply
  <2>4. SeenPhase' = SeenPhase
    BY <1>2, <2>1, Zenon DEF SeenPhase
  <2>5. SeenReply' = SeenReply
    BY <1>2, <2>3, Zenon DEF SeenReply
  <2> QED
    BY <1>1, <1>3, <2>4, <2>5 DEF Seen!opVars
<1>7. CASE i = 3
  <2>1. SeenPhase[c] = "told" /\ SeenPhase'[c] = "idle"
    BY <1>1, <1>7, MapOrderFacts DEF SeenPhase, MapField, GoesTo
  <2>2. answer'[c]["status"] = answer[c]["status"] /\ answer'[c]["output"] = Output(t)
    BY <1>4, <1>7, MapOrderFacts DEF Field, Fields
  <2>3. Output(t) = SeenResult[t]
    BY <1>1 DEF Output, SeenResult, Ended
  <2>4. SeenReply'[c] = [SeenReply[c] EXCEPT !.result = SeenResult[t]]
    BY <2>2, <2>3 DEF SeenReply
  <2>5. Seen!Reply(c)
    BY <1>1, <1>2, <1>3, <2>1, <2>4 DEF Seen!Reply
  <2> QED
    BY <2>5 DEF Seen!Next
<1> QED
  BY <1>5, <1>6, <1>7

(* Every step of the daemon is a step of Operations, or is not seen.       *)
LEMMA StepSeen ==
    ASSUME SeenInv, [Next]_vars PROVE Seen!Next \/ UNCHANGED Seen!opVars
<1> USE DEF SeenInv, TypeInv, TypeOK
<1>1. CASE UNCHANGED vars
  <2>1. UNCHANGED <<tomb, output, handler, about, answer, tasks>>
    BY <1>1 DEF vars, taskVars, daemonVars
  <2> QED
    BY <2>1, TasksStay, RequestsStay DEF Seen!opVars
<1>2. ASSUME NEW t \in Task, Goroutine(t) PROVE Seen!Next \/ UNCHANGED Seen!opVars
  BY <1>2, GoroutineSeen
<1>3. ASSUME NEW c \in Client, AddTask(c) PROVE Seen!Next
  <2>1. UNCHANGED <<tomb, output, about, answer>> /\ tasks' = tasks \union {about[c]}
    BY <1>3 DEF AddTask, taskVars
  <2>2. /\ SeenPhase' = [SeenPhase EXCEPT ![c] = SeenPhase'[c]]
        /\ SeenReply' = [SeenReply EXCEPT ![c] = SeenReply'[c]]
    BY <1>3, OthersStay DEF AddTask, GoesTo
  <2>3. SeenPhase[c] = "starting" /\ SeenPhase'[c] = "asking"
    BY <1>3 DEF AddTask, GoesTo, SeenPhase, Idle, Adding
  <2>4. SeenReply' = SeenReply
    BY <2>1 DEF SeenReply
  <2>5. Seen!List(c)
    BY <2>1, <2>2, <2>3, <2>4, TasksStay DEF Seen!List
  <2> QED
    BY <2>5 DEF Seen!Next
<1>4. ASSUME NEW c \in Client, Map(c) PROVE Seen!Next \/ UNCHANGED Seen!opVars
  BY <1>4, MapSeen, MapOrderFacts DEF Map
<1>5. ASSUME NEW c \in Client, NEW t \in Task, RunTask(c, t) PROVE Seen!Next
  <2>1. Seen!Begin(c, t, "starting")
    BY <1>5, ReceiveSeen DEF RunTask, Adding
  <2>2. tomb[t] = "none" /\ tomb' = [tomb EXCEPT ![t] = "alive"] /\ UNCHANGED <<output, tasks>>
    BY <1>5 DEF RunTask
  <2>3. SeenStatus[t] = "none" /\ SeenStatus' = [SeenStatus EXCEPT ![t] = "running"]
    BY <2>2, Zenon DEF SeenStatus, State, TaskRunning
  <2>4. SeenResult' = SeenResult
    BY <2>2 DEF SeenResult, Ended
  <2>5. Seen!Start(c, t)
    BY <2>1, <2>2, <2>3, <2>4 DEF Seen!Start
  <2> QED
    BY <2>5 DEF Seen!Next
<1>6. ASSUME NEW c \in Client, NEW t \in Task, GetOpInfo(c, t) PROVE Seen!Next
  <2>1. Seen!Begin(c, t, "asking")
    BY <1>6, ReceiveSeen DEF GetOpInfo
  <2>2. t \in tasks /\ UNCHANGED <<tomb, output, tasks>>
    BY <1>6 DEF GetOpInfo, taskVars
  <2>3. Seen!Ask(c, t)
    BY <2>1, <2>2, TasksStay DEF Seen!Ask
  <2> QED
    BY <2>3 DEF Seen!Next
<1>7. ASSUME NEW c \in Client, NEW t \in Task, DeleteTask(c, t) PROVE Seen!Next
  <2>1. /\ t \in tasks /\ tasks' = tasks \ {t}
        /\ UNCHANGED <<tomb, output, handler, about, answer>>
    BY <1>7 DEF DeleteTask, taskVars
  <2>2. SeenStatus[t] # "running"
    BY <1>7 DEF DeleteTask, SeenStatus, TaskRunning
  <2>3. Seen!Forget(t)
    BY <2>1, <2>2, TasksStay, RequestsStay DEF Seen!Forget
  <2> QED
    BY <2>3 DEF Seen!Next
<1> QED
  BY <1>1, <1>2, <1>3, <1>4, <1>5, <1>6, <1>7 DEF Next, Handler

(* AddTask, Map, getOpInfo and deleteOp, interleaved with the goroutines,  *)
(* implement operations that end in one step and answer with a status and  *)
(* a result of two moments in this order; the output is handed over as it  *)
(* was read, also where the status read before it is running.              *)
THEOREM TasksImplementOperations == Spec => AnswersAreOrdered
<1>1. Init => ReadInv
  BY DEF Init, ReadInv, Idle, Adding
<1>2. Init => Seen!Init
  <2> SUFFICES ASSUME Init PROVE Seen!Init
    OBVIOUS
  <2>1. SeenStatus = [t \in Task |-> "none"] /\ SeenResult = [t \in Task |-> "nil"]
    BY DEF Init, SeenStatus, SeenResult, State, Ended
  <2>2. SeenPhase = [c \in Client |-> "idle"]
    BY DEF Init, SeenPhase
  <2>3. SeenReply = [c \in Client |-> Seen!NoReply]
    BY DEF Init, SeenReply, Seen!NoReply, NoAnswer, Fields
  <2> QED
    BY <2>1, <2>2, <2>3 DEF Init, Seen!Init
<1>3. SeenInv /\ [Next]_vars => [Seen!Next]_Seen!opVars
  BY StepSeen
<1> QED
  BY <1>1, <1>2, <1>3, AnswerInvInit, TypeInvariant, TaskInvariant, AnswerInvInductive,
     ReadInvInductive, PTL
  DEF Spec, SeenInv, AnswersAreOrdered, Seen!Spec
=============================================================================
