----------------------------- MODULE Operations -----------------------------
(***************************************************************************)
(* What snapd's asynchronous operations promise their clients, without the *)
(* goroutines and the fields they share: an operation ends in one step,    *)
(* with its status and its result, and a client that asks is told its      *)
(* status of one moment and its result of a later one, both of them        *)
(* between the question and the answer.  So an operation that has ended is *)
(* answered with its result, and one that is said to run comes with a      *)
(* result if it ended between the two moments.                             *)
(***************************************************************************)
CONSTANTS Client, Task, NoTask

VARIABLES
    status,    \* of each operation: "none", "running", "succeeded" or "failed"
    result,    \* of each operation, "nil" until it has ended
    found,     \* the operations that can be asked for
    phase,     \* of each client: "idle", "starting", "asking" or "told"
    subject,   \* the operation a client asks, or asked, for
    reply      \* what it is told

opVars == <<status, result, found, phase, subject, reply>>

NoReply == [status |-> "unread", result |-> "unread"]

Init ==
    /\ status = [t \in Task |-> "none"] /\ result = [t \in Task |-> "nil"]
    /\ found = {}
    /\ phase = [c \in Client |-> "idle"] /\ subject = [c \in Client |-> NoTask]
    /\ reply = [c \in Client |-> NoReply]

Begin(c, t, p) ==
    /\ phase[c] = "idle" /\ phase' = [phase EXCEPT ![c] = p]
    /\ subject' = [subject EXCEPT ![c] = t] /\ reply' = [reply EXCEPT ![c] = NoReply]

Start(c, t) ==
    /\ status[t] = "none" /\ status' = [status EXCEPT ![t] = "running"]
    /\ Begin(c, t, "starting")
    /\ UNCHANGED <<result, found>>

List(c) ==
    /\ phase[c] = "starting" /\ phase' = [phase EXCEPT ![c] = "asking"]
    /\ found' = found \union {subject[c]}
    /\ UNCHANGED <<status, result, subject, reply>>

End(t, s, r) ==
    /\ status[t] = "running" /\ status' = [status EXCEPT ![t] = s]
    /\ result' = [result EXCEPT ![t] = r]
    /\ UNCHANGED <<found, phase, subject, reply>>

Ask(c, t) == t \in found /\ Begin(c, t, "asking") /\ UNCHANGED <<status, result, found>>

\* The moment whose status the reply tells.
Look(c) ==
    /\ phase[c] = "asking" /\ phase' = [phase EXCEPT ![c] = "told"]
    /\ reply' = [reply EXCEPT ![c] = [@ EXCEPT !.status = status[subject[c]]]]
    /\ UNCHANGED <<status, result, found, subject>>

\* The moment whose result it tells; one that runs has none.
Reply(c) ==
    /\ phase[c] = "told" /\ phase' = [phase EXCEPT ![c] = "idle"]
    /\ reply' = [reply EXCEPT ![c] = [@ EXCEPT !.result = result[subject[c]]]]
    /\ UNCHANGED <<status, result, found, subject>>

Forget(t) ==
    /\ t \in found /\ status[t] # "running" /\ found' = found \ {t}
    /\ UNCHANGED <<status, result, phase, subject, reply>>

Next ==
    \/ \E c \in Client, t \in Task : Start(c, t) \/ Ask(c, t)
    \/ \E c \in Client : List(c) \/ Look(c) \/ Reply(c)
    \/ \E t \in Task : \/ \E r \in {"nil", "result"} : End(t, "succeeded", r)
                       \/ End(t, "failed", "errorResult")
                       \/ Forget(t)

Spec == Init /\ [][Next]_opVars
=============================================================================
