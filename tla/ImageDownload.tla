---------------------------- MODULE ImageDownload ----------------------------
(***************************************************************************)
(* The download of a system update (snappy/systemimage_native.go):         *)
(* systemImageDownloadUpdate runs system-image-cli as a child, parses the  *)
(* messages it prints and, in a goroutine, collects what it prints to      *)
(* stderr.  Both pipes hold little; a child that writes to a full one      *)
(* waits.                                                                  *)
(***************************************************************************)
EXTENDS Integers, Sequences

CONSTANTS PipeSize, MaxWrites, MaxDownloads

ASSUME DownloadAssumption == PipeSize \in Nat \ {0} /\ MaxWrites \in Nat /\ MaxDownloads \in Nat

\* A line is a message of one of three types, something that is no message,
\* or longer than the scanner takes.
Line == {"spinner", "progress", "error", "junk", "long"}

VARIABLES
    child,      \* the state of the child, or how it exited
    wants,      \* what the child does next: a line, a trace on stderr, or exit
    stdout,     \* the lines in the pipe
    stderr,     \* how much is in the other pipe
    collector,  \* the goroutine
    parser,     \* where systemImageDownloadUpdate is
    fetched,    \* what it returned
    said,       \* whether the child has printed an error message
    orphans,    \* children nobody waits for
    writes, downloads

downloadVars == <<child, wants, stdout, stderr, collector, parser, fetched, said, orphans, writes,
                  downloads>>

DownloadTypeOK ==
    /\ child \in {"none", "runs", "exit 0", "exit 1"} /\ wants \in Line \union {"trace", "exit"}
    /\ Len(stdout) <= PipeSize /\ stderr \in 0..PipeSize
    /\ collector \in {"none", "reads", "sends"}
    /\ parser \in {"idle", "parses", "receives", "waits"}
    /\ fetched \in {"none", "ok", "error"} /\ said \in BOOLEAN
    /\ orphans \in 0..MaxDownloads /\ writes \in 0..MaxWrites /\ downloads \in 0..MaxDownloads

DownloadInit ==
    /\ child = "none" /\ wants = "exit" /\ stdout = << >> /\ stderr = 0
    /\ collector = "none" /\ parser = "idle" /\ fetched = "none" /\ said = FALSE
    /\ orphans = 0 /\ writes = 0 /\ downloads = 0

----------------------------------------------------------------------------
(* The child, which is not part of this code.                              *)

childPrints ==
    /\ child = "runs" /\ writes < MaxWrites /\ writes' = writes + 1
    /\ \/ /\ wants \in Line /\ Len(stdout) < PipeSize
          /\ stdout' = Append(stdout, wants) /\ said' = (said \/ wants = "error") /\ UNCHANGED stderr
       \/ /\ wants = "trace" /\ stderr < PipeSize
          /\ stderr' = stderr + 1 /\ UNCHANGED <<stdout, said>>
    /\ wants' \in IF writes' < MaxWrites THEN Line \union {"trace", "exit"} ELSE {"exit"}
    /\ UNCHANGED <<child, collector, parser, fetched, orphans, downloads>>

childExits ==
    /\ child = "runs" /\ wants = "exit"
    /\ child' \in {"exit 0", "exit 1"}
    /\ UNCHANGED <<wants, stdout, stderr, collector, parser, fetched, said, orphans, writes, downloads>>

----------------------------------------------------------------------------
(* The goroutine and the function.                                         *)

\* Variant: stderr is read only when stdout is at its end.
collectStderrLate ==
    /\ collector = "reads" /\ parser # "parses"
    /\ \/ stderr > 0 /\ stderr' = 0 /\ UNCHANGED collector
       \/ stderr = 0 /\ child # "runs" /\ collector' = "sends" /\ UNCHANGED stderr
    /\ UNCHANGED <<child, wants, stdout, parser, fetched, said, orphans, writes, downloads>>

collectStderr ==
    /\ collector = "reads"
    /\ \/ stderr > 0 /\ stderr' = 0 /\ UNCHANGED collector
       \/ stderr = 0 /\ child # "runs" /\ collector' = "sends" /\ UNCHANGED stderr
    /\ UNCHANGED <<child, wants, stdout, parser, fetched, said, orphans, writes, downloads>>

(* The pipes and the goroutine come before the start of the child, which   *)
(* may fail; the goroutine then waits for ever to send.  So does that of a *)
(* download that ended at a message, whose child is left alone.            *)
systemImageDownloadUpdate ==
    /\ parser = "idle" /\ downloads < MaxDownloads /\ downloads' = downloads + 1
    /\ orphans' = orphans + (IF child = "runs" THEN 1 ELSE 0)
    /\ stdout' = << >> /\ stderr' = 0 /\ said' = FALSE /\ writes' = 0
    /\ \/ /\ child' = "runs" /\ collector' = "reads"
          /\ parser' = "parses" /\ fetched' = "none"
          /\ wants' \in Line \union {"trace", "exit"}
       \/ /\ child' = "none" /\ collector' = "none"
          /\ fetched' = "error" /\ wants' = "exit" /\ UNCHANGED parser

Return(how) == parser' = "idle" /\ fetched' = how

\* One line, or the end of the output.
parseSIProgress ==
    /\ parser = "parses"
    /\ \/ /\ stdout # << >> /\ stdout' = Tail(stdout)
          /\ IF Head(stdout) \in {"error", "long"} THEN Return("error") ELSE UNCHANGED <<parser, fetched>>
       \/ /\ stdout = << >> /\ child # "runs"
          /\ parser' = "receives" /\ UNCHANGED <<stdout, fetched>>
    /\ UNCHANGED <<child, wants, stderr, collector, said, orphans, writes, downloads>>

receiveStderr ==
    /\ parser = "receives" /\ collector = "sends"
    /\ parser' = "waits" /\ collector' = "none"
    /\ UNCHANGED <<child, wants, stdout, stderr, fetched, said, orphans, writes, downloads>>

waitChild ==
    /\ parser = "waits" /\ child # "runs"
    /\ Return(IF child = "exit 0" THEN "ok" ELSE "error")
    /\ UNCHANGED <<child, wants, stdout, stderr, collector, said, orphans, writes, downloads>>

DownloadNext ==
    \/ childPrints \/ childExits
    \/ systemImageDownloadUpdate \/ collectStderr \/ parseSIProgress \/ receiveStderr \/ waitChild

----------------------------------------------------------------------------
(* A download that has begun goes on: the child, the goroutine and the     *)
(* parser never all wait for each other, however much is printed to which  *)
(* pipe ("we need to read all of stderr *before* calling cmd.Wait() to     *)
(* avoid a race").  It succeeds only when the child reported no error and  *)
(* exited with 0, and only a download that failed leaves a child behind.   *)
DownloadIsTrue ==
    /\ parser # "idle" =>
         \/ ENABLED (childPrints \/ childExits)
         \/ ENABLED (collectStderr \/ parseSIProgress \/ receiveStderr \/ waitChild)
    /\ fetched = "ok" => child = "exit 0" /\ ~said
    /\ parser = "idle" /\ child = "runs" => fetched = "error"
=============================================================================
