----------------------------- MODULE Lifecycle ------------------------------
(***************************************************************************)
(* `server start --background` and `server stop` (internal/cli/server.go): *)
(* commands that launch a server process each, on one port and with one    *)
(* pid file, poll its readiness, give it up or write its pid; commands     *)
(* that stop the server the pid file names.  HttpServer opens what a       *)
(* server does once it listens.                                            *)
(***************************************************************************)
EXTENDS Naturals

CONSTANTS Starts, Stops,
          NoPid, Garbled   \* no pid file, one that holds no pid

VARIABLES cpc,      \* start -> "new", "poll", "ask", "retry", "confirm", "write", "print",
                    \*          "terminate", "reap", "started" or "failed"
          late,     \* the starts whose thirty seconds are over
          child,    \* start -> its server: "none", "booting", "listening",
                    \*          "draining" or "dead"
          told,     \* the starts whose server was sent SIGTERM
          bound,    \* the starts whose server got the port
          pidFile,
          ousted,   \* history: the starts whose pid stood in the file and was
                    \* taken out by another command
          kpc,      \* stop -> "new", "signal", "remove", "print", "stopped" or "failed"
          target    \* stop -> the pid it read
startVars == <<cpc, late>>
childVars == <<child, told, bound>>
fileVars == <<pidFile, ousted>>
stopVars == <<kpc, target>>
vars == <<startVars, childVars, fileVars, stopVars>>

\* A pid is the start that launched the process; pids are not used again.
ASSUME PidAssumption == NoPid \notin Starts /\ Garbled \notin Starts /\ NoPid # Garbled

Pids == Starts \cup {NoPid, Garbled}

TypeOK ==
  /\ cpc \in [Starts -> {"new", "poll", "ask", "retry", "confirm", "write", "print",
                         "terminate", "reap", "started", "failed"}]
  /\ late \subseteq Starts /\ told \subseteq Starts /\ bound \subseteq Starts
  /\ child \in [Starts -> {"none", "booting", "listening", "draining", "dead"}]
  /\ pidFile \in Pids /\ ousted \subseteq Starts
  /\ kpc \in [Stops -> {"new", "signal", "remove", "print", "stopped", "failed"}]
  /\ target \in [Stops -> Pids]

Init ==
  /\ cpc = [c \in Starts |-> "new"] /\ late = {}
  /\ child = [c \in Starts |-> "none"] /\ told = {} /\ bound = {}
  /\ pidFile = NoPid /\ ousted = {}
  /\ kpc = [k \in Stops |-> "new"] /\ target = [k \in Stops |-> NoPid]

----------------------------------------------------------------------------
(* The server process: runServer. *)

Becomes(c, state) == child' = [child EXCEPT ![c] = state]
Alone == UNCHANGED <<startVars, told, fileVars, stopVars>>

\* Only one process can listen on the port.
Listen(c) ==
  /\ child[c] = "booting" /\ \A d \in Starts : child[d] # "listening"
  /\ Becomes(c, "listening") /\ bound' = bound \cup {c}
  /\ Alone

\* The ledger or the archive cannot be opened, the port is taken, or, at any
\* time, the process is lost.
Die(c) ==
  /\ child[c] \in {"booting", "listening", "draining"}
  /\ Becomes(c, "dead")
  /\ Alone /\ UNCHANGED bound

\* SIGTERM ends a process that has not installed its handler; a server that
\* listens closes its port and drains.
OnTerm(c) ==
  /\ c \in told
  /\ \/ child[c] = "booting" /\ Becomes(c, "dead")
     \/ child[c] = "listening" /\ Becomes(c, "draining")
  /\ Alone /\ UNCHANGED bound

Drained(c) ==
  /\ child[c] = "draining"
  /\ Becomes(c, "dead")
  /\ Alone /\ UNCHANGED bound

----------------------------------------------------------------------------
(* startBackground and waitForBackgroundReadiness. *)

CGoto(c, place) == cpc' = [cpc EXCEPT ![c] = place]
Exited(c) == child[c] = "dead"

Launch(c) ==
  /\ cpc[c] = "new"
  /\ \/ CGoto(c, "failed") /\ UNCHANGED child
     \/ CGoto(c, "poll") /\ Becomes(c, "booting")
  /\ UNCHANGED <<late, told, bound, fileVars, stopVars>>

\* pollBackgroundExit before an attempt.
PollExit(c) ==
  /\ cpc[c] = "poll"
  /\ CGoto(c, IF Exited(c) THEN "failed" ELSE "ask")
  /\ UNCHANGED <<late, childVars, fileVars, stopVars>>

\* A slip: any end of the request will do.
AskOnce(c) ==
  /\ cpc[c] = "ask"
  /\ CGoto(c, "confirm")
  /\ UNCHANGED <<late, childVars, fileVars, stopVars>>

\* GET /readyz: whoever listens on the port may answer that it is ready.
Ask(c) ==
  /\ cpc[c] = "ask"
  /\ \/ /\ c \notin late /\ \E d \in Starts : child[d] = "listening"
        /\ CGoto(c, "confirm")
     \/ CGoto(c, "retry")
  /\ UNCHANGED <<late, childVars, fileVars, stopVars>>

\* Not ready: the child has exited, the ticker ticks, or the time is over.
Gone(c) ==
  /\ cpc[c] = "retry" /\ Exited(c)
  /\ CGoto(c, "failed")
  /\ UNCHANGED <<late, childVars, fileVars, stopVars>>

Tick(c) ==
  /\ cpc[c] = "retry" /\ ~Exited(c)
  /\ CGoto(c, "poll")
  /\ UNCHANGED <<late, childVars, fileVars, stopVars>>

\* A slip: the deadline is only looked at by the requests.
WaitOn(c) == FALSE /\ UNCHANGED vars

\* A slip: the child is left alone.
GiveUp(c) ==
  /\ cpc[c] = "retry" /\ ~Exited(c) /\ c \in late
  /\ CGoto(c, "failed")
  /\ UNCHANGED <<late, childVars, fileVars, stopVars>>

TimesOut(c) ==
  /\ cpc[c] = "retry" /\ ~Exited(c) /\ c \in late
  /\ CGoto(c, "terminate")
  /\ UNCHANGED <<late, childVars, fileVars, stopVars>>

Deadline(c) ==
  /\ cpc[c] \in {"poll", "ask", "retry"} /\ c \notin late
  /\ late' = late \cup {c}
  /\ UNCHANGED <<cpc, childVars, fileVars, stopVars>>

\* pollBackgroundExit after an answer.
Confirm(c) ==
  /\ cpc[c] = "confirm"
  /\ CGoto(c, IF Exited(c) THEN "failed" ELSE "write")
  /\ UNCHANGED <<late, childVars, fileVars, stopVars>>

FileBecomes(pid) == pidFile' = pid /\ ousted' = ousted \cup (({pidFile} \cap Starts) \ {pid})

\* A write that fails may have truncated the file.
WritePid(c) ==
  /\ cpc[c] = "write"
  /\ \/ FileBecomes(c) /\ CGoto(c, "print")
     \/ /\ FileBecomes(pidFile) \/ FileBecomes(Garbled)
        /\ CGoto(c, "terminate")
  /\ UNCHANGED <<late, childVars, stopVars>>

\* writeJSON: when the output cannot be written, the command fails and its
\* server goes on.
PrintStarted(c) ==
  /\ cpc[c] = "print"
  /\ CGoto(c, "started") \/ CGoto(c, "failed")
  /\ UNCHANGED <<late, childVars, fileVars, stopVars>>

\* terminateBackgroundProcess: SIGTERM, and after five seconds SIGKILL.
Terminate(c) ==
  /\ cpc[c] = "terminate"
  /\ told' = told \cup {c}
  /\ CGoto(c, "reap")
  /\ UNCHANGED <<late, child, bound, fileVars, stopVars>>

Reap(c) ==
  /\ cpc[c] = "reap"
  /\ Becomes(c, "dead")
  /\ CGoto(c, "failed")
  /\ UNCHANGED <<late, told, bound, fileVars, stopVars>>

StartStep(c) ==
  \/ PollExit(c) \/ Ask(c) \/ Gone(c) \/ Tick(c) \/ TimesOut(c)
  \/ Confirm(c) \/ WritePid(c) \/ PrintStarted(c) \/ Terminate(c) \/ Reap(c)

----------------------------------------------------------------------------
(* serverStopCommand. *)

ReadPid(k) ==
  /\ kpc[k] = "new"
  /\ target' = [target EXCEPT ![k] = pidFile]
  /\ kpc' = [kpc EXCEPT ![k] = IF pidFile \in Starts THEN "signal" ELSE "failed"]
  /\ UNCHANGED <<startVars, childVars, fileVars>>

\* A slip: the signal is not sent.
SkipSignal(k) ==
  /\ kpc[k] = "signal"
  /\ kpc' = [kpc EXCEPT ![k] = "remove"]
  /\ UNCHANGED <<startVars, childVars, fileVars, target>>

\* A process that is gone cannot be signalled; the pid file then stays.
SignalPid(k) ==
  /\ kpc[k] = "signal"
  /\ \/ /\ Exited(target[k])
        /\ kpc' = [kpc EXCEPT ![k] = "failed"]
        /\ UNCHANGED told
     \/ /\ ~Exited(target[k])
        /\ told' = told \cup {target[k]}
        /\ kpc' = [kpc EXCEPT ![k] = "remove"]
  /\ UNCHANGED <<startVars, child, bound, fileVars, target>>

\* That the file cannot be removed is not told.
RemovePid(k) ==
  /\ kpc[k] = "remove"
  /\ FileBecomes(NoPid) \/ UNCHANGED fileVars
  /\ kpc' = [kpc EXCEPT ![k] = "print"]
  /\ UNCHANGED <<startVars, childVars, target>>

PrintStopped(k) ==
  /\ kpc[k] = "print"
  /\ \E end \in {"stopped", "failed"} : kpc' = [kpc EXCEPT ![k] = end]
  /\ UNCHANGED <<startVars, childVars, fileVars, target>>

----------------------------------------------------------------------------
Next ==
  \/ \E c \in Starts : Launch(c) \/ StartStep(c) \/ Deadline(c)
  \/ \E c \in Starts : Listen(c) \/ Die(c) \/ OnTerm(c) \/ Drained(c)
  \/ \E k \in Stops : ReadPid(k) \/ SignalPid(k) \/ RemovePid(k) \/ PrintStopped(k)

Spec == Init /\ [][Next]_vars

\* Fairness: time passes, a command goes on, a process reacts to SIGTERM and
\* its five seconds of draining end.  When the deadline and the ticker are both
\* there, the select takes the deadline sooner or later.  Booting may hang.
FairSpec ==
  /\ Spec
  /\ \A c \in Starts : /\ WF_vars(StartStep(c)) /\ WF_vars(Deadline(c))
                       /\ SF_vars(TimesOut(c))
                       /\ WF_vars(OnTerm(c)) /\ WF_vars(Drained(c))

----------------------------------------------------------------------------
\* A background start ends, started or failed, even if its server never gets
\* ready and never exits.
StartEnds == \A c \in Starts : (cpc[c] = "poll") ~> (cpc[c] \in {"started", "failed"})

\* A background start that reports a failure leaves no server behind that its
\* user cannot stop: its server is gone, or, when the start could not print
\* that it had started, the pid file names it, unless another command has
\* taken it out of the file since.
FailedStartLeavesNoServer ==
  \A c \in Starts :
    cpc[c] = "failed" => child[c] \in {"none", "dead"} \/ pidFile = c \/ c \in ousted

\* A stop that reports success ends the server whose pid it read.
StopEnds ==
  \A k \in Stops, c \in Starts :
    (kpc[k] = "stopped" /\ target[k] = c) ~> (child[c] = "dead")

\* A start that reports success has seen a server on its port: its own, unless
\* another one got there first.  Readiness is asked of the port, not of the
\* child, so that no more than this can be said.
StartedServerListened ==
  \A c \in Starts : (cpc[c] = "started" /\ bound \subseteq {c}) => c \in bound
=============================================================================
