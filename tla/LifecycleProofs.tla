-------------------------- MODULE LifecycleProofs ---------------------------
(* Safety of background starts, for any number of commands. *)
EXTENDS Lifecycle, TLAPS

\* A command that has not begun has launched nothing.
NewHasNoServer == \A c \in Starts : cpc[c] = "new" => child[c] = "none"

\* What a start is about to print is what the pid file holds.
WrittenIsNamed == \A c \in Starts : cpc[c] = "print" => pidFile = c \/ c \in ousted

\* A stop that goes on has read the pid of a server.
SignalsAServer == \A k \in Stops : kpc[k] = "signal" => target[k] \in Starts

\* Who listens has got the port, and who was answered was answered by somebody.
AnswersAreServers ==
  /\ \A d \in Starts : child[d] = "listening" => d \in bound
  /\ \A c \in Starts : cpc[c] \in {"confirm", "write", "print", "started"} => bound # {}

LifecycleInv ==
  /\ TypeOK /\ NewHasNoServer /\ WrittenIsNamed /\ SignalsAServer
  /\ FailedStartLeavesNoServer /\ AnswersAreServers

LEMMA LifecycleInit == Init => LifecycleInv
  BY PidAssumption
  DEF Init, LifecycleInv, TypeOK, Pids, NewHasNoServer, WrittenIsNamed, SignalsAServer, FailedStartLeavesNoServer,
      AnswersAreServers

\* A command's step: what it does to its own place, and to its own server.
LEMMA CommandStep ==
  ASSUME LifecycleInv, NEW c \in Starts, Launch(c) \/ StartStep(c) \/ Deadline(c)
  PROVE  LifecycleInv'
  <1>. USE DEF LifecycleInv, TypeOK, NewHasNoServer, WrittenIsNamed, SignalsAServer, FailedStartLeavesNoServer,
               AnswersAreServers, Pids,
               startVars, childVars, fileVars, stopVars, CGoto, Becomes, Exited, FileBecomes
  <1>1. CASE Launch(c)
    BY <1>1 DEF Launch
  <1>2. CASE PollExit(c)
    BY <1>2 DEF PollExit
  <1>3. CASE Ask(c)
    BY <1>3 DEF Ask
  <1>4. CASE Gone(c)
    BY <1>4 DEF Gone
  <1>5. CASE Tick(c)
    BY <1>5 DEF Tick
  <1>6. CASE TimesOut(c)
    BY <1>6 DEF TimesOut
  <1>7. CASE Confirm(c)
    BY <1>7 DEF Confirm
  <1>8. CASE WritePid(c)
    BY <1>8 DEF WritePid
  <1>9. CASE Terminate(c)
    BY <1>9 DEF Terminate
  <1>10. CASE Reap(c)
    BY <1>10 DEF Reap
  <1>12. CASE PrintStarted(c)
    BY <1>12 DEF PrintStarted
  <1>11. CASE Deadline(c)
    BY <1>11 DEF Deadline
  <1>. QED
    BY <1>1, <1>2, <1>3, <1>4, <1>5, <1>6, <1>7, <1>8, <1>9, <1>10, <1>11, <1>12 DEF StartStep

\* No step brings back a server that is dead or was never launched.
LEMMA ServerProcessStep ==
  ASSUME LifecycleInv, NEW c \in Starts, Listen(c) \/ Die(c) \/ OnTerm(c) \/ Drained(c)
  PROVE  LifecycleInv'
  <1>1. /\ UNCHANGED <<cpc, late, told, pidFile, ousted, kpc, target>>
        /\ bound' \in {bound, bound \cup {c}}
        /\ child[c] \notin {"none", "dead"}
        /\ \E state \in {"listening", "draining", "dead"} :
             child' = [child EXCEPT ![c] = state] /\ (state = "listening" => c \in bound')
    BY DEF Listen, Die, OnTerm, Drained, Alone, Becomes, startVars, fileVars, stopVars
  <1>. QED
    BY <1>1 DEF LifecycleInv, TypeOK, NewHasNoServer, WrittenIsNamed, SignalsAServer, FailedStartLeavesNoServer,
      AnswersAreServers

LEMMA StopStep ==
  ASSUME LifecycleInv, NEW k \in Stops, ReadPid(k) \/ SignalPid(k) \/ RemovePid(k) \/ PrintStopped(k)
  PROVE  LifecycleInv'
  <1>. USE DEF LifecycleInv, TypeOK, NewHasNoServer, WrittenIsNamed, SignalsAServer, FailedStartLeavesNoServer,
               AnswersAreServers, Pids,
               startVars, childVars, fileVars, FileBecomes
  <1>1. CASE ReadPid(k)
    BY <1>1 DEF ReadPid
  <1>2. CASE SignalPid(k)
    BY <1>2 DEF SignalPid
  <1>3. CASE RemovePid(k)
    BY <1>3 DEF RemovePid
  <1>4. CASE PrintStopped(k)
    BY <1>4 DEF PrintStopped
  <1>. QED BY <1>1, <1>2, <1>3, <1>4

\* The invariant of the commands and their servers holds.
THEOREM LifecycleCorrect == Spec => []LifecycleInv
  <1>1. LifecycleInv /\ [Next]_vars => LifecycleInv'
    <2>. SUFFICES ASSUME LifecycleInv, [Next]_vars  PROVE LifecycleInv'
      OBVIOUS
    <2>1. CASE UNCHANGED vars
      BY <2>1
      DEF vars, startVars, childVars, fileVars, stopVars, LifecycleInv, TypeOK, NewHasNoServer,
          WrittenIsNamed, SignalsAServer, FailedStartLeavesNoServer, AnswersAreServers
    <2>. QED BY <2>1, CommandStep, ServerProcessStep, StopStep DEF Next
  <1>. QED BY LifecycleInit, <1>1, PTL DEF Spec

\* Any number of background starts, with any number of stops beside them: one
\* that reports a failure has taken its server with it, or the pid file names
\* the server until another command replaces or removes it.
THEOREM FailedStartTheorem == Spec => []FailedStartLeavesNoServer
  <1>1. LifecycleInv => FailedStartLeavesNoServer
    BY DEF LifecycleInv
  <1>. QED BY LifecycleCorrect, <1>1, PTL

\* And one that reports success has seen its own server listen, if nobody else's
\* got the port.
THEOREM StartedTheorem == Spec => []StartedServerListened
  <1>1. LifecycleInv => StartedServerListened
    BY DEF LifecycleInv, AnswersAreServers, StartedServerListened
  <1>. QED BY LifecycleCorrect, <1>1, PTL
=============================================================================
