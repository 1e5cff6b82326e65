------------------------------ MODULE DebugBus ------------------------------
(***************************************************************************)
(* The debug event bus of internal/debugstream.  What a method does under  *)
(* its mutex is one step; the sends of Publish come after it, one channel  *)
(* at a time.  A line is the number of its publication; a stream stands    *)
(* for the channel it subscribed with.                                     *)
(***************************************************************************)
EXTENDS Naturals, Sequences

CONSTANTS Streams, Requests,
          QueueSize, HistorySize   \* a channel's buffer, the lines kept

VARIABLES history,      \* the last lines published
          subscribers,  \* the streams in the bus's map
          closed,
          chan,         \* stream -> its channel: "none", "open" or "closed"
          queue,        \* stream -> the lines in its channel
          overflowed,   \* the streams that had a line dropped
          targets,      \* request -> the channels its line goes to yet
          line,         \* request -> the line it last published
          lines         \* the number of lines published
mapVars == <<history, subscribers, closed, lines>>
sendVars == <<queue, overflowed, targets>>
busVars == <<mapVars, sendVars, chan, line>>

\* NewBus gives both the same size, so a new channel takes all the history.
ASSUME BusAssumption ==
  /\ QueueSize \in Nat \ {0} /\ HistorySize \in Nat \ {0}
  /\ HistorySize <= QueueSize

BusTypeOK ==
  /\ history \in Seq(Nat) /\ Len(history) <= HistorySize
  /\ subscribers \subseteq Streams /\ overflowed \subseteq Streams
  /\ closed \in BOOLEAN
  /\ chan \in [Streams -> {"none", "open", "closed"}]
  /\ queue \in [Streams -> Seq(Nat)] /\ \A s \in Streams : Len(queue[s]) <= QueueSize
  /\ targets \in [Requests -> SUBSET Streams]
  /\ line \in [Requests -> 0..lines]
  /\ lines \in Nat

BusInit ==
  /\ history = <<>> /\ subscribers = {} /\ overflowed = {} /\ closed = FALSE
  /\ chan = [s \in Streams |-> "none"] /\ queue = [s \in Streams |-> <<>>]
  /\ targets = [r \in Requests |-> {}] /\ line = [r \in Requests |-> 0]
  /\ lines = 0

\* The history goes into the channel before it is registered.
Subscribe(s) ==
  \/ /\ closed
     /\ chan' = [chan EXCEPT ![s] = "closed"]
     /\ UNCHANGED <<mapVars, sendVars, line>>
  \/ /\ ~closed
     /\ chan' = [chan EXCEPT ![s] = "open"]
     /\ queue' = [queue EXCEPT ![s] = history]
     /\ subscribers' = subscribers \cup {s}
     /\ UNCHANGED <<history, closed, lines, overflowed, targets, line>>

\* Only a channel that is still in the map is closed.  Nobody reads it again.
Unsubscribe(s) ==
  /\ subscribers' = subscribers \ {s}
  /\ chan' = [chan EXCEPT ![s] = IF s \in subscribers THEN "closed" ELSE @]
  /\ queue' = [queue EXCEPT ![s] = <<>>] /\ overflowed' = overflowed \ {s}
  /\ UNCHANGED <<history, closed, lines, targets, line>>

\* A slip: the history is not cut.
AllOf(s, n) == s

LastOf(s, n) == SubSeq(s, IF Len(s) > n THEN Len(s) - n + 1 ELSE 1, Len(s))

\* A slip: full channels are passed over already under the mutex.
WithRoom == {s \in subscribers : Len(queue[s]) < QueueSize}

Receivers == subscribers

\* Publish under the mutex, on a bus that is not closed.
Publish(r) ==
  /\ lines' = lines + 1
  /\ history' = LastOf(Append(history, lines'), HistorySize)
  /\ line' = [line EXCEPT ![r] = lines']
  /\ targets' = [targets EXCEPT ![r] = Receivers]
  /\ UNCHANGED <<subscribers, closed, chan, queue, overflowed>>

\* One send of Publish, dropped when the channel is full.
SendTo(r, s) ==
  /\ chan[s] = "open"
  /\ targets' = [targets EXCEPT ![r] = @ \ {s}]
  /\ \/ /\ Len(queue[s]) < QueueSize
        /\ queue' = [queue EXCEPT ![s] = Append(@, line[r])]
        /\ UNCHANGED overflowed
     \/ /\ Len(queue[s]) >= QueueSize
        /\ overflowed' = overflowed \cup {s}
        /\ UNCHANGED queue
  /\ UNCHANGED <<mapVars, chan, line>>

\* A send on a channel that was closed since the mutex was left: Publish
\* panics, and the other channels get nothing.
SendPanics(r, s) ==
  /\ chan[s] = "closed"
  /\ targets' = [targets EXCEPT ![r] = {}]
  /\ UNCHANGED <<mapVars, queue, overflowed, chan, line>>

ClearHistory ==
  /\ history' = <<>>
  /\ UNCHANGED <<subscribers, closed, lines, sendVars, chan, line>>

\* A slip: nothing is closed.
LeaveOpen == UNCHANGED busVars

\* A slip: the map keeps the channels that were closed.
KeepMap ==
  /\ closed' = TRUE
  /\ chan' = [s \in Streams |-> IF s \in subscribers THEN "closed" ELSE chan[s]]
  /\ UNCHANGED <<history, subscribers, lines, sendVars, line>>

Close ==
  /\ closed' = TRUE /\ subscribers' = {}
  /\ chan' = [s \in Streams |-> IF s \in subscribers THEN "closed" ELSE chan[s]]
  /\ UNCHANGED <<history, lines, sendVars, line>>

----------------------------------------------------------------------------
\* The channels in the bus's map are those that are open, so neither
\* Unsubscribe nor Close ever closes one twice, in whatever order they come.
RegisteredIsOpen == \A s \in Streams : s \in subscribers <=> chan[s] = "open"
=============================================================================
