----------------------------- MODULE HttpServer -----------------------------
(***************************************************************************)
(* The HTTP server around the ingest service: POST requests that carry     *)
(* events one after the other to the bus and to Service.Ingest, debug      *)
(* streams that follow the bus, and the graceful shutdown of runServer.    *)
(* The ingestion of one event is one step here; module Ingest opens it.    *)
(***************************************************************************)
EXTENDS DebugBus, FiniteSets

CONSTANT BatchSize      \* request -> the events it carries

VARIABLES rpc,          \* request -> "new", "item", "send", "ingest", or how it ended
          results,      \* request -> the events it has a result for
          spc,          \* stream -> "new", "streaming", "polling", "leaving" or "ended"
          got,          \* stream -> the lines written to its client
          joined,       \* stream -> the lines published before it subscribed
          broken,       \* the lines whose publication panicked
          server        \* "up", "signalled", "closed", "draining" or "down"
requestVars == <<rpc, results, broken>>
streamVars == <<spc, got, joined>>
vars == <<busVars, requestVars, streamVars, server>>

ASSUME BatchAssumption == BatchSize \in [Requests -> Nat \ {0}]

Ended == {"answered", "panicked"}

TypeOK ==
  /\ BusTypeOK
  /\ rpc \in [Requests -> {"new", "item", "send", "ingest"} \cup Ended]
  /\ results \in [Requests -> Nat] /\ \A r \in Requests : results[r] <= BatchSize[r]
  /\ spc \in [Streams -> {"new", "streaming", "polling", "leaving", "ended"}]
  /\ got \in [Streams -> Seq(Nat)]
  /\ joined \in [Streams -> 0..lines]
  /\ broken \subseteq 1..lines
  /\ server \in {"up", "signalled", "closed", "draining", "down"}

Init ==
  /\ BusInit
  /\ rpc = [r \in Requests |-> "new"] /\ results = [r \in Requests |-> 0]
  /\ broken = {}
  /\ spc = [s \in Streams |-> "new"] /\ got = [s \in Streams |-> <<>>]
  /\ joined = [s \in Streams |-> 0]
  /\ server = "up"

\* The listener takes new requests until Shutdown closes it.
Listening == server \in {"up", "signalled", "closed"}

\* Handlers go on until runServer has returned.
Running == server # "down"

----------------------------------------------------------------------------
(* POST /v1/events:batch; POST /v1/events is a batch of one.               *)

GoTo(r, place) == rpc' = [rpc EXCEPT ![r] = place]
AddResult(r) == results' = [results EXCEPT ![r] = @ + 1]

\* The body is a batch; one that is not is refused and leaves no trace.
Accept(r) ==
  /\ Listening /\ rpc[r] = "new"
  /\ GoTo(r, "item")
  /\ UNCHANGED <<busVars, results, broken, streamVars, server>>

\* The next event, unless it cannot be decoded, goes to the bus first.
Item(r) ==
  /\ Running /\ rpc[r] = "item" /\ results[r] < BatchSize[r]
  /\ \/ /\ AddResult(r)
        /\ UNCHANGED <<busVars, rpc>>
     \/ /\ closed
        /\ GoTo(r, "ingest")
        /\ UNCHANGED <<busVars, results>>
     \/ /\ ~closed
        /\ Publish(r)
        /\ GoTo(r, IF targets'[r] = {} THEN "ingest" ELSE "send")
        /\ UNCHANGED results
  /\ UNCHANGED <<broken, streamVars, server>>

\* The channels come in any order.  A panic ends the whole request: the
\* router's recovery answers 500.
Send(r) ==
  /\ Running /\ rpc[r] = "send"
  /\ \E s \in targets[r] :
       \/ /\ SendTo(r, s)
          /\ GoTo(r, IF targets'[r] = {} THEN "ingest" ELSE "send")
          /\ UNCHANGED broken
       \/ /\ SendPanics(r, s)
          /\ GoTo(r, "panicked")
          /\ broken' = broken \cup {line[r]}
  /\ UNCHANGED <<results, streamVars, server>>

\* Service.Ingest; its result or its error becomes the event's result.
IngestItem(r) ==
  /\ Running /\ rpc[r] = "ingest"
  /\ AddResult(r) /\ GoTo(r, "item")
  /\ UNCHANGED <<busVars, broken, streamVars, server>>

Respond(r) ==
  /\ Running /\ rpc[r] = "item" /\ results[r] = BatchSize[r]
  /\ GoTo(r, "answered")
  /\ UNCHANGED <<busVars, results, broken, streamVars, server>>

RequestStep(r) == Item(r) \/ Send(r) \/ IngestItem(r) \/ Respond(r)

----------------------------------------------------------------------------
(* GET /debug/stream and DELETE /debug/history.                            *)

Open(s) ==
  /\ Listening /\ spc[s] = "new"
  /\ spc' = [spc EXCEPT ![s] = "streaming"]
  /\ joined' = [joined EXCEPT ![s] = lines]
  /\ Subscribe(s)
  /\ UNCHANGED <<got, requestVars, server>>

Leave(s) == spc' = [spc EXCEPT ![s] = "leaving"]

Receive(s) ==
  /\ Running /\ spc[s] = "streaming"
  /\ \/ /\ queue[s] # <<>>
        /\ got' = [got EXCEPT ![s] = Append(@, Head(queue[s]))]
        /\ queue' = [queue EXCEPT ![s] = Tail(@)]
        /\ UNCHANGED spc
     \/ /\ queue[s] = <<>> /\ chan[s] = "closed"
        /\ Leave(s)
        /\ UNCHANGED <<got, queue>>
  /\ UNCHANGED <<mapVars, chan, overflowed, targets, line, requestVars, joined, server>>

\* 100 ms without a line; the stream then asks whether the bus is closed.
Timer(s) ==
  /\ Running /\ spc[s] = "streaming" /\ queue[s] = <<>> /\ chan[s] = "open"
  /\ spc' = [spc EXCEPT ![s] = "polling"]
  /\ UNCHANGED <<busVars, requestVars, got, joined, server>>

Poll(s) ==
  /\ Running /\ spc[s] = "polling"
  /\ spc' = [spc EXCEPT ![s] = IF closed THEN "leaving" ELSE "streaming"]
  /\ UNCHANGED <<busVars, requestVars, got, joined, server>>

Disconnect(s) ==
  /\ Running /\ spc[s] = "streaming"
  /\ Leave(s)
  /\ UNCHANGED <<busVars, requestVars, got, joined, server>>

\* What was observed of the stream is forgotten with it.
Finish(s) ==
  /\ Running /\ spc[s] = "leaving"
  /\ spc' = [spc EXCEPT ![s] = "ended"]
  /\ got' = [got EXCEPT ![s] = <<>>] /\ joined' = [joined EXCEPT ![s] = 0]
  /\ Unsubscribe(s)
  /\ UNCHANGED <<requestVars, server>>

StreamStep(s) == Receive(s) \/ Poll(s) \/ Finish(s)

DebugClearHistory ==
  /\ Listening
  /\ ClearHistory
  /\ UNCHANGED <<requestVars, streamVars, server>>

----------------------------------------------------------------------------
(* runServer, from the signal on.                                          *)

Become(state) == server' = state /\ UNCHANGED <<requestVars, streamVars>>

Signal == server = "up" /\ Become("signalled") /\ UNCHANGED busVars

CloseBus == server = "signalled" /\ Become("closed") /\ Close

Shutdown == server = "closed" /\ Become("draining") /\ UNCHANGED busVars

Idle == /\ \A s \in Streams : spc[s] \in {"new", "ended"}
        /\ \A r \in Requests : rpc[r] \in {"new"} \cup Ended

Drained == server = "draining" /\ Idle /\ Become("down") /\ UNCHANGED busVars

\* Shutdown's five seconds are over; runServer returns with requests at work.
Deadline == server = "draining" /\ ~Idle /\ Become("down") /\ UNCHANGED busVars

\* The listener breaks: runServer returns at once.
ServeFails == server = "up" /\ Become("down") /\ UNCHANGED busVars

ServerStep == CloseBus \/ Shutdown \/ Drained

Next ==
  \/ \E r \in Requests : Accept(r) \/ RequestStep(r)
  \/ \E s \in Streams : Open(s) \/ StreamStep(s) \/ Timer(s) \/ Disconnect(s)
  \/ DebugClearHistory \/ Signal \/ ServerStep \/ Deadline \/ ServeFails

Spec == Init /\ [][Next]_vars

\* Fairness: handlers and runServer go on; a stream's client takes what it is
\* sent.  Nothing makes a client leave or the deadline pass.
FairSpec ==
  /\ Spec
  /\ \A r \in Requests : WF_vars(RequestStep(r))
  /\ \A s \in Streams : WF_vars(StreamStep(s))
  /\ WF_vars(ServerStep)

----------------------------------------------------------------------------
Sent(s) == got[s] \o queue[s]
Times(s, l) == Cardinality({i \in DOMAIN Sent(s) : Sent(s)[i] = l})
OnItsWay(s, l) == \E r \in Requests : line[r] = l /\ s \in targets[r]

\* A registered stream has been sent, or is about to be sent, every line
\* published since it subscribed exactly once, and no older line twice:
\* history and publishers neither overlap nor leave a gap.  Only a full
\* channel or the panic of the line's publisher excuses a loss.
ExactlyOnce ==
  \A s \in subscribers, l \in 1..lines :
    /\ Times(s, l) + (IF OnItsWay(s, l) THEN 1 ELSE 0) <= 1
    /\ (l > joined[s] /\ s \notin overflowed /\ l \notin broken)
         => Times(s, l) = 1 \/ OnItsWay(s, l)

\* A server that is told to stop drains: requests and debug streams end by
\* themselves, without a client leaving and without the deadline.
ShutdownDrains == (server = "signalled") ~> (server = "down")

\* What POST /v1/events:batch promises: a batch that was accepted and has
\* ended has one result per event.
OneResultPerEvent ==
  \A r \in Requests : rpc[r] \in {"answered", "panicked"} => results[r] = BatchSize[r]
=============================================================================
