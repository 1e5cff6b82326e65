-------------------------- MODULE HttpServerProofs --------------------------
(* The channels of the debug bus, for any streams, requests and batches.    *)
EXTENDS HttpServer, TLAPS, SequenceTheorems, FiniteSetTheorems

ChannelTypes ==
  /\ subscribers \subseteq Streams
  /\ chan \in [Streams -> {"none", "open", "closed"}]

\* A stream subscribes with a channel that was never used.
NewHasNoChannel == \A s \in Streams : spc[s] = "new" => chan[s] = "none"

ChannelInv ==
  ChannelTypes /\ spc \in [Streams -> {"new", "streaming", "polling", "leaving", "ended"}]
    /\ NewHasNoChannel /\ RegisteredIsOpen

\* What a step may do to the channels: nothing, open or close a new one,
\* deregister and close one, or close all.
LEMMA ChannelsUntouched ==
  ASSUME ChannelInv, UNCHANGED <<subscribers, chan>>,
         \/ UNCHANGED spc
         \/ \E s \in Streams, p \in {"streaming", "polling", "leaving"} :
              spc[s] # "new" /\ spc' = [spc EXCEPT ![s] = p]
  PROVE  ChannelInv'
  BY DEF ChannelInv, ChannelTypes, NewHasNoChannel, RegisteredIsOpen

LEMMA RequestChannels ==
  ASSUME NEW r \in Requests, Accept(r) \/ RequestStep(r)
  PROVE  UNCHANGED <<subscribers, chan, spc>>
  BY DEF Accept, RequestStep, Item, Send, IngestItem, Respond, Publish, SendTo, SendPanics,
         busVars, mapVars, sendVars, streamVars

LEMMA StreamChannels ==
  ASSUME ChannelInv, NEW s \in Streams,
         Open(s) \/ StreamStep(s) \/ Timer(s) \/ Disconnect(s)
  PROVE  ChannelInv'
  <1>1. CASE Open(s)
    BY <1>1
    DEF Open, Subscribe, ChannelInv, ChannelTypes, NewHasNoChannel, RegisteredIsOpen, mapVars
  <1>2. CASE Finish(s)
    BY <1>2 DEF Finish, Unsubscribe, ChannelInv, ChannelTypes, NewHasNoChannel, RegisteredIsOpen
  <1>3. CASE Receive(s) \/ Poll(s) \/ Timer(s) \/ Disconnect(s)
    <2>1. UNCHANGED <<subscribers, chan>>
      BY <1>3 DEF Receive, Poll, Timer, Disconnect, busVars, mapVars
    <2>2. \/ UNCHANGED spc
          \/ \E p \in {"streaming", "polling", "leaving"} :
               spc[s] # "new" /\ spc' = [spc EXCEPT ![s] = p]
      BY <1>3 DEF Receive, Poll, Timer, Disconnect, Leave
    <2>. QED BY <2>1, <2>2, ChannelsUntouched
  <1>. QED BY <1>1, <1>2, <1>3 DEF StreamStep

LEMMA ServerChannels ==
  ASSUME ChannelInv, DebugClearHistory \/ Signal \/ ServerStep \/ Deadline \/ ServeFails
  PROVE  ChannelInv'
  <1>1. CASE CloseBus
    BY <1>1
    DEF CloseBus, Become, Close, streamVars, ChannelInv, ChannelTypes, NewHasNoChannel,
        RegisteredIsOpen
  <1>2. CASE DebugClearHistory \/ Signal \/ Shutdown \/ Drained \/ Deadline \/ ServeFails
    <2>1. UNCHANGED <<subscribers, chan, spc>>
      BY <1>2
      DEF DebugClearHistory, ClearHistory, Signal, Shutdown, Drained, Deadline, ServeFails,
          Become, busVars, mapVars, streamVars
    <2>. QED BY <2>1, ChannelsUntouched
  <1>. QED BY <1>1, <1>2 DEF ServerStep

LEMMA ChannelsKept ==
  ASSUME ChannelInv, [Next]_vars
  PROVE  ChannelInv'
  <1>1. CASE UNCHANGED vars
    BY <1>1, ChannelsUntouched DEF vars, busVars, mapVars, streamVars
  <1>2. CASE \E r \in Requests : Accept(r) \/ RequestStep(r)
    BY <1>2, RequestChannels, ChannelsUntouched
  <1>. QED BY <1>1, <1>2, StreamChannels, ServerChannels DEF Next

\* For any number of streams and publishers, the channels registered with the
\* bus are the open ones, so that no channel is ever closed twice.
THEOREM RegisteredTheorem == Spec => []RegisteredIsOpen
  <1>1. Init => ChannelInv
    BY DEF Init, BusInit, ChannelInv, ChannelTypes, NewHasNoChannel, RegisteredIsOpen
  <1>2. ChannelInv /\ [Next]_vars => ChannelInv'
    BY ChannelsKept
  <1>3. ChannelInv => RegisteredIsOpen
    BY DEF ChannelInv
  <1>. QED BY <1>1, <1>2, <1>3, PTL DEF Spec
----------------------------------------------------------------------------
(* Types, and what a request has ahead of it.                                *)

\* A request that publishes or ingests has an event without a result; one that
\* sends has published.
Underway ==
  \A r \in Requests :
    /\ rpc[r] \in {"send", "ingest"} => results[r] < BatchSize[r]
    /\ rpc[r] = "send" => line[r] >= 1

TypeInv == TypeOK /\ Underway

LEMMA LastOfProperties ==
  ASSUME NEW S, NEW q \in Seq(S), NEW n \in Nat
  PROVE  /\ LastOf(q, n) \in Seq(S) /\ Len(LastOf(q, n)) <= n /\ Len(LastOf(q, n)) <= Len(q)
         /\ \A i \in 1..Len(LastOf(q, n)) :
              LastOf(q, n)[i] = q[i + (Len(q) - Len(LastOf(q, n)))]
  <1>. DEFINE m == IF Len(q) > n THEN Len(q) - n + 1 ELSE 1
  <1>1. /\ Len(q) \in Nat /\ m \in 1..(Len(q) + 1)
        /\ Len(q) - m + 1 <= n /\ Len(q) - m + 1 <= Len(q)
    OBVIOUS
  <1>2. LastOf(q, n) = SubSeq(q, m, Len(q))
    BY DEF LastOf
  <1>. HIDE DEF m
  <1>3. \A i \in m..Len(q) : q[i] \in S
    BY <1>1
  <1>4. m \in Int /\ Len(q) \in Int
    BY <1>1
  <1>5. /\ SubSeq(q, m, Len(q)) \in Seq(S)
        /\ Len(SubSeq(q, m, Len(q))) = IF m <= Len(q) THEN Len(q) - m + 1 ELSE 0
        /\ \A i \in 1..(Len(q) - m + 1) : SubSeq(q, m, Len(q))[i] = q[m + i - 1]
    BY <1>3, <1>4, SubSeqProperties
  <1>6. Len(SubSeq(q, m, Len(q))) = Len(q) - m + 1
    BY <1>1, <1>5
  <1>7. \A i \in 1..(Len(q) - m + 1) : m + i - 1 = i + (Len(q) - (Len(q) - m + 1))
    BY <1>1
  <1>. QED BY <1>1, <1>2, <1>5, <1>6, <1>7

LEMMA InitTypes == Init => TypeInv
  <1>. SUFFICES ASSUME Init PROVE TypeInv
    OBVIOUS
  <1>1. <<>> \in Seq(Nat) /\ Len(<<>>) = 0 /\ 0 \in 0..0
    OBVIOUS
  <1>2. BusTypeOK
    <2>1. history \in Seq(Nat) /\ Len(history) <= HistorySize
      BY <1>1, BusAssumption DEF Init, BusInit
    <2>2. queue \in [Streams -> Seq(Nat)] /\ \A s \in Streams : Len(queue[s]) <= QueueSize
      BY <1>1, BusAssumption DEF Init, BusInit
    <2>3. lines \in Nat /\ line \in [Requests -> 0..lines]
      BY <1>1 DEF Init, BusInit
    <2>. QED BY <2>1, <2>2, <2>3 DEF Init, BusInit, BusTypeOK
  <1>3. /\ results \in [Requests -> Nat] /\ \A r \in Requests : results[r] <= BatchSize[r]
        /\ joined \in [Streams -> 0..lines] /\ got \in [Streams -> Seq(Nat)]
    BY <1>1, BatchAssumption DEF Init, BusInit
  <1>. QED BY <1>2, <1>3 DEF Init, TypeInv, TypeOK, Underway

LEMMA RequestTypes ==
  ASSUME TypeInv, NEW r \in Requests, Accept(r) \/ RequestStep(r)
  PROVE  TypeInv'
  <1>. USE BatchAssumption, BusAssumption
       DEF TypeInv, TypeOK, BusTypeOK, Underway, Ended, GoTo, AddResult
  <1>1. CASE Accept(r) \/ Respond(r)
    BY <1>1 DEF Accept, Respond, busVars, mapVars, sendVars, streamVars
  <1>2. CASE IngestItem(r)
    BY <1>2 DEF IngestItem, busVars, mapVars, sendVars, streamVars
  <1>3. CASE Item(r)
    <2>0. rpc[r] = "item" /\ results[r] < BatchSize[r] /\ UNCHANGED <<broken, streamVars, server>>
      BY <1>3 DEF Item
    <2>1. CASE /\ UNCHANGED busVars
               /\ (AddResult(r) /\ UNCHANGED rpc) \/ (GoTo(r, "ingest") /\ UNCHANGED results)
      <3>1. BusTypeOK'
        BY <2>1 DEF busVars, mapVars, sendVars
      <3>2. /\ results' \in [Requests -> Nat] /\ \A q \in Requests : results'[q] <= BatchSize[q]
            /\ Underway' /\ rpc' \in [Requests -> {"new", "item", "send", "ingest"} \cup Ended]
        <4>1. results' \in [Requests -> Nat] /\ \A q \in Requests : results'[q] <= BatchSize[q]
          <5>1. results[r] \in Nat /\ BatchSize[r] \in Nat /\ results[r] + 1 <= BatchSize[r]
            BY <2>0
          <5>2. CASE results' = [results EXCEPT ![r] = results[r] + 1]
            BY <5>1, <5>2
          <5>3. CASE results' = results
            BY <5>3
          <5>. QED BY <2>1, <5>2, <5>3
        <4>. QED BY <2>0, <2>1, <4>1 DEF busVars
      <3>. QED BY <2>0, <2>1, <3>1, <3>2 DEF busVars, mapVars, streamVars
    <2>2. CASE Publish(r) /\ GoTo(r, IF targets'[r] = {} THEN "ingest" ELSE "send") /\ UNCHANGED results
      <3>1. lines' = lines + 1 /\ lines' \in Nat
        BY <2>2 DEF Publish
      <3>2. Append(history, lines') \in Seq(Nat) /\ HistorySize \in Nat
        BY <3>1, AppendProperties
      <3>3. history' \in Seq(Nat) /\ Len(history') <= HistorySize
        BY <2>2, <3>2, LastOfProperties DEF Publish
      <3>4. line' \in [Requests -> 0..lines'] /\ line'[r] >= 1
        BY <2>2, <3>1 DEF Publish
      <3>5. BusTypeOK'
        BY <2>2, <3>1, <3>3, <3>4 DEF Publish, Receivers
      <3>6. Underway' /\ rpc' \in [Requests -> {"new", "item", "send", "ingest"} \cup Ended]
        BY <1>3, <2>2, <3>4 DEF Item, Publish
      <3>7. joined' \in [Streams -> 0..lines'] /\ broken' \subseteq 1..lines'
        BY <1>3, <3>1 DEF Item, streamVars
      <3>. QED BY <1>3, <2>2, <3>5, <3>6, <3>7 DEF Item, streamVars
    <2>. QED BY <1>3, <2>1, <2>2 DEF Item
  <1>4. CASE Send(r)
    <2>1. PICK s \in targets[r] :
            \/ /\ SendTo(r, s)
               /\ GoTo(r, IF targets'[r] = {} THEN "ingest" ELSE "send")
               /\ UNCHANGED broken
            \/ /\ SendPanics(r, s)
               /\ GoTo(r, "panicked")
               /\ broken' = broken \cup {line[r]}
      BY <1>4 DEF Send
    <2>2. s \in Streams /\ line[r] \in 1..lines
      BY <1>4 DEF Send
    <2>3. CASE SendTo(r, s)
      <3>1. queue' \in [Streams -> Seq(Nat)] /\ \A t \in Streams : Len(queue'[t]) <= QueueSize
        <4>1. CASE UNCHANGED queue
          BY <4>1
        <4>2. CASE Len(queue[s]) < QueueSize /\ queue' = [queue EXCEPT ![s] = Append(@, line[r])]
          <5>1. Append(queue[s], line[r]) \in Seq(Nat)
                /\ Len(Append(queue[s], line[r])) = Len(queue[s]) + 1
            BY <2>2, AppendProperties
          <5>. QED BY <2>2, <4>2, <5>1
        <4>. QED BY <2>3, <4>1, <4>2 DEF SendTo
      <3>. QED BY <1>4, <2>1, <2>2, <2>3, <3>1 DEF Send, SendTo, SendPanics, mapVars, streamVars
    <2>4. CASE SendPanics(r, s)
      BY <1>4, <2>1, <2>2, <2>4 DEF Send, SendTo, SendPanics, mapVars, streamVars
    <2>. QED BY <2>1, <2>3, <2>4
  <1>. QED BY <1>1, <1>2, <1>3, <1>4 DEF RequestStep

LEMMA StreamTypes ==
  ASSUME TypeInv, NEW s \in Streams, Open(s) \/ StreamStep(s) \/ Timer(s) \/ Disconnect(s)
  PROVE  TypeInv'
  <1>. USE BatchAssumption, BusAssumption DEF TypeInv, TypeOK, BusTypeOK, Underway, Leave
  <1>1. CASE Open(s)
    <2>1. joined' \in [Streams -> 0..lines]
      BY <1>1 DEF Open
    <2>2. queue' \in [Streams -> Seq(Nat)] /\ \A t \in Streams : Len(queue'[t]) <= QueueSize
      <3>1. Len(history) \in Nat /\ Len(history) <= QueueSize
        OBVIOUS
      <3>2. queue' = queue \/ queue' = [queue EXCEPT ![s] = history]
        BY <1>1 DEF Open, Subscribe, sendVars
      <3>. QED BY <3>1, <3>2
    <2>. QED BY <1>1, <2>1, <2>2 DEF Open, Subscribe, mapVars, sendVars, requestVars
  <1>2. CASE Receive(s)
    <2>1. /\ got' \in [Streams -> Seq(Nat)] /\ queue' \in [Streams -> Seq(Nat)]
          /\ \A t \in Streams : Len(queue'[t]) <= QueueSize
      <3>1. CASE queue[s] # <<>> /\ got' = [got EXCEPT ![s] = Append(@, Head(queue[s]))]
                 /\ queue' = [queue EXCEPT ![s] = Tail(@)]
        <4>1. /\ Head(queue[s]) \in Nat /\ Tail(queue[s]) \in Seq(Nat)
              /\ Len(Tail(queue[s])) = Len(queue[s]) - 1
          BY <3>1, HeadTailProperties
        <4>. QED BY <3>1, <4>1
      <3>2. CASE UNCHANGED <<got, queue>>
        BY <3>2
      <3>. QED BY <1>2, <3>1, <3>2 DEF Receive
    <2>. QED BY <1>2, <2>1 DEF Receive, mapVars, requestVars
  <1>3. CASE Poll(s) \/ Timer(s) \/ Disconnect(s)
    BY <1>3 DEF Poll, Timer, Disconnect, busVars, mapVars, sendVars, requestVars
  <1>4. CASE Finish(s)
    BY <1>4 DEF Finish, Unsubscribe, requestVars
  <1>. QED BY <1>1, <1>2, <1>3, <1>4 DEF StreamStep

LEMMA ServerTypes ==
  ASSUME TypeInv, DebugClearHistory \/ Signal \/ ServerStep \/ Deadline \/ ServeFails
  PROVE  TypeInv'
  <1>. USE DEF TypeInv, TypeOK, BusTypeOK, Underway, requestVars, streamVars
  <1>1. CASE DebugClearHistory
    <2>1. history' \in Seq(Nat) /\ Len(history') <= HistorySize
      BY <1>1, BusAssumption DEF DebugClearHistory, ClearHistory
    <2>. QED BY <1>1, <2>1 DEF DebugClearHistory, ClearHistory, sendVars
  <1>2. CASE CloseBus
    BY <1>2 DEF CloseBus, Close, Become, sendVars
  <1>3. CASE Signal \/ Shutdown \/ Drained \/ Deadline \/ ServeFails
    BY <1>3 DEF Signal, Shutdown, Drained, Deadline, ServeFails, Become, busVars, mapVars, sendVars
  <1>. QED BY <1>1, <1>2, <1>3 DEF ServerStep

LEMMA TypesKept ==
  ASSUME TypeInv, [Next]_vars
  PROVE  TypeInv'
  <1>1. CASE UNCHANGED vars
    BY <1>1 DEF TypeInv, TypeOK, BusTypeOK, Underway, vars, busVars, mapVars, sendVars,
                requestVars, streamVars
  <1>. QED BY <1>1, RequestTypes, StreamTypes, ServerTypes DEF Next

\* Every variable keeps to its type: no channel holds more lines than its buffer
\* and the history no more than its size, however many publish and subscribe,
\* and no request has more results than events.
THEOREM HttpServerTypes == Spec => []TypeOK
  <1>1. TypeInv /\ [Next]_vars => TypeInv'
    BY TypesKept
  <1>2. TypeInv => TypeOK
    BY DEF TypeInv
  <1>. QED BY InitTypes, <1>1, <1>2, PTL DEF Spec
----------------------------------------------------------------------------
(* What a stream has been sent.                                              *)

Within(q, l) == \E i \in 1..Len(q) : q[i] = l
Distinct(q) == \A i, j \in 1..Len(q) : q[i] = q[j] => i = j

LEMMA AppendOnce ==
  ASSUME NEW q \in Seq(Nat), NEW x \in Nat, Distinct(q), ~Within(q, x)
  PROVE  /\ Distinct(Append(q, x))
         /\ \A l : Within(Append(q, x), l) <=> Within(q, l) \/ l = x
  <1>1. /\ Len(q) \in Nat /\ Len(Append(q, x)) = Len(q) + 1
        /\ \A i \in 1..Len(q) : Append(q, x)[i] = q[i]
        /\ Append(q, x)[Len(q) + 1] = x
    BY AppendProperties
  <1>2. 1..(Len(q) + 1) = 1..Len(q) \cup {Len(q) + 1}
    BY <1>1
  <1>3. Distinct(Append(q, x))
    BY <1>1, <1>2 DEF Distinct, Within
  <1>4. \A l : Within(Append(q, x), l) <=> Within(q, l) \/ l = x
    BY <1>1, <1>2 DEF Within
  <1>. QED BY <1>3, <1>4

LEMMA LastOnce ==
  ASSUME NEW q \in Seq(Nat), NEW n \in Nat, Distinct(q)
  PROVE  Distinct(LastOf(q, n)) /\ \A l : Within(LastOf(q, n), l) => Within(q, l)
  <1>. DEFINE k == Len(q) - Len(LastOf(q, n))
  <1>1. /\ Len(q) \in Nat /\ Len(LastOf(q, n)) \in Nat /\ k \in Nat
        /\ \A i \in 1..Len(LastOf(q, n)) : LastOf(q, n)[i] = q[i + k] /\ i + k \in 1..Len(q)
    BY LastOfProperties
  <1>. HIDE DEF k
  <1>2. ASSUME NEW i \in 1..Len(LastOf(q, n)), NEW j \in 1..Len(LastOf(q, n)),
               LastOf(q, n)[i] = LastOf(q, n)[j]
        PROVE  i = j
    <2>1. q[i + k] = q[j + k] /\ i + k \in 1..Len(q) /\ j + k \in 1..Len(q)
      BY <1>1, <1>2
    <2>2. i + k = j + k
      BY <2>1 DEF Distinct
    <2>. QED BY <1>1, <2>2
  <1>3. \A l : Within(LastOf(q, n), l) => Within(q, l)
    BY <1>1 DEF Within
  <1>. QED BY <1>2, <1>3 DEF Distinct

LEMMA ConcatAppend ==
  ASSUME NEW g \in Seq(Nat), NEW q \in Seq(Nat), NEW x \in Nat
  PROVE  g \o Append(q, x) = Append(g \o q, x)
  <1>1. g \o q \in Seq(Nat) /\ <<x>> \in Seq(Nat)
    BY ConcatProperties
  <1>2. (g \o q) \o <<x>> = g \o (q \o <<x>>)
    BY <1>1, ConcatAssociative
  <1>. QED BY <1>1, <1>2, AppendIsConcat

LEMMA TakeOne ==
  ASSUME NEW g \in Seq(Nat), NEW q \in Seq(Nat), q # <<>>
  PROVE  Append(g, Head(q)) \o Tail(q) = g \o q
  <1>1. /\ Head(q) \in Nat /\ Tail(q) \in Seq(Nat) /\ <<Head(q)>> \in Seq(Nat)
        /\ Len(Tail(q)) = Len(q) - 1 /\ \A i \in 1..Len(Tail(q)) : Tail(q)[i] = q[i + 1]
    BY HeadTailProperties
  <1>2. <<Head(q)>> \o Tail(q) = q
    <2>1. /\ <<Head(q)>> \o Tail(q) \in Seq(Nat)
          /\ Len(<<Head(q)>> \o Tail(q)) = 1 + Len(Tail(q))
          /\ \A i \in 1..(1 + Len(Tail(q))) : (<<Head(q)>> \o Tail(q))[i] =
               IF i <= 1 THEN <<Head(q)>>[i] ELSE Tail(q)[i - 1]
      BY <1>1, ConcatProperties, Len(<<Head(q)>>) = 1
    <2>2. Len(q) \in Nat /\ Len(q) = 1 + Len(Tail(q)) /\ Head(q) = q[1]
      BY <1>1
    <2>3. \A i \in 1..Len(q) : (<<Head(q)>> \o Tail(q))[i] = q[i]
      <3>. TAKE i \in 1..Len(q)
      <3>1. CASE i = 1
        BY <2>1, <2>2, <3>1
      <3>2. CASE i # 1
        <4>1. i - 1 \in 1..Len(Tail(q)) /\ ~(i <= 1)
          BY <2>2, <3>2
        <4>. QED BY <1>1, <2>1, <2>2, <4>1
      <3>. QED BY <3>1, <3>2
    <2>. QED BY <2>1, <2>2, <2>3, SeqEqual
  <1>3. (g \o <<Head(q)>>) \o Tail(q) = g \o (<<Head(q)>> \o Tail(q))
    BY <1>1, ConcatAssociative
  <1>. QED BY <1>1, <1>2, <1>3, AppendIsConcat

\* A line that is among distinct ones is there once.
LEMMA TimesOnce ==
  ASSUME NEW s, Sent(s) \in Seq(Nat), Distinct(Sent(s)), NEW l
  PROVE  Times(s, l) = IF Within(Sent(s), l) THEN 1 ELSE 0
  <1>. DEFINE I == {i \in DOMAIN Sent(s) : Sent(s)[i] = l}
  <1>1. DOMAIN Sent(s) = 1..Len(Sent(s))
    OBVIOUS
  <1>2. CASE Within(Sent(s), l)
    <2>1. PICK i \in 1..Len(Sent(s)) : Sent(s)[i] = l
      BY <1>2 DEF Within
    <2>2. I = {i}
      BY <1>1, <2>1 DEF Distinct
    <2>3. Cardinality({i}) = 1
      BY FS_Singleton
    <2>. QED BY <1>2, <2>2, <2>3 DEF Times
  <1>3. CASE ~Within(Sent(s), l)
    <2>1. I = {}
      BY <1>1, <1>3 DEF Within
    <2>. QED BY <1>3, <2>1, FS_EmptySet DEF Times
  <1>. QED BY <1>2, <1>3

\* The history holds lines that were published, each once.
HistoryInv == Distinct(history) /\ \A l : Within(history, l) => l \in 1..lines

\* Only a request that sends has channels ahead, those of streams that have
\* subscribed, and no two requests send the same line.
SenderInv ==
  /\ \A r \in Requests : targets[r] # {} => rpc[r] = "send"
  /\ \A r \in Requests : \A s \in targets[r] : spc[s] # "new"
  /\ \A r, q \in Requests : line[r] = line[q] /\ line[r] # 0 => r = q

Excused(s, l) == s \in overflowed \/ l \in broken

\* A stream was sent lines that were published, each once, none of those that
\* are still to be sent to it, and all others since it subscribed.
StreamInv(s) ==
  /\ Distinct(Sent(s)) /\ \A l : Within(Sent(s), l) => l \in 1..lines
  /\ \A r \in Requests : s \in targets[r] => ~Within(Sent(s), line[r])
  /\ \A l \in 1..lines : l > joined[s] /\ ~Excused(s, l) => Within(Sent(s), l) \/ OnItsWay(s, l)

OnceInv ==
  /\ TypeInv /\ ChannelInv /\ HistoryInv /\ SenderInv
  /\ \A s \in Streams : spc[s] = "new" => got[s] = <<>>
  /\ \A s \in subscribers : StreamInv(s)

LEMMA OnceImpliesExactly == ASSUME OnceInv PROVE ExactlyOnce
  <1>. SUFFICES ASSUME NEW s \in subscribers, NEW l \in 1..lines
                PROVE  /\ Times(s, l) + (IF OnItsWay(s, l) THEN 1 ELSE 0) <= 1
                       /\ (l > joined[s] /\ s \notin overflowed /\ l \notin broken)
                            => Times(s, l) = 1 \/ OnItsWay(s, l)
    BY DEF ExactlyOnce
  <1>1. StreamInv(s) /\ Sent(s) \in Seq(Nat)
    BY ConcatProperties DEF OnceInv, TypeInv, TypeOK, BusTypeOK, Sent
  <1>2. Times(s, l) = IF Within(Sent(s), l) THEN 1 ELSE 0
    BY <1>1, TimesOnce DEF StreamInv
  <1>3. OnItsWay(s, l) => ~Within(Sent(s), l)
    BY <1>1 DEF StreamInv, OnItsWay
  <1>4. l > joined[s] /\ ~Excused(s, l) => Within(Sent(s), l) \/ OnItsWay(s, l)
    BY <1>1 DEF StreamInv
  <1>. QED BY <1>2, <1>3, <1>4 DEF Excused

\* A stream to which nothing is sent, and whose lines nobody else's step loses.
LEMMA StreamKept ==
  ASSUME NEW s, StreamInv(s), Sent(s)' = Sent(s), lines' = lines, joined'[s] = joined[s],
         \A r \in Requests : line'[r] = line[r] /\ (s \in targets'[r] => s \in targets[r]),
         \A l : Excused(s, l) => Excused(s, l)',
         \A l : OnItsWay(s, l) => OnItsWay(s, l)' \/ Excused(s, l)'
  PROVE  StreamInv(s)'
  BY DEF StreamInv

LEMMA InitOnce == Init => OnceInv
  <1>. SUFFICES ASSUME Init PROVE OnceInv
    OBVIOUS
  <1>1. TypeInv /\ ChannelInv
    BY InitTypes DEF Init, BusInit, ChannelInv, ChannelTypes, NewHasNoChannel, RegisteredIsOpen
  <1>2. HistoryInv
    BY DEF Init, BusInit, HistoryInv, Distinct, Within
  <1>. QED BY <1>1, <1>2 DEF Init, BusInit, OnceInv, SenderInv

\* What OnceInv says beyond types and channels.
SentInv ==
  /\ HistoryInv /\ SenderInv
  /\ \A s \in Streams : spc[s] = "new" => got[s] = <<>>
  /\ \A s \in subscribers : StreamInv(s)

LEMMA RegisteredTypes ==
  ASSUME OnceInv, NEW s \in subscribers
  PROVE  /\ s \in Streams /\ spc[s] # "new" /\ got[s] \in Seq(Nat) /\ queue[s] \in Seq(Nat)
         /\ Sent(s) \in Seq(Nat) /\ joined[s] \in 0..lines
  BY ConcatProperties
  DEF OnceInv, TypeInv, TypeOK, BusTypeOK, ChannelInv, ChannelTypes, NewHasNoChannel,
      RegisteredIsOpen, Sent

LEMMA PublishKeeps ==
  ASSUME OnceInv, NEW r \in Requests, rpc[r] = "item", Publish(r),
         rpc' = [rpc EXCEPT ![r] = IF targets'[r] = {} THEN "ingest" ELSE "send"],
         UNCHANGED <<broken, streamVars>>
  PROVE  SentInv'
  <1>1. /\ lines \in Nat /\ lines' = lines + 1 /\ history \in Seq(Nat) /\ HistorySize \in Nat
        /\ targets[r] = {} /\ line \in [Requests -> 0..lines] /\ targets \in [Requests -> SUBSET Streams]
        /\ rpc \in [Requests -> {"new", "item", "send", "ingest"} \cup Ended]
    BY BusAssumption DEF OnceInv, TypeInv, TypeOK, BusTypeOK, SenderInv, Publish
  <1>2. /\ history' = LastOf(Append(history, lines'), HistorySize)
        /\ line' = [line EXCEPT ![r] = lines'] /\ targets' = [targets EXCEPT ![r] = subscribers]
        /\ UNCHANGED <<subscribers, overflowed, broken, got, queue, joined, spc>>
    BY DEF Publish, Receivers, streamVars
  <1>3. HistoryInv'
    <2>1. ~Within(history, lines')
      BY <1>1 DEF OnceInv, HistoryInv
    <2>2. /\ Distinct(Append(history, lines')) /\ Append(history, lines') \in Seq(Nat)
          /\ \A l : Within(Append(history, lines'), l) <=> Within(history, l) \/ l = lines'
      BY <1>1, <2>1, AppendOnce, AppendProperties DEF OnceInv, HistoryInv
    <2>3. Distinct(history') /\ \A l : Within(history', l) => Within(history, l) \/ l = lines'
      BY <1>1, <1>2, <2>2, LastOnce
    <2>4. \A l \in 1..lines : l \in 1..lines'
      BY <1>1
    <2>5. lines' \in 1..lines'
      BY <1>1
    <2>. QED BY <2>3, <2>4, <2>5 DEF OnceInv, HistoryInv
  <1>4. SenderInv'
    <2>1. \A q \in Requests : targets'[q] # {} => rpc'[q] = "send"
      BY <1>1, <1>2 DEF OnceInv, SenderInv
    <2>2. \A q \in Requests : \A s \in targets'[q] : spc'[s] # "new"
      BY <1>1, <1>2, RegisteredTypes DEF OnceInv, SenderInv
    <2>3. \A p, q \in Requests : line'[p] = line'[q] /\ line'[p] # 0 => p = q
      <3>1. \A q \in Requests \ {r} : line'[q] = line[q] /\ line[q] # lines'
        BY <1>1, <1>2
      <3>2. line'[r] = lines'
        BY <1>1, <1>2
      <3>. QED BY <3>1, <3>2 DEF OnceInv, SenderInv
    <2>. QED BY <2>1, <2>2, <2>3 DEF SenderInv
  <1>5. ASSUME NEW s \in subscribers  PROVE StreamInv(s)'
    <2>1. StreamInv(s) /\ Sent(s)' = Sent(s) /\ joined' = joined
      BY <1>2 DEF OnceInv, Sent
    <2>2. \A l : Within(Sent(s), l) => l \in 1..lines' /\ l # lines'
      BY <1>1, <2>1 DEF StreamInv
    <2>3. \A q \in Requests : s \in targets'[q] => ~Within(Sent(s), line'[q])
      BY <1>1, <1>2, <2>1, <2>2 DEF StreamInv
    <2>4. \A l : l = lines' => OnItsWay(s, l)'
      BY <1>1, <1>2 DEF OnItsWay
    <2>5. \A l : OnItsWay(s, l) => OnItsWay(s, l)'
      BY <1>1, <1>2 DEF OnItsWay
    <2>6. \A l \in 1..lines' : l \in 1..lines \/ l = lines'
      BY <1>1
    <2>7. \A l : Excused(s, l)' <=> Excused(s, l)
      BY <1>2 DEF Excused
    <2>8. \A l \in 1..lines' : l > joined[s] /\ ~Excused(s, l)' => Within(Sent(s), l) \/ OnItsWay(s, l)'
      BY <2>1, <2>4, <2>5, <2>6, <2>7 DEF StreamInv
    <2>. QED BY <2>1, <2>2, <2>3, <2>8 DEF StreamInv
  <1>. QED BY <1>2, <1>3, <1>4, <1>5 DEF SentInv, OnceInv

LEMMA SendKeeps ==
  ASSUME OnceInv, NEW r \in Requests, NEW s \in targets[r], rpc[r] = "send", SendTo(r, s),
         rpc' = [rpc EXCEPT ![r] = IF targets'[r] = {} THEN "ingest" ELSE "send"],
         UNCHANGED <<broken, streamVars>>
  PROVE  SentInv'
  <1>1. /\ s \in subscribers /\ line[r] \in 1..lines
        /\ targets \in [Requests -> SUBSET Streams] /\ queue \in [Streams -> Seq(Nat)]
        /\ line \in [Requests -> 0..lines] /\ lines \in Nat
        /\ rpc \in [Requests -> {"new", "item", "send", "ingest"} \cup Ended]
    BY DEF OnceInv, TypeInv, TypeOK, BusTypeOK, Underway, ChannelInv, RegisteredIsOpen, SendTo
  <1>2. /\ targets' = [targets EXCEPT ![r] = @ \ {s}]
        /\ UNCHANGED <<history, subscribers, lines, line, broken, got, joined, spc>>
    BY DEF SendTo, mapVars, streamVars
  <1>3. HistoryInv'
    BY <1>2 DEF OnceInv, HistoryInv
  <1>4. SenderInv'
    BY <1>1, <1>2 DEF OnceInv, SenderInv
  <1>5. ASSUME NEW t \in subscribers, t # s  PROVE StreamInv(t)'
    <2>1. StreamInv(t) /\ t \in Streams
      BY RegisteredTypes DEF OnceInv
    <2>2. Sent(t)' = Sent(t)
      BY <1>1, <1>2, <1>5, <2>1 DEF SendTo, Sent
    <2>3. \A l : Excused(t, l) => Excused(t, l)'
      BY <1>2 DEF Excused, SendTo
    <2>4. /\ \A q \in Requests : t \in targets'[q] => t \in targets[q]
          /\ \A l : OnItsWay(t, l) => OnItsWay(t, l)'
      BY <1>1, <1>2, <1>5 DEF OnItsWay
    <2>. QED BY <1>2, <2>1, <2>2, <2>3, <2>4, StreamKept
  <1>6. StreamInv(s)'
    <2>1. StreamInv(s) /\ Sent(s) \in Seq(Nat) /\ got[s] \in Seq(Nat) /\ queue[s] \in Seq(Nat)
      BY <1>1, RegisteredTypes DEF OnceInv
    <2>2. CASE queue' = [queue EXCEPT ![s] = Append(@, line[r])] /\ overflowed' = overflowed
      <3>1. Sent(s)' = Append(Sent(s), line[r])
        <4>1. s \in Streams /\ line[r] \in Nat
          BY <1>1
        <4>2. got' = got /\ queue'[s] = Append(queue[s], line[r])
          BY <1>1, <1>2, <2>2, <4>1
        <4>. QED BY <2>1, <4>1, <4>2, ConcatAppend DEF Sent
      <3>2. ~Within(Sent(s), line[r])
        BY <2>1 DEF StreamInv
      <3>3. /\ Distinct(Sent(s)')
            /\ \A l : Within(Sent(s)', l) <=> Within(Sent(s), l) \/ l = line[r]
        BY <1>1, <2>1, <3>1, <3>2, AppendOnce DEF StreamInv
      <3>4. \A q \in Requests : s \in targets'[q] => ~Within(Sent(s)', line[q])
        BY <1>1, <1>2, <2>1, <3>3 DEF StreamInv, OnceInv, SenderInv
      <3>5. \A l : OnItsWay(s, l) => OnItsWay(s, l)' \/ l = line[r]
        BY <1>1, <1>2 DEF OnItsWay
      <3>6. \A l : Excused(s, l)' <=> Excused(s, l)
        BY <1>2, <2>2 DEF Excused
      <3>7. \A l : Within(Sent(s)', l) => l \in 1..lines
        BY <1>1, <2>1, <3>3 DEF StreamInv
      <3>8. \A l \in 1..lines : l > joined[s] /\ ~Excused(s, l)' => Within(Sent(s)', l) \/ OnItsWay(s, l)'
        BY <2>1, <3>3, <3>5, <3>6 DEF StreamInv
      <3>. QED BY <1>2, <3>3, <3>4, <3>7, <3>8 DEF StreamInv
    <2>3. CASE overflowed' = overflowed \cup {s} /\ queue' = queue
      <3>1. Sent(s)' = Sent(s) /\ \A l : Excused(s, l)'
        BY <1>2, <2>3 DEF Sent, Excused
      <3>2. \A q \in Requests : s \in targets'[q] => s \in targets[q]
        BY <1>1, <1>2
      <3>. QED BY <1>2, <2>1, <3>1, <3>2 DEF StreamInv
    <2>. QED BY <2>2, <2>3 DEF SendTo
  <1>. QED BY <1>2, <1>3, <1>4, <1>5, <1>6 DEF SentInv, OnceInv

LEMMA PanicKeeps ==
  ASSUME OnceInv, NEW r \in Requests, NEW s, SendPanics(r, s),
         rpc' = [rpc EXCEPT ![r] = "panicked"], broken' = broken \cup {line[r]},
         UNCHANGED streamVars
  PROVE  SentInv'
  <1>1. /\ targets \in [Requests -> SUBSET Streams]
        /\ rpc \in [Requests -> {"new", "item", "send", "ingest"} \cup Ended]
    BY DEF OnceInv, TypeInv, TypeOK, BusTypeOK
  <1>2. /\ targets' = [targets EXCEPT ![r] = {}]
        /\ UNCHANGED <<history, subscribers, lines, line, queue, overflowed, got, joined, spc>>
    BY DEF SendPanics, mapVars, streamVars
  <1>3. HistoryInv' /\ SenderInv'
    BY <1>1, <1>2 DEF OnceInv, HistoryInv, SenderInv
  <1>4. ASSUME NEW t \in subscribers  PROVE StreamInv(t)'
    <2>1. StreamInv(t) /\ Sent(t)' = Sent(t)
      BY <1>2 DEF OnceInv, Sent
    <2>2. /\ \A q \in Requests : t \in targets'[q] => t \in targets[q]
          /\ \A l : OnItsWay(t, l) => OnItsWay(t, l)' \/ l = line[r]
      BY <1>1, <1>2 DEF OnItsWay
    <2>3. \A l : (Excused(t, l) \/ l = line[r]) => Excused(t, l)'
      BY <1>2 DEF Excused
    <2>4. \A q \in Requests : line'[q] = line[q] /\ (t \in targets'[q] => t \in targets[q])
      BY <1>2, <2>2
    <2>. QED BY <1>2, <2>1, <2>2, <2>3, <2>4, StreamKept
  <1>. QED BY <1>2, <1>3, <1>4 DEF SentInv, OnceInv

\* A step that leaves the bus alone, and the requests that send.
LEMMA BusUntouched ==
  ASSUME OnceInv, UNCHANGED <<busVars, broken, got, joined>>,
         \A r \in Requests : rpc[r] = "send" => rpc'[r] = "send",
         \A s \in Streams : spc'[s] = "new" => spc[s] = "new"
  PROVE  SentInv'
  <1>1. HistoryInv'
    BY DEF OnceInv, HistoryInv, busVars, mapVars
  <1>2. SenderInv'
    BY DEF OnceInv, SenderInv, TypeInv, TypeOK, BusTypeOK, busVars, sendVars
  <1>3. ASSUME NEW s \in subscribers  PROVE StreamInv(s)'
    BY <1>3 DEF OnceInv, StreamInv, Sent, Excused, OnItsWay, busVars, mapVars, sendVars
  <1>. QED BY <1>1, <1>2, <1>3 DEF SentInv, OnceInv, busVars, mapVars

LEMMA RequestKeeps ==
  ASSUME OnceInv, NEW r \in Requests, Accept(r) \/ RequestStep(r)
  PROVE  SentInv'
  <1>1. rpc \in [Requests -> {"new", "item", "send", "ingest"} \cup Ended]
    BY DEF OnceInv, TypeInv, TypeOK
  <1>2. ASSUME rpc[r] # "send", UNCHANGED <<busVars, broken, streamVars>>,
               rpc' = rpc \/ \E p : rpc' = [rpc EXCEPT ![r] = p]
        PROVE  SentInv'
    BY <1>1, <1>2, BusUntouched DEF streamVars
  <1>3. CASE Accept(r) \/ IngestItem(r) \/ Respond(r)
    BY <1>2, <1>3 DEF Accept, IngestItem, Respond, GoTo
  <1>4. CASE Item(r)
    BY <1>2, <1>4, PublishKeeps DEF Item, GoTo
  <1>5. CASE Send(r)
    <2>1. PICK s \in targets[r] :
            \/ /\ SendTo(r, s)
               /\ GoTo(r, IF targets'[r] = {} THEN "ingest" ELSE "send")
               /\ UNCHANGED broken
            \/ /\ SendPanics(r, s)
               /\ GoTo(r, "panicked")
               /\ broken' = broken \cup {line[r]}
      BY <1>5 DEF Send
    <2>. QED BY <1>5, <2>1, SendKeeps, PanicKeeps DEF Send, GoTo
  <1>. QED BY <1>3, <1>4, <1>5 DEF RequestStep

LEMMA OpenKeeps ==
  ASSUME OnceInv, NEW s \in Streams, Open(s)
  PROVE  SentInv'
  <1>1. /\ spc \in [Streams -> {"new", "streaming", "polling", "leaving", "ended"}]
        /\ joined \in [Streams -> 0..lines] /\ queue \in [Streams -> Seq(Nat)]
        /\ history \in Seq(Nat) /\ lines \in Nat
    BY DEF OnceInv, TypeInv, TypeOK, BusTypeOK
  <1>2. /\ spc[s] = "new" /\ got[s] = <<>> /\ s \notin subscribers
        /\ \A r \in Requests : s \notin targets[r]
    BY RegisteredTypes DEF OnceInv, SenderInv, Open
  <1>3. /\ spc' = [spc EXCEPT ![s] = "streaming"] /\ joined' = [joined EXCEPT ![s] = lines]
        /\ UNCHANGED <<history, lines, overflowed, targets, line, got, rpc, broken>>
        /\ subscribers' \subseteq subscribers \cup {s}
        /\ s \in subscribers' => queue'[s] = history
        /\ \A t \in Streams \ {s} : queue'[t] = queue[t]
    BY <1>1, <1>2 DEF Open, Subscribe, mapVars, sendVars, requestVars
  <1>4. HistoryInv' /\ SenderInv'
    BY <1>1, <1>3 DEF OnceInv, HistoryInv, SenderInv
  <1>5. ASSUME NEW t \in subscribers, t # s  PROVE StreamInv(t)'
    <2>1. StreamInv(t) /\ Sent(t)' = Sent(t) /\ joined'[t] = joined[t]
      BY <1>1, <1>3, <1>5, RegisteredTypes DEF OnceInv, Sent
    <2>. QED BY <1>3, <2>1, StreamKept DEF Excused, OnItsWay
  <1>6. ASSUME s \in subscribers'  PROVE StreamInv(s)'
    <2>1. Sent(s)' = history
      BY <1>1, <1>2, <1>3, <1>6, ConcatEmptySeq DEF Sent
    <2>2. \A l \in 1..lines : ~(l > joined'[s])
      BY <1>1, <1>3
    <2>. QED BY <1>2, <1>3, <2>1, <2>2 DEF OnceInv, HistoryInv, StreamInv
  <1>7. \A t \in Streams : spc'[t] = "new" => got'[t] = <<>>
    BY <1>1, <1>3 DEF OnceInv
  <1>. QED BY <1>3, <1>4, <1>5, <1>6, <1>7 DEF SentInv

LEMMA ReceiveKeeps ==
  ASSUME OnceInv, NEW s \in Streams, Receive(s)
  PROVE  SentInv'
  <1>1. /\ spc \in [Streams -> {"new", "streaming", "polling", "leaving", "ended"}]
        /\ queue \in [Streams -> Seq(Nat)] /\ got \in [Streams -> Seq(Nat)]
    BY DEF OnceInv, TypeInv, TypeOK, BusTypeOK
  <1>2. CASE queue[s] = <<>>
    BY <1>1, <1>2, BusUntouched DEF Receive, Leave, busVars, sendVars, requestVars
  <1>3. CASE queue[s] # <<>>
    <2>1. /\ got' = [got EXCEPT ![s] = Append(@, Head(queue[s]))]
          /\ queue' = [queue EXCEPT ![s] = Tail(@)]
          /\ UNCHANGED <<history, subscribers, lines, overflowed, targets, line, spc, rpc, broken, joined>>
      BY <1>3 DEF Receive, mapVars, requestVars
    <2>2. \A t \in Streams : Sent(t)' = Sent(t)
      <3>1. Sent(s)' = Sent(s)
        BY <1>1, <1>3, <2>1, TakeOne DEF Sent
      <3>2. ASSUME NEW t \in Streams, t # s  PROVE Sent(t)' = Sent(t)
        BY <1>1, <2>1, <3>2 DEF Sent
      <3>. QED BY <3>1, <3>2
    <2>3. HistoryInv' /\ SenderInv'
      BY <2>1 DEF OnceInv, HistoryInv, SenderInv
    <2>4. ASSUME NEW t \in subscribers  PROVE StreamInv(t)'
      <3>1. StreamInv(t) /\ t \in Streams
        BY RegisteredTypes DEF OnceInv
      <3>. QED BY <2>1, <2>2, <3>1, StreamKept DEF Excused, OnItsWay
    <2>5. \A t \in Streams : spc'[t] = "new" => got'[t] = <<>>
      BY <1>1, <2>1 DEF OnceInv, Receive
    <2>. QED BY <2>1, <2>3, <2>4, <2>5 DEF SentInv
  <1>. QED BY <1>2, <1>3

LEMMA FinishKeeps ==
  ASSUME OnceInv, NEW s \in Streams, Finish(s)
  PROVE  SentInv'
  <1>1. /\ spc \in [Streams -> {"new", "streaming", "polling", "leaving", "ended"}]
        /\ queue \in [Streams -> Seq(Nat)] /\ got \in [Streams -> Seq(Nat)]
        /\ joined \in [Streams -> 0..lines]
    BY DEF OnceInv, TypeInv, TypeOK, BusTypeOK
  <1>2. /\ subscribers' = subscribers \ {s} /\ overflowed' = overflowed \ {s}
        /\ spc' = [spc EXCEPT ![s] = "ended"] /\ got' = [got EXCEPT ![s] = <<>>]
        /\ joined' = [joined EXCEPT ![s] = 0] /\ queue' = [queue EXCEPT ![s] = <<>>]
        /\ UNCHANGED <<history, lines, targets, line, rpc, broken>>
    BY DEF Finish, Unsubscribe, requestVars
  <1>3. HistoryInv' /\ SenderInv'
    BY <1>1, <1>2 DEF OnceInv, HistoryInv, SenderInv
  <1>4. ASSUME NEW t \in subscribers \ {s}  PROVE StreamInv(t)'
    <2>1. StreamInv(t) /\ Sent(t)' = Sent(t) /\ joined'[t] = joined[t]
      BY <1>1, <1>2, RegisteredTypes DEF OnceInv, Sent
    <2>. QED BY <1>2, <2>1, StreamKept DEF Excused, OnItsWay
  <1>5. \A t \in Streams : spc'[t] = "new" => got'[t] = <<>>
    BY <1>1, <1>2 DEF OnceInv
  <1>. QED BY <1>2, <1>3, <1>4, <1>5 DEF SentInv

LEMMA ServerKeeps ==
  ASSUME OnceInv, DebugClearHistory \/ Signal \/ ServerStep \/ Deadline \/ ServeFails
  PROVE  SentInv'
  <1>1. CASE DebugClearHistory
    <2>1. /\ history' = <<>>
          /\ UNCHANGED <<lines, subscribers, sendVars, line, requestVars, streamVars>>
      BY <1>1 DEF DebugClearHistory, ClearHistory
    <2>2. HistoryInv'
      BY <2>1 DEF HistoryInv, Distinct, Within
    <2>3. SenderInv'
      BY <2>1 DEF OnceInv, SenderInv, sendVars, requestVars, streamVars
    <2>4. ASSUME NEW s \in subscribers  PROVE StreamInv(s)'
      BY <2>1, <2>4 DEF OnceInv, StreamInv, Sent, Excused, OnItsWay, sendVars, requestVars, streamVars
    <2>. QED BY <2>1, <2>2, <2>3, <2>4 DEF OnceInv, SentInv, streamVars
  <1>2. CASE CloseBus
    <2>1. subscribers' = {} /\ UNCHANGED <<history, lines, sendVars, line, requestVars, streamVars>>
      BY <1>2 DEF CloseBus, Close, Become
    <2>. QED BY <2>1 DEF OnceInv, SentInv, HistoryInv, SenderInv, sendVars, requestVars, streamVars
  <1>3. CASE Signal \/ Shutdown \/ Drained \/ Deadline \/ ServeFails
    BY <1>3, BusUntouched
    DEF Signal, Shutdown, Drained, Deadline, ServeFails, Become, requestVars, streamVars
  <1>. QED BY <1>1, <1>2, <1>3 DEF ServerStep

\* For any streams, requests and batches, and any sizes of the history and of
\* the channels: a registered stream gets every line published since it
\* subscribed exactly once, and no older one twice, unless its channel was full
\* or the publisher panicked.
THEOREM ExactlyOnceTheorem == Spec => []ExactlyOnce
  <1>1. OnceInv /\ [Next]_vars => OnceInv'
    <2>. SUFFICES ASSUME OnceInv, [Next]_vars  PROVE SentInv'
      BY TypesKept, ChannelsKept DEF OnceInv, SentInv
    <2>1. CASE UNCHANGED vars
      BY <2>1, BusUntouched DEF vars, requestVars, streamVars
    <2>2. ASSUME NEW s \in Streams, Poll(s) \/ Timer(s) \/ Disconnect(s)  PROVE SentInv'
      BY <2>2, BusUntouched DEF Poll, Timer, Disconnect, Leave, requestVars, OnceInv, TypeInv, TypeOK
    <2>. QED BY <2>1, <2>2, RequestKeeps, OpenKeeps, ReceiveKeeps, FinishKeeps, ServerKeeps
         DEF Next, StreamStep
  <1>2. OnceInv => ExactlyOnce
    BY OnceImpliesExactly
  <1>. QED BY InitOnce, <1>1, <1>2, PTL DEF Spec
=============================================================================
