----------------------------- MODULE WriteOnce ------------------------------
(***************************************************************************)
(* What ingestion promises a producer, without ledger, guards or files:    *)
(* the first envelope to claim an event id is the only one that can ever   *)
(* be published under it, publication is for good, and an answer tells the *)
(* truth about it.                                                         *)
(*   stored, duplicate (here "ok")   the envelope is published             *)
(*   hash_conflict ("conflict")      another envelope holds the id         *)
(*   any error ("error")             nothing: it may or may not be         *)
(***************************************************************************)
CONSTANTS EventIds, Envelopes, Callers, None

VARIABLES claim,      \* event id -> the envelope that may be published, or None
          published,  \* the published envelopes
          asked,      \* caller -> the envelope it sent last, or None
          verdict,    \* caller -> what it was told, or None while it waits
          abandoned   \* envelopes of requests that ended in an error, or in
                      \* nothing, and that may still be worked on
wvars == <<claim, published, asked, verdict, abandoned>>

Verdicts == {"ok", "conflict", "error"}

WInit ==
  /\ claim = [i \in EventIds |-> None]
  /\ published = {}
  /\ asked = [c \in Callers |-> None]
  /\ verdict = [c \in Callers |-> None]
  /\ abandoned = {}

\* A new request; a malformed one is answered at once.
Ask(c, e) ==
  /\ asked' = [asked EXCEPT ![c] = e]
  /\ verdict' \in {[verdict EXCEPT ![c] = v] : v \in {None, "error"}}
  /\ UNCHANGED <<claim, published, abandoned>>

Claim(e) ==
  /\ claim[e.id] = None
  /\ claim' = [claim EXCEPT ![e.id] = e]
  /\ UNCHANGED published

Publish(e) ==
  /\ claim[e.id] = e
  /\ published' = published \cup {e}
  /\ UNCHANGED claim

\* A verdict is given once, and is what the state shows then, or an error.  A
\* server that dies before its reply is out takes the verdict back.
Decide(c) ==
  /\ \E v \in Verdicts \cup {None} :
       /\ v \in Verdicts => verdict[c] = None
       /\ v = "ok" => asked[c] \in published
       /\ v = "conflict" => claim[asked[c].id] \notin {None, asked[c]}
       /\ verdict' = [verdict EXCEPT ![c] = v]
       /\ abandoned' \subseteq IF v \in {"ok", "conflict"} THEN abandoned
                                ELSE abandoned \cup {asked[c]}
  /\ UNCHANGED asked

\* Work on the id and the answer that tells of it may come in one step.
Work(c) ==
  /\ asked[c] \in Envelopes
  /\ Claim(asked[c]) \/ Publish(asked[c]) \/ UNCHANGED <<claim, published>>
  /\ \/ Decide(c)
     \/ UNCHANGED <<asked, verdict>> /\ abandoned' \subseteq abandoned

\* The request is over and its work goes on; it may claim what is still free,
\* and publish under its own claim only.
Late(e) ==
  /\ e \in abandoned
  /\ Claim(e) \/ Publish(e)
  /\ abandoned' \subseteq abandoned
  /\ UNCHANGED <<asked, verdict>>

WNext ==
  \/ \E c \in Callers : Work(c) \/ \E e \in Envelopes : Ask(c, e)
  \/ \E e \in Envelopes : Late(e)

WSpec == WInit /\ [][WNext]_wvars
=============================================================================
