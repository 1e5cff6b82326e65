------------------------------ MODULE MCSigint ------------------------------
(* Small instances of Sigint. *)
EXTENDS Sigint, TLC

CONSTANTS i1, i2,    \* event ids
          p1, p2,    \* payloads
          near, far, \* archive paths
          forged     \* a hash that matches nothing

Honest(i, place, payload) ==
  [id |-> i, place |-> place, payload |-> payload, payloadSHA |-> payload,
   eventSHA |-> <<i, place, payload, payload>>]

\* One event id sent with two contents at one path, and at a second path.
Rivals == {Honest(i1, near, p1), Honest(i1, near, p2), Honest(i1, far, p1)}
\* One event, sent again and again.
Plain == {Honest(i1, near, p1)}
\* One payload sent under two names, and so to two paths.
Pair == {Honest(i1, near, p1), Honest(i1, far, p1)}
\* The same and an envelope whose event hash is not its own.
PairAndForged == Pair \cup {[Honest(i1, near, p1) EXCEPT !.eventSHA = forged]}
\* Two event ids, one of them with two contents.
TwoEvents == {Honest(i1, near, p1), Honest(i1, far, p2), Honest(i2, near, p1)}
\* Two event ids, one content each.
TwoPlainEvents == {Honest(i1, near, p1), Honest(i2, near, p1)}
\* No limit, limits that are served, that only the ledger refuses, and that the
\* API refuses.
LimitsAsked == {0, 2, 3, 4, -1}

\* Consumers without a filter, and with one on the name of the event.
Everything == [c \in Consumers |-> Envelopes]
OneName == [c \in Consumers |-> {e \in Envelopes : e.place = near}]

HandlerSymmetry == Permutations(Handlers)
=============================================================================
