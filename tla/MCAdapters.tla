----------------------------- MODULE MCAdapters -----------------------------
(* A small instance of Adapters. *)
EXTENDS Adapters

CONSTANTS i1, p1, p2, near, far

Content(place, payload) ==
  [id |-> i1, place |-> place, payload |-> payload, payloadSHA |-> payload,
   eventSHA |-> <<i1, place, payload, payload>>]

\* One event id with two contents at one path, and a third at another.
Contents == {Content(near, p1), Content(near, p2), Content(far, p1)}
=============================================================================
