---------------------------- MODULE MCHttpServer ----------------------------
(* Small instances of HttpServer. *)
EXTENDS HttpServer

OneEach == [r \in Requests |-> 1]

\* One request carries two events, the others one.
TwoAndOne ==
  LET batch == CHOOSE r \in Requests : TRUE
  IN [r \in Requests |-> IF r = batch THEN 2 ELSE 1]
=============================================================================
