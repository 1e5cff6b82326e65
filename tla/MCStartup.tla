----------------------------- MODULE MCStartup -----------------------------
(* A small instance of Startup: a file that loads, with every way to name a *)
(* token, and files that are wrong in one place.                            *)
EXTENDS Startup

MCVars == {"LEDGER", "TOKEN"}
MCSpaced == {" ", "two words"}

Good ==
  [unknown |-> {}, host |-> "local", port |-> 8920,
   ledger |-> "sqlite", address |-> "LEDGER",
   storage |-> "s3", root |-> "", bucket |-> "b", region |-> "r",
   defaultLimit |-> 100, maxLimit |-> 1000, hotWindow |-> "",
   producerToken |-> "", producerTokenEnv |-> "", internalToken |-> "", internalTokenEnv |-> ""]

\* A token may be absent, written out, blank, a reference, the name of a
\* variable, or both written out and named.
ProducerTokens ==
  {[Good EXCEPT !.producerToken = d, !.producerTokenEnv = n] :
     d \in {"", "secret", "two words", " ", "TOKEN"}, n \in {"", "TOKEN"}}
InternalTokens ==
  {[Good EXCEPT !.internalToken = "inner", !.producerToken = d] : d \in {"", "secret"}}
  \cup {[Good EXCEPT !.internalTokenEnv = "TOKEN", !.producerToken = d] : d \in {"", "TOKEN"}}

Odd ==
  {[Good EXCEPT !.unknown = u] : u \in {{"top"}, {"ledger"}, {"storage"}}}
  \cup {[Good EXCEPT !.port = n] : n \in {0, 65536}}
  \cup {[Good EXCEPT !.ledger = "postgres"], [Good EXCEPT !.ledger = "mysql"], [Good EXCEPT !.address = ""],
        [Good EXCEPT !.region = ""], [Good EXCEPT !.storage = "filesystem"],
        [Good EXCEPT !.storage = "filesystem", !.root = "here"],
        [Good EXCEPT !.defaultLimit = 0], [Good EXCEPT !.maxLimit = 99], [Good EXCEPT !.hotWindow = "7d"]}

MCFiles == ProducerTokens \cup InternalTokens \cup Odd

MCEnvs == {[LEDGER |-> "db", TOKEN |-> t] : t \in {"", " ", "given"}} \cup {[LEDGER |-> "", TOKEN |-> "given"]}
=============================================================================
