------------------------------- MODULE Replay -------------------------------
(***************************************************************************)
(* Service.ReplayEvents and a consumer that follows the replay endpoint:   *)
(* it asks for the page after its cursor, takes the last cursor of the     *)
(* page as its new one and, told that its cursor has expired, resumes at   *)
(* the floor the answer names.                                             *)
(***************************************************************************)
EXTENDS Ledger, Integers

CONSTANTS Consumers,
          Wanted,                  \* consumer -> the envelopes its filters match
          AskedLimits,             \* the limit parameters of requests, 0 for none
          DefaultLimit, MaxLimit,  \* config.Replay
          LedgerMaxLimit           \* events.MaxReplayLimit

VARIABLES cpc,        \* consumer -> "idle" or "page" (its cursor was accepted)
          position,   \* consumer -> the last cursor it was given
          delivered   \* consumer -> {[cursor, raw]} served to it
replayVars == <<cpc, position, delivered>>

ReplayEvent == [cursor : 1..MaxCursor, raw : Envelopes]

ReplayTypeOK ==
  /\ cpc \in [Consumers -> {"idle", "page"}]
  /\ position \in [Consumers -> 0..MaxCursor]
  /\ delivered \in [Consumers -> SUBSET ReplayEvent]

ReplayInit ==
  /\ cpc = [c \in Consumers |-> "idle"]
  /\ position = [c \in Consumers |-> 0]
  /\ delivered = [c \in Consumers |-> {}]

\* GetReplayWatermark, and the comparison with the requested cursor.
CheckFloor(c) ==
  /\ cpc[c] = "idle"
  /\ \/ /\ position[c] >= floor
        /\ cpc' = [cpc EXCEPT ![c] = "page"]
        /\ UNCHANGED position
     \/ /\ position[c] < floor
        /\ position' = [position EXCEPT ![c] = floor]
        /\ UNCHANGED cpc
  /\ UNCHANGED delivered

\* NormalizeReplayLimitWithBounds; no limit it grants is 0.
Refused == 0
NormalizeLimit(limit, default, max) ==
  IF limit = 0 THEN default
  ELSE IF limit < 0 \/ limit > max THEN Refused ELSE limit

ApiLimit(asked) == NormalizeLimit(asked, DefaultLimit, MaxLimit)

\* The ledger has bounds of its own.
LedgerLimit(limit) == NormalizeLimit(limit, LedgerMaxLimit, LedgerMaxLimit)

Serve(c, page) ==
  /\ delivered' = [delivered EXCEPT ![c] = @ \cup page]
  /\ \/ page = {} /\ UNCHANGED position
     \/ \E last \in page :
          /\ \A r \in page : r.cursor <= last.cursor
          /\ position' = [position EXCEPT ![c] = last.cursor]

\* A limit the API refuses never gets to the ledger.
Limits == {LedgerLimit(ApiLimit(asked)) : asked \in {a \in AskedLimits : ApiLimit(a) # Refused}}

\* The ledger's page: a second read.
GetsPage(c) ==
  /\ cpc[c] = "page" /\ cpc' = [cpc EXCEPT ![c] = "idle"]
  /\ \E limit \in Limits \ {Refused} : Serve(c, ReplayPage(position[c], limit, Wanted[c]))

\* A limit that only the ledger refuses makes the request fail.
LedgerRefuses(c) ==
  /\ cpc[c] = "page" /\ cpc' = [cpc EXCEPT ![c] = "idle"]
  /\ Refused \in Limits
  /\ UNCHANGED <<position, delivered>>

ReadPage(c) == GetsPage(c) \/ LedgerRefuses(c)

ReplayNext(c) == CheckFloor(c) \/ ReadPage(c)

ASSUME ReplayAssumption ==
  /\ AskedLimits \subseteq Int
  /\ Wanted \in [Consumers -> SUBSET Envelopes]
  /\ DefaultLimit \in Nat \ {0} /\ MaxLimit \in Nat /\ MaxLimit >= DefaultLimit
  /\ LedgerMaxLimit \in Nat \ {0}
=============================================================================
