------------------------------ MODULE Envelope ------------------------------
(***************************************************************************)
(* The event envelope of internal/events, as far as the service tells two  *)
(* envelopes apart.  An envelope is a record                               *)
(*   id          the normalised event_id                                   *)
(*   place       producer_service, date and event_name, the segments of    *)
(*               the archive path besides the event id                     *)
(*   payload     everything else the canonical JSON holds                  *)
(*   payloadSHA, eventSHA   the hashes the producer claims                 *)
(* Its canonical JSON text is the record itself.  SHA-256 is taken to be   *)
(* injective: the hash of a value is the value.                            *)
(***************************************************************************)
CONSTANTS EventIds, Envelopes, None,
          RequirePayloadHash, RequireEventHash  \* config.Ingest

\* The archive path of an envelope.  Event ids are UUIDs, which safeSegment
\* leaves alone, so a path belongs to one event id.
Key(e) == <<e.id, e.place>>
Keys == {Key(e) : e \in Envelopes}

PayloadHash(e) == e.payload
EventHash(e) == <<e.id, e.place, e.payload, e.payloadSHA>>

HashesValid(e) ==
  /\ RequirePayloadHash => e.payloadSHA = PayloadHash(e)
  /\ RequireEventHash => e.eventSHA = EventHash(e)

\* A slip: only the payload hashes are compared.
SamePayload(a, b) == a.payloadSHA = b.payloadSHA

SameHashes(a, b) == a.eventSHA = b.eventSHA /\ a.payloadSHA = b.payloadSHA

ASSUME EnvelopeAssumption ==
  /\ \A e \in Envelopes :
       e \in [id : EventIds, place : {e.place}, payload : {e.payload},
             payloadSHA : {e.payloadSHA}, eventSHA : {e.eventSHA}]
  /\ None \notin Envelopes
  /\ None \notin Keys
  /\ RequirePayloadHash \in BOOLEAN /\ RequireEventHash \in BOOLEAN
=============================================================================
