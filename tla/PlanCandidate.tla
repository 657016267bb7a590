--------------------------- MODULE PlanCandidate ---------------------------
(***************************************************************************)
(* aa23ValidateCandidate of localworker/aa23_plans.go: every response is   *)
(* validated, the bytes are counted, then PlanOverlap's check runs; an     *)
(* accepted candidate is laid out in its slot by aa23Copy.                 *)
(*                                                                         *)
(* The entries of a candidate share one response here, since each is       *)
(* validated on its own; a request's rank is also its length.              *)
(***************************************************************************)
EXTENDS PlanOverlap, ResponseCodec, SequencesExt

CONSTANTS Samples,        \* response data to encode
          Noise,          \* symbols that replace or join those of an encoding
          MaxPlanBytes    \* AA23MaxPlanBytes

ASSUME SamplesAssumption == Samples \subseteq Seq(Byte) /\ Noise \subseteq Byte
ASSUME MaxPlanBytesAssumption == MaxPlanBytes \in Nat

VARIABLE stage    \* "responses", "size", "overlap", "oversize", "invalid"

candidateVars == <<vars, codecVars, stage>>

Encodings == {AA23EncodeResponse(data) : data \in Samples}
\* An encoding with one symbol replaced, lost or added.
Mangled == UNION {{ReplaceAt(w, i, x) : i \in 1 .. Len(w), x \in Noise} \cup {RemoveAt(w, i) : i \in 1 .. Len(w)}
                  \cup {InsertAt(w, i, x) : i \in 1 .. Len(w) + 1, x \in Noise} : w \in Encodings}

CandidateInit ==
  /\ Init
  /\ stage = "responses"
  /\ \/ N > 1 /\ CodecInit(AA23EncodeResponse(<<>>))
     \/ N = 1 /\ \E w \in Encodings \cup Mangled : CodecInit(w)

ValidateResponse == stage = "responses" /\ CodecNext /\ UNCHANGED <<vars, stage>>

ResponsesDone ==
  /\ stage = "responses" /\ verdict # "open"
  /\ stage' = IF verdict = "valid" THEN "size" ELSE "invalid"
  /\ UNCHANGED <<vars, codecVars>>

\* The request and the response of entry i, and where aa23Copy puts them.
Bytes(i) == entries[i].req + Len(wire)
Start(i) == LET sum[k \in 0 .. i] == IF k = 0 THEN 0 ELSE sum[k - 1] + Bytes(k - 1) IN sum[i]
ReplyStart(i) == Start(i) + entries[i].req

FitsRequests == Start(N - 1) + entries[N - 1].req <= MaxPlanBytes
Fits == Start(N - 1) + Bytes(N - 1) <= MaxPlanBytes

CountBytes ==
  /\ stage = "size"
  /\ stage' = IF Fits THEN "overlap" ELSE "oversize"
  /\ UNCHANGED <<vars, codecVars>>

CheckOverlap == stage = "overlap" /\ Next /\ UNCHANGED <<codecVars, stage>>

CandidateNext == ValidateResponse \/ ResponsesDone \/ CountBytes \/ CheckOverlap

CandidateSpec == CandidateInit /\ [][CandidateNext]_candidateVars

-----------------------------------------------------------------------------

Accepted == pc = "done" /\ ~overlaps

\* An accepted candidate is copied whole: copy never truncates at the end of the
\* slot's storage, and no entry's response overlaps another's bytes.
CopiedWhole ==
  Accepted => \A i \in Indices :
    /\ ReplyStart(i) + Len(wire) <= MaxPlanBytes
    /\ \A j \in Indices : j > i => Start(j) >= ReplyStart(i) + Len(wire)

\* aa23ValidateCandidate decides as the definition does: the sort is one, a plan is
\* refused exactly for an overlap, and an accepted one is unambiguous and fits.
VerdictInv ==
  /\ TypeOK
  /\ HeapKept
  /\ VerdictExact
  /\ AcceptedIsUnambiguous
  /\ CopiedWhole

\* The worker's encoder, bit by bit, and the responder's, over the table, agree:
\* what one validates as a response is what the other would have sent.
EncodersAgree ==
  /\ TableUpdate(crc, 0) = CRCStep(crc, 0)
  /\ verdict = "valid" => \A b \in Unescaped(wire) : wire = EncodeSlaveResponse(SubSeq(b, 2, Len(b) - 1))

\* Encoders and validator of a response have one language.
CodecsAgree ==
  /\ ValidatesEncodings
  /\ EncodersAgree

=============================================================================
