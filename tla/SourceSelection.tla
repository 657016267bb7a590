-------------------------- MODULE SourceSelection --------------------------
(***************************************************************************)
(* protocol/source_address_selection.go: concurrent calls of Select on one *)
(* selector.  A call listens to the bus, may send one inquiry under a      *)
(* budget it shares with the others, listens again, and takes the first    *)
(* candidate row that neither the evidence nor what it heard opposes.      *)
(*                                                                         *)
(* Frames arrive in any order while a call listens; a context may end at   *)
(* any time.  The cooldown ends at any time after it began.  Metrics are   *)
(* left out.                                                               *)
(***************************************************************************)
EXTENDS Addressing, SequencesExt

CONSTANTS Callers, None,
          Setups,             \* configurations, see SetupsAssumption
          Frames,             \* frames on the bus: source and target
          InquiryMaxAttempts

Unknown == "unknown"
Free == "observed_free"
Stale == "stale_known_device"
Occupied == "observed_occupied"

ASSUME SetupsAssumption ==
  \A s \in Setups :
    /\ s.explicit \in Addresses \cup {None} /\ s.hint \in Addresses \cup {None}
    /\ {s.inquiry, s.disableOnNoNew} \subseteq BOOLEAN
    /\ {s.maxCalls, s.maxFrames} \subseteq Nat   \* bounds: calls in all, frames a call hears
    /\ \A i \in DOMAIN s.evidence : s.evidence[i].state \in {Unknown, Free, Stale, Occupied}
ASSUME AttemptsAssumption == InquiryMaxAttempts \in Nat \ {0}
ASSUME CallersAssumption == IsFiniteSet(Callers)

VARIABLES
  setup,        \* the selector's configuration
  inquiryAttempts, noNew, disabled, cooling,   \* its inquiry state, under its mutex
  calls,        \* calls so far
  stage,        \* how far each call is
  cancelled,    \* its context has ended
  heard,        \* the frames it heard
  before,       \* len(observedSourceAddresses) ahead of the second window
  result,       \* how it ended, "pending" before
  selected      \* the row it returned

selector == <<inquiryAttempts, noNew, disabled, cooling>>
selectionVars == <<setup, selector, calls, stage, cancelled, heard, before, result, selected>>

NoRow == Row(0 - 1, 0, "", 0 - 1)

SelectionInit ==
  /\ setup \in Setups
  /\ inquiryAttempts = 0 /\ noNew = 0 /\ disabled = FALSE /\ cooling = FALSE
  /\ calls = 0 /\ stage = [c \in Callers |-> "idle"]
  /\ cancelled = [c \in Callers |-> FALSE]
  /\ heard = [c \in Callers |-> <<>>]
  /\ before = [c \in Callers |-> 0]
  /\ result = [c \in Callers |-> "pending"]
  /\ selected = [c \in Callers |-> NoRow]

-----------------------------------------------------------------------------
(* Observation and evidence                                                *)

SourceCount(c, a) == Cardinality({i \in DOMAIN heard[c] : heard[c][i].source = a})
TargetCount(c, a) == Cardinality({i \in DOMAIN heard[c] : heard[c][i].target = a})
SourceMin == 2
TargetMin == 2

\* The initiators among the sources that were heard often enough.
ObservedSourceAddresses(c) ==
  {a \in {heard[c][i].source : i \in DOMAIN heard[c]} : IsInitiatorCapableAddress(a) /\ SourceCount(c, a) >= SourceMin}

\* Occupied wins over stale, stale over free, anything over unknown.
MergeLatest(current, next) == next
Merge(current, next) ==
  CASE next = Occupied -> Occupied
    [] next = Stale -> IF current # Occupied THEN Stale ELSE current
    [] next = Free -> IF current = Unknown THEN Free ELSE current
    [] OTHER -> current

\* The records in the order of the evidence's lists, then what was heard.
Occupancy(c, a) ==
  LET records == SelectSeq(setup.evidence, LAMBDA r : r.address = a)
      known == FoldLeft(LAMBDA state, r : Merge(state, r.state), Unknown, records)
  IN  IF SourceCount(c, a) >= SourceMin \/ TargetCount(c, a) >= TargetMin THEN Merge(known, Occupied) ELSE known

\* validateSourceAddressCandidate; 0xFF needs a companion that is known to be free.
Valid(c, row) ==
  /\ Occupancy(c, row.source) \notin {Occupied, Stale}
  /\ Occupancy(c, row.companion) \notin {Occupied, Stale}
  /\ row.source = 255 => Occupancy(c, row.companion) = Free

-----------------------------------------------------------------------------
(* Candidates                                                              *)

helianthusGatewayDefaultPolicyV1 == <<255, 127, 63, 31, 247, 119, 55, 23, 7, 17, 49, 0>>

\* applyHintBias: the hinted row first, the others in their order.
HintDropsPrefix(rows) ==
  LET at == {i \in DOMAIN rows : setup.hint # None /\ rows[i].source = setup.hint}
  IN  IF at = {} THEN rows ELSE LET i == CHOOSE i \in at : TRUE IN SubSeq(rows, i, Len(rows))
ApplyHintBias(rows) ==
  LET at == {i \in DOMAIN rows : setup.hint # None /\ rows[i].source = setup.hint}
  IN  IF at = {} THEN rows
      ELSE LET i == CHOOSE i \in at : TRUE IN <<rows[i]>> \o RemoveAt(rows, i)

WithPriority(row) == setup.priority = None \/ row.priority = setup.priority

Candidates ==
  IF setup.explicit # None
  THEN IF IsCanonicalSource(setup.explicit) THEN <<LookupSourceAddress(setup.explicit)>> ELSE <<>>
  ELSE ApplyHintBias(SelectSeq(
         IF setup.description # None
         THEN SelectSeq(sourceAddressTableV1, LAMBDA row : row.description = setup.description)
         ELSE [i \in DOMAIN helianthusGatewayDefaultPolicyV1 |->
                LookupSourceAddress(helianthusGatewayDefaultPolicyV1[i])],
         WithPriority))

ConfigValid ==
  /\ setup.explicit # None => setup.description = None /\ setup.priority = None
  /\ setup.description # None => \E row \in Rows : row.description = setup.description
  /\ setup.priority # None => setup.priority \in 0 .. 4

-----------------------------------------------------------------------------
(* Select                                                                  *)

Pass(c, from, to) == stage[c] = from /\ stage' = [stage EXCEPT ![c] = to]
Leave(c, from, answer) == Pass(c, from, "done") /\ result' = [result EXCEPT ![c] = answer]

Select(c) ==
  /\ calls < setup.maxCalls /\ stage[c] \in {"idle", "done"}
  /\ calls' = calls + 1
  /\ stage' = [stage EXCEPT ![c] = IF ConfigValid THEN "warmup" ELSE "done"]
  /\ result' = [result EXCEPT ![c] = IF ConfigValid THEN "pending" ELSE "config error"]
  /\ selected' = [selected EXCEPT ![c] = NoRow]
  /\ heard' = [heard EXCEPT ![c] = <<>>]
  /\ cancelled' = [cancelled EXCEPT ![c] = FALSE]
  /\ UNCHANGED <<setup, selector, before>>

Cancel(c) ==
  /\ stage[c] \notin {"idle", "done"} /\ ~cancelled[c]
  /\ cancelled' = [cancelled EXCEPT ![c] = TRUE]
  /\ UNCHANGED <<setup, selector, calls, stage, heard, before, result, selected>>

\* addFrame, from the bus's Listen
Hear(c, frame) ==
  /\ stage[c] \in {"warmup", "followup"} /\ Len(heard[c]) < setup.maxFrames
  /\ heard' = [heard EXCEPT ![c] = Append(@, frame)]
  /\ UNCHANGED <<setup, selector, calls, stage, cancelled, before, result, selected>>

\* observeWindow: a window that ends by its own deadline, or when Listen returns,
\* is no error.
WarmupHasNoDeadline(c) ==
  /\ \/ cancelled[c] /\ Leave(c, "warmup", "context ended")
     \/ Leave(c, "warmup", "bus error") /\ Len(heard[c]) > 0
     \/ Pass(c, "warmup", "ask") /\ Len(heard[c]) > 0 /\ UNCHANGED result
  /\ UNCHANGED <<setup, selector, calls, cancelled, heard, before, selected>>
WarmupEnds(c) ==
  /\ \/ Pass(c, "warmup", "ask") /\ UNCHANGED result
     \/ cancelled[c] /\ Leave(c, "warmup", "context ended")
     \/ Leave(c, "warmup", "bus error")
  /\ UNCHANGED <<setup, selector, calls, cancelled, heard, before, selected>>

\* shouldRunInquiry, under the mutex; the attempt is counted under the next lock.
AllowedAnyway == setup.inquiry /\ ~disabled /\ ~cooling
Allowed == setup.inquiry /\ ~disabled /\ inquiryAttempts < InquiryMaxAttempts /\ ~cooling

ShouldRunInquiry(c) ==
  /\ Pass(c, "ask", IF Allowed THEN "mark" ELSE "choose")
  /\ UNCHANGED <<setup, selector, calls, cancelled, heard, before, result, selected>>

AttemptNotCounted(c) ==
  /\ Pass(c, "mark", "inquire")
  /\ cooling' = TRUE
  /\ UNCHANGED <<setup, calls, inquiryAttempts, noNew, disabled, cancelled, heard, before, result, selected>>
MarkInquiryAttempt(c) ==
  /\ Pass(c, "mark", "inquire")
  /\ inquiryAttempts' = inquiryAttempts + 1 /\ cooling' = TRUE
  /\ UNCHANGED <<setup, calls, noNew, disabled, cancelled, heard, before, result, selected>>

CooldownEnds ==
  /\ cooling /\ cooling' = FALSE
  /\ UNCHANGED <<setup, calls, inquiryAttempts, noNew, disabled, stage, cancelled, heard, before, result, selected>>

\* markInquiryResult
InquiryResult(foundNew) ==
  /\ noNew' = IF foundNew THEN 0 ELSE noNew + 1
  /\ disabled' = (disabled \/ (~foundNew /\ setup.disableOnNoNew /\ noNew + 1 >= InquiryMaxAttempts))
  /\ UNCHANGED <<inquiryAttempts, cooling, selected>>

InquiryExistence(c) ==
  /\ \/ /\ Pass(c, "inquire", "followup")
        /\ before' = [before EXCEPT ![c] = Cardinality(ObservedSourceAddresses(c))]
        /\ UNCHANGED <<selector, result>>
     \/ Leave(c, "inquire", "context ended") /\ UNCHANGED <<selector, before>>
     \/ /\ ~cancelled[c] /\ Pass(c, "inquire", "choose")
        /\ InquiryResult(FALSE)
        /\ UNCHANGED <<before, result>>
  /\ UNCHANGED <<setup, calls, cancelled, heard, selected>>

\* The end of the second window; a context that has ended is not an error here.
FollowupEnds(c) ==
  /\ \/ /\ Pass(c, "followup", "choose")
        /\ InquiryResult(Cardinality(ObservedSourceAddresses(c)) > before[c])
        /\ UNCHANGED result
     \/ Leave(c, "followup", "bus error") /\ UNCHANGED selector
  /\ UNCHANGED <<setup, calls, cancelled, heard, before, selected>>

\* The first candidate that is valid.
ChooseLastTried(c) ==
  /\ stage[c] = "choose"
  /\ LET rows == SelectSeq(Candidates, LAMBDA row : Valid(c, row))
     IN  /\ Leave(c, "choose", IF rows # <<>> THEN "selected" ELSE "no source")
         /\ selected' = [selected EXCEPT ![c] = IF rows # <<>> THEN Head(rows)
                                               ELSE IF Candidates # <<>> THEN Last(Candidates) ELSE NoRow]
  /\ UNCHANGED <<setup, selector, calls, cancelled, heard, before>>
Choose(c) ==
  /\ stage[c] = "choose"
  /\ LET rows == SelectSeq(Candidates, LAMBDA row : Valid(c, row))
     IN  /\ Leave(c, "choose", IF rows # <<>> THEN "selected"
                                ELSE IF setup.explicit # None THEN "validation error" ELSE "no source")
         /\ selected' = [selected EXCEPT ![c] = IF rows # <<>> THEN Head(rows) ELSE NoRow]
  /\ UNCHANGED <<setup, selector, calls, cancelled, heard, before>>

SelectStep(c) == Select(c) \/ WarmupEnds(c) \/ ShouldRunInquiry(c) \/ MarkInquiryAttempt(c)
           \/ InquiryExistence(c) \/ FollowupEnds(c) \/ Choose(c)

SelectionNext == CooldownEnds \/ \E c \in Callers : SelectStep(c) \/ Cancel(c) \/ \E f \in Frames : Hear(c, f)

\* A window ends by its deadline, and an inquiry returns.
SelectionSpec ==
  /\ SelectionInit /\ [][SelectionNext]_selectionVars
  /\ \A c \in Callers : WF_selectionVars(stage[c] \notin {"idle", "done"} /\ SelectStep(c))

-----------------------------------------------------------------------------
(* Properties                                                              *)

SelectionTypeOK ==
  /\ inquiryAttempts \in Nat /\ noNew \in Nat /\ disabled \in BOOLEAN /\ cooling \in BOOLEAN /\ calls \in 0 .. setup.maxCalls
  /\ stage \in [Callers -> {"idle", "warmup", "ask", "mark", "inquire", "followup", "choose", "done"}]
  /\ cancelled \in [Callers -> BOOLEAN]
  /\ \A c \in Callers : heard[c] \in Seq(Frames) /\ Len(heard[c]) <= setup.maxFrames
  /\ before \in [Callers -> Nat]
  /\ \A c \in Callers : stage[c] = "done" <=> result[c] # "pending"
  /\ result \in [Callers -> {"pending", "selected", "config error", "context ended", "bus error", "validation error", "no source"}]
  /\ \A c \in Callers : selected[c] \in IF result[c] = "selected" THEN Rows ELSE {NoRow}

Chosen(c) == result[c] = "selected"

\* The address a call returns is nobody else's, as far as anything the call knows
\* goes: no list of the evidence, however old or however contradicted, and no two
\* frames in either window speak against it or against its companion.
SelectedUnopposed ==
  \A c \in Callers : Chosen(c) =>
    /\ \A a \in {selected[c].source, selected[c].companion} :
         /\ \A i \in DOMAIN setup.evidence : setup.evidence[i].address = a => setup.evidence[i].state \in {Unknown, Free}
         /\ Cardinality({i \in DOMAIN heard[c] : heard[c][i].source = a}) < 2
         /\ Cardinality({i \in DOMAIN heard[c] : heard[c][i].target = a}) < 2
    /\ selected[c].source = 255 =>
         \E i \in DOMAIN setup.evidence : setup.evidence[i].address = 4 /\ setup.evidence[i].state = Free

\* A hint is only a preference: a call that does not return the hinted row
\* returns the row it would have returned without the hint, or fails as it would.
HintFallsThrough ==
  \A c \in Callers : stage[c] = "done" /\ setup.hint # None /\ ConfigValid /\ setup.explicit = None
                    /\ (Chosen(c) \/ result[c] = "no source") =>
    LET rows == {row \in Rows : /\ WithPriority(row) /\ Valid(c, row)
                                /\ IF setup.description # None THEN row.description = setup.description
                                   ELSE row.source \in Range(helianthusGatewayDefaultPolicyV1)}
        order == IF setup.description # None THEN [i \in DOMAIN sourceAddressTableV1 |-> sourceAddressTableV1[i].source]
                 ELSE helianthusGatewayDefaultPolicyV1
        place(row) == CHOOSE i \in DOMAIN order : order[i] = row.source
    IN  IF rows = {} THEN result[c] = "no source"
        ELSE selected[c] \in rows /\ (selected[c].source = setup.hint \/ \A row \in rows : place(selected[c]) <= place(row))

\* Calls that run at the same time overdraw the budget of inquiries by at most
\* one each, since the check and the count are two critical sections.
InquiryBudget == inquiryAttempts <= InquiryMaxAttempts + Cardinality(Callers) - 1

\* Inquiries that find nothing switch the selector off only when its budget is
\* used up, whatever the order in which the results of concurrent calls come in.
DisabledAfterBudget == disabled => inquiryAttempts >= InquiryMaxAttempts

\* Concurrent calls keep the inquiry budget, and use it before they give inquiries up.
BudgetKept ==
  /\ InquiryBudget
  /\ DisabledAfterBudget

\* What a call returns can be used: a source of the master class with the bit
\* pattern of an initiator, whose companion is a target that frames of the source
\* may address, and back.  An explicit source is refused for its value exactly
\* when it has not that pattern.
SelectedCanSend ==
  \A c \in Callers :
    /\ Chosen(c) =>
         LET source == selected[c].source
             companion == selected[c].companion
         IN  /\ IsInitiatorCapableAddress(source) /\ FrameTypeForTarget(source) = "M2M"
             /\ ValidateFrameAddressing(FrameTypeForTarget(companion), source, companion)
             /\ Companion(source) = {companion} /\ Companion(companion) = {source}
             /\ companion = (source + 5) % 256
    /\ stage[c] = "done" /\ setup.explicit # None /\ setup.evidence = <<>> /\ heard[c] = <<>>
       /\ result[c] = "validation error" =>
         setup.explicit = 255 \/ ~IsInitiatorCapableAddress(setup.explicit)

\* What Select returns is right: unopposed, able to send, and hinted at only where
\* that makes no other difference.
SelectionInv ==
  /\ SelectionTypeOK
  /\ SelectedUnopposed
  /\ HintFallsThrough
  /\ SelectedCanSend

\* Every call returns, although the bus stays silent and the context never ends.
SelectReturns == \A c \in Callers : stage[c] = "warmup" ~> stage[c] = "done"
=============================================================================
