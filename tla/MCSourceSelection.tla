---- MODULE MCSourceSelection ----
(* Every explicit source; evidence about the first two candidates and their
   companions under hints and filters; and concurrent calls that inquire. *)
EXTENDS SourceSelection

Plain == [explicit |-> None, hint |-> None, description |-> None, priority |-> None, evidence |-> <<>>,
          inquiry |-> FALSE, disableOnNoNew |-> FALSE, maxCalls |-> 1, maxFrames |-> 0]

Records == [address : {255, 4, 127}, state : {Free, Stale, Occupied}]
MCSetups ==
  {[Plain EXCEPT !.explicit = a] : a \in Addresses}
  \cup {[Plain EXCEPT !.hint = h, !.evidence = e] :
          h \in {None, 31, 127, 16}, e \in UNION {[1 .. n -> Records] : n \in 0 .. 2}}
  \cup {[Plain EXCEPT !.priority = p, !.description = d, !.hint = 55, !.maxFrames = 2] :
          p \in {None, 3, 4}, d \in {None, "NotPreallocated", "PC"}}
  \cup {[Plain EXCEPT !.explicit = 127, !.priority = 4]}
  \cup {[Plain EXCEPT !.inquiry = TRUE, !.disableOnNoNew = TRUE, !.maxCalls = 3, !.maxFrames = 2],
        [Plain EXCEPT !.inquiry = TRUE, !.maxCalls = 2]}
MCFrames == {[source |-> 127, target |-> 63]}
====
