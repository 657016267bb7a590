---------------------------- MODULE PlanOverlap ----------------------------
(***************************************************************************)
(* localworker/aa23_plans.go, aa23PlanOverlaps: a plan is refused when one *)
(* request could select two of its entries.  The indices of the entries    *)
(* are heapsorted in place and neighbours are compared, instead of all     *)
(* pairs.  A step is one turn of one of its loops.                         *)
(*                                                                         *)
(* A request's bytes are a number that stands for their rank in            *)
(* bytes.Compare, so 0 is the empty request.                               *)
(***************************************************************************)
EXTENDS Integers, FiniteSets

CONSTANTS PBs, SBs, Requests, Sources,   \* the field values of entries
          MaxEntries                     \* AA23MaxEntriesPerPlan

ASSUME FieldsAssumption == PBs \subseteq Nat /\ SBs \subseteq Nat /\ Requests \subseteq Nat /\ Sources \subseteq Nat /\ 0 \in Sources
ASSUME MaxEntriesAssumption == MaxEntries \in Nat \ {0}

VARIABLES
  entries,     \* the entries of the candidate, from 0
  order,       \* aa23Order, the index scratch
  pc,          \* the loop: "sift" inside aa23SiftDown, then "extract", "scan", "done"
  start,       \* aa23Start; -1 once the heap is built
  last,        \* aa23End of the extraction
  root, limit, \* of the aa23SiftDown under way
  index,       \* aa23Index of the scan
  overlaps     \* the verdict

vars == <<entries, order, pc, start, last, root, limit, index, overlaps>>

\* aa23ValidateEntry admits an entry for any source only with source 0.
Entries == {e \in [pb : PBs, sb : SBs, req : Requests, any : BOOLEAN, source : Sources] : e.any => e.source = 0}

N == Cardinality(DOMAIN entries)
Indices == 0 .. N - 1

SameKey(e, f) == e.pb = f.pb /\ e.sb = f.sb /\ e.req = f.req

OverlapLessAnyLast(e, f) ==
  \/ e.pb < f.pb
  \/ e.pb = f.pb /\ e.sb < f.sb
  \/ e.pb = f.pb /\ e.sb = f.sb /\ e.req < f.req
  \/ SameKey(e, f) /\ f.any /\ ~e.any
  \/ SameKey(e, f) /\ e.any = f.any /\ e.source < f.source
OverlapLess(e, f) ==
  \/ e.pb < f.pb
  \/ e.pb = f.pb /\ e.sb < f.sb
  \/ e.pb = f.pb /\ e.sb = f.sb /\ e.req < f.req
  \/ SameKey(e, f) /\ e.any /\ ~f.any
  \/ SameKey(e, f) /\ e.any = f.any /\ e.source < f.source

\* The entry at place i of the order.
At(i) == entries[order[i]]

Swapped(i, j) == [order EXCEPT ![i] = order[j], ![j] = order[i]]

Init ==
  /\ \E n \in 1 .. MaxEntries :
       /\ entries \in [0 .. n - 1 -> Entries]
       /\ order = [i \in 0 .. n - 1 |-> i]
       /\ start = n \div 2 - 1 /\ root = n \div 2 - 1
       /\ limit = n /\ last = n - 1
       /\ pc = IF n \div 2 > 0 THEN "sift" ELSE "extract"
  /\ index = 1 /\ overlaps = FALSE

-----------------------------------------------------------------------------

FirstChild == 2 * root + 1
LargerChild == IF FirstChild + 1 < limit /\ OverlapLess(At(FirstChild), At(FirstChild + 1))
               THEN FirstChild + 1 ELSE FirstChild

SiftsOnFirst == FirstChild < limit /\ OverlapLess(At(root), At(FirstChild))
SiftsOn == FirstChild < limit /\ OverlapLess(At(root), At(LargerChild))

\* One turn of the loop of aa23SiftDown: the root goes below its larger child.
SiftDown ==
  /\ pc = "sift" /\ SiftsOn
  /\ order' = Swapped(root, LargerChild)
  /\ root' = LargerChild
  /\ UNCHANGED <<entries, pc, start, last, limit, index, overlaps>>

\* aa23SiftDown returns to the loop that builds the heap.
BuildPastZero ==
  /\ pc = "sift" /\ start >= 0 /\ ~SiftsOn
  /\ start' = start - 1 /\ root' = start - 1
  /\ UNCHANGED <<entries, order, pc, last, limit, index, overlaps>>
BuildNext ==
  /\ pc = "sift" /\ start >= 0 /\ ~SiftsOn
  /\ start' = start - 1
  /\ root' = IF start > 0 THEN start - 1 ELSE root
  /\ pc' = IF start > 0 THEN "sift" ELSE "extract"
  /\ UNCHANGED <<entries, order, last, limit, index, overlaps>>

\* aa23SiftDown returns to the loop that takes out the largest entry.
ExtractNext ==
  /\ pc = "sift" /\ start < 0 /\ ~SiftsOn
  /\ pc' = "extract" /\ last' = last - 1
  /\ UNCHANGED <<entries, order, start, root, limit, index, overlaps>>

Extract ==
  /\ pc = "extract" /\ last > 0
  /\ order' = Swapped(0, last)
  /\ root' = 0 /\ limit' = last /\ pc' = "sift"
  /\ UNCHANGED <<entries, start, last, index, overlaps>>

Sorted ==
  /\ pc = "extract" /\ last <= 0
  /\ pc' = "scan"
  /\ UNCHANGED <<entries, order, start, last, root, limit, index, overlaps>>

\* The comparison of neighbours; an entry for any source comes first of its key.
Clash(e, f) == SameKey(e, f) /\ (e.any \/ e.source = f.source)

Scan ==
  /\ pc = "scan" /\ index < N
  /\ overlaps' = Clash(At(index - 1), At(index))
  /\ pc' = IF overlaps' THEN "done" ELSE "scan"
  /\ index' = index + 1
  /\ UNCHANGED <<entries, order, start, last, root, limit>>

ScanEnds ==
  /\ pc = "scan" /\ index >= N
  /\ pc' = "done"
  /\ UNCHANGED <<entries, order, start, last, root, limit, index, overlaps>>

Next == SiftDown \/ BuildNext \/ ExtractNext \/ Extract \/ Sorted \/ Scan \/ ScanEnds

Spec == Init /\ [][Next]_vars

-----------------------------------------------------------------------------
(* Properties                                                              *)

\* Every index stays inside the scratch, of which each loop uses a prefix.
TypeOK ==
  /\ N \in 1 .. MaxEntries /\ entries \in [Indices -> Entries]
  /\ order \in [Indices -> Indices] /\ {order[i] : i \in Indices} = Indices
  /\ pc \in {"sift", "extract", "scan", "done"}
  /\ start \in -1 .. N \div 2 - 1 /\ last \in 0 .. N - 1
  /\ limit \in 1 .. N /\ root \in -1 .. N - 1 /\ (pc = "sift" => root \in 0 .. limit - 1)
  /\ index \in 1 .. N /\ overlaps \in BOOLEAN

NotBelow(i, j) == ~OverlapLess(At(i), At(j))
\* The part of the order that the heap occupies, and its first node in order.
HeapEnd == IF pc = "sift" THEN limit ELSE IF pc = "extract" THEN last + 1 ELSE 0
HeapStart == IF start >= 0 THEN start ELSE 0
Children(i) == {2 * i + 1, 2 * i + 2} \cap 0 .. HeapEnd - 1

\* The heap is a heap except where the root is on its way down, whose children
\* its parent dominates; the places taken out are sorted and above the heap.
HeapKept ==
  /\ \A i \in HeapStart .. HeapEnd - 1 : \A c \in Children(i) :
       /\ (pc = "sift" /\ i = root) \/ NotBelow(i, c)
       /\ pc = "sift" /\ c = root => \A g \in Children(c) : NotBelow(i, g)
  /\ \A i, j \in Indices : HeapEnd <= j /\ i < j => NotBelow(j, i)

\* aa23EntriesOverlap: one request could select both entries.
EntriesOverlap(e, f) == SameKey(e, f) /\ (e.any \/ f.any \/ e.source = f.source)

\* Comparing neighbours of the sorted order finds an overlap exactly when
\* comparing all pairs does.
VerdictExact ==
  pc = "done" => (overlaps <=> \E i, j \in Indices : i # j /\ EntriesOverlap(entries[i], entries[j]))

\* AA23Match: the entries that answer a request of a source.
MatchesAnySource(e, query) == e.pb = query.pb /\ e.sb = query.sb /\ e.req = query.req
Matches(e, query) == /\ e.any \/ e.source = query.source
                     /\ e.pb = query.pb /\ e.sb = query.sb /\ e.req = query.req

\* A plan that is accepted answers each request in one way: the first entry the
\* scan of AA23Match meets is the only one, whatever the order of the entries.
AcceptedIsUnambiguous ==
  pc = "done" /\ ~overlaps =>
    \A query \in [pb : PBs, sb : SBs, req : Requests, source : Sources] :
      Cardinality({i \in Indices : Matches(entries[i], query)}) <= 1

=============================================================================
