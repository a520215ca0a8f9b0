------------------------------ MODULE MisoCover ------------------------------
(***************************************************************************)
(* What AlgoMaxMiso promises, without its walk: the graph is taken apart   *)
(* one maximal MISO, or one invalid vertex, at a time, until nothing is    *)
(* left.  Every MISO is offered as a pattern once.                         *)
(***************************************************************************)
EXTENDS Miso

VARIABLES dfg, benchmark, left, offered

coverVars == <<dfg, benchmark, left, offered>>

CoverInit ==
  /\ IsDFG(dfg)
  /\ benchmark \in BOOLEAN
  /\ left = dfg.node
  /\ offered = {}

Discard(v) ==
  /\ Invalid(dfg, v)
  /\ left' = left \ {v}
  /\ UNCHANGED <<dfg, benchmark, offered>>

TakeMiso(M) ==
  /\ M \in MaximalMisos(dfg)
  /\ left' = left \ M
  /\ offered' = offered \cup Offered(M, benchmark)
  /\ UNCHANGED <<dfg, benchmark>>

CoverNext == \/ \E v \in left : Discard(v)
             \/ \E M \in (SUBSET left) \ {{}} : TakeMiso(M)

CoverSafety == CoverInit /\ [][CoverNext]_coverVars
CoverSpec   == CoverSafety /\ WF_coverVars(CoverNext)

(* Nothing of the graph is forgotten. *)
Covered == left = {}
=============================================================================
