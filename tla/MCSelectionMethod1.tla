------------------------- MODULE MCSelectionMethod1 -------------------------
EXTENDS SelectionMethod1

CONSTANTS b1, b2

(* One candidate that is profitable for each pattern and value, and one    *)
(* for each reason to drop it: too many inputs, no software cycles, slower *)
(* in hardware.                                                            *)
Good(p, v) == [pattern |-> p, num_inputs |-> 2, sw |-> 3, hw |-> 2, value |-> v]
Dropped(p) == {[pattern |-> p, num_inputs |-> 3, sw |-> 3, hw |-> 2, value |-> 2],
               [pattern |-> p, num_inputs |-> 2, sw |-> 0, hw |-> 0, value |-> 2],
               [pattern |-> p, num_inputs |-> 2, sw |-> 2, hw |-> 2, value |-> 2]}

Patterns == {{1}, {1, 2}, {2, 3}, {3}}
Values   == 1..2

(* Sequences of at most three candidates with distinct patterns. *)
ManyCandidates ==
  UNION {{s \in [1..n -> {Good(p, v) : p \in Patterns, v \in Values}] :
            \A i, j \in 1..n : i # j => s[i].pattern # s[j].pattern} : n \in 0..3}

FewCandidates ==
  {<<>>} \cup {<<c>> : c \in {Good({1}, v) : v \in Values} \cup Dropped({1})}
         \cup {<<c, Good({2}, v)>> : c \in Dropped({1}), v \in Values}

(* Both blocks are listed; the second may have no candidates at all. *)
CandidateMaps ==
  {[b \in {b1} |-> s] : s \in ManyCandidates}
  \cup {[b \in {b1, b2} |-> IF b = b1 THEN s ELSE t] :
          s \in ManyCandidates, t \in FewCandidates}

MCInputs ==
  {[prof |-> <<b1, b2>>, candidates |-> m, maxInputs |-> 2, maxCI |-> n] :
     m \in CandidateMaps, n \in 0..3}

MCBlocks == {b1, b2}
=============================================================================
