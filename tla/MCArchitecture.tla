--------------------------- MODULE MCArchitecture ---------------------------
(***************************************************************************)
(* Command lines for Architecture: each architecture name, and two values  *)
(* of every option.  An unsigned int has 1024 values: 257 transfers of two *)
(* operands are more than an int holds, and 100 MHz are no multiple.  Bus  *)
(* widths of zero, which make getExecutionOverhead divide by zero, are     *)
(* left out.                                                               *)
(***************************************************************************)
EXTENDS Architecture, FiniteSets

AllOptions ==
  [arch : {"virtual", "virtex", "powerpc"}, clk : {-1, 0, 100},
   maxCI : {-1, 3}, maxIn : {-1, 4}, maxOut : {-1, 2},
   inFree : {0, 1, 257}, outFree : {0, 2},
   inWidth : {-1, 3}, outWidth : {-1, 2}, inClk : {-1, 5}, outClk : {-1, -3}]

(* Few options at a time: each alone, or all with everything given.        *)
Default == [arch |-> "virtex", clk |-> -1, maxCI |-> -1, maxIn |-> -1, maxOut |-> -1,
            inFree |-> 0, outFree |-> 0, inWidth |-> -1, outWidth |-> -1,
            inClk |-> -1, outClk |-> -1]

SomeOptions ==
  {o \in AllOptions :
     LET given == {m \in Members : o[m] # Default[m]}
     IN  Cardinality(given) <= 2 \/ (o.clk = 100 /\ Cardinality(given) >= 8)}

Memory2 == {0, 2}
=============================================================================
