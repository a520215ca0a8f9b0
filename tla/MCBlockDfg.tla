----------------------------- MODULE MCBlockDfg -----------------------------
(***************************************************************************)
(* Basic blocks for BlockDfg: two instructions and a terminator with all   *)
(* operands there can be, and a loop of a phi and two instructions.        *)
(***************************************************************************)
EXTENDS BlockDfg

Here(k) == <<"here", k>>
Arg   == <<"argument", 1>>
Const == <<"constant", 1>>
Else  == <<"elsewhere", 1>>

UpTo2(S) == {<<x>> : x \in S} \cup {<<x, y>> : x \in S, y \in S}
I(kinds, ops) == {[kind |-> k, ops |-> o] : k \in kinds, o \in ops}

(* Nobody uses a store, and phis come first.                               *)
WellFormed(b) ==
  LET k(n) == b.insts[n].kind
      used == {n \in DOMAIN b.insts : \E m \in DOMAIN b.insts :
                 \E j \in DOMAIN b.insts[m].ops : b.insts[m].ops[j] = Here(n)}
  IN  /\ \A n \in used \cup b.outside : k(n) # "store"
      /\ \A n \in DOMAIN b.insts : n > 1 /\ k(n) = "phi" => k(n - 1) = "phi"

Ends(n) == I({"terminator"}, {<<>>} \cup {<<Here(m)>> : m \in 1..n})

Straight ==
  {b \in [insts : {<<a, c, t>> : a \in I({"other"}, UpTo2({Arg, Const, Else})),
                                 c \in I({"store", "other"}, UpTo2({Arg, Const, Here(1)})),
                                 t \in Ends(2)},
          outside : {{}, {1}, {2}}] : WellFormed(b)}

Loop ==
  {b \in [insts : {<<p, a, c, t>> :
                     p \in I({"phi"}, {<<Arg, Here(m)>> : m \in 1..3}),
                     a \in I({"other"}, UpTo2({Const, Here(1)})),
                     c \in I({"store", "other"}, UpTo2({Const, Here(1), Here(2)})),
                     t \in Ends(3)},
          outside : {{}, {2}}] : WellFormed(b)}

SmallBlocks == Straight \cup Loop

(* A call of inline assembly: its callee is no Constant.                   *)
AsmBlocks ==
  {[insts |-> <<[kind |-> "other", ops |-> <<Arg, <<"asm", 1>>>>],
                [kind |-> "terminator", ops |-> <<>>]>>, outside |-> {}]}
=============================================================================
