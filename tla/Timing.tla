------------------------------- MODULE Timing -------------------------------
(***************************************************************************)
(* What the two architecture models say of one instruction: its time in    *)
(* software (cycles), its time in hardware (tenths of a nanosecond) and    *)
(* whether it can be done in hardware at all                               *)
(* (src/ise/lib/common/ArchitectureVirtual.cpp, ArchitectureVirtexFx.cpp). *)
(*                                                                         *)
(* An instruction is a record                                              *)
(*    op      its class or opcode                                          *)
(*    float   an operand is of a scalar floating point type                *)
(*    const   an operand is a Constant                                     *)
(* The cases of the code for conversions and FCmp stand inside the branch  *)
(* for BinaryOperator, which these instructions are not: they are never    *)
(* reached, and such an instruction takes the time of any other.           *)
(***************************************************************************)
EXTENDS Integers, Sequences

Models == {"virtual", "virtex"}

Binary == {"Add", "Sub", "Mul", "UDiv", "SDiv", "URem", "SRem", "And", "Or", "Xor",
           "Shl", "LShr", "AShr", "FDiv", "FRem"}
Division    == {"UDiv", "SDiv", "URem", "SRem"}
FloatBinary == {"Add", "Sub", "Mul", "FDiv", "FRem"}
NoOpCast    == {"BitCast", "PtrToInt", "IntToPtr"}
FreeCast    == NoOpCast \cup {"Trunc", "ZExt", "SExt"}
Memory      == {"Store", "Load"}
Other       == {"Terminator", "Alloc", "Call", "GetElementPtr", "PHI", "FloatCast", "Select"}

Operation == Binary \cup FreeCast \cup Memory \cup {"ICmp", "FCmp"} \cup Other

Instruction == {i \in [op : Operation, float : BOOLEAN, const : BOOLEAN] :
                  i.float => i.op \in FloatBinary \cup {"FCmp", "FloatCast"}}

(* Floating point operators in software: the division of vectors, whose    *)
(* operands are not of a scalar type, is taken for an integer operation.   *)
FloatSw == [virtual |-> [Add |-> 50, Sub |-> 50, Mul |-> 100, FDiv |-> 1500, FRem |-> 1500],
            virtex  |-> [Add |-> 61, Sub |-> 55, Mul |-> 102, FDiv |-> 1581, FRem |-> 1581]]

DivisionSw == [virtual |-> 15, virtex |-> 35]

getSwInstructionTiming(m, i) ==
  CASE i.op \in Binary /\ i.float       -> FloatSw[m][i.op]
    [] i.op \in Division                -> DivisionSw[m]
    [] i.op = "Mul" /\ ~i.float         -> 5
    [] i.op \in Memory                  -> 2
    [] i.op = "Terminator"              -> 3
    [] i.op \in NoOpCast                -> 0
    [] OTHER                            -> 1

FloatHw == [virtual |-> [Add |-> 100, Sub |-> 100, Mul |-> 175, FDiv |-> 400, FRem |-> 400],
            virtex  |-> [Add |-> 75, Sub |-> 75, Mul |-> 125, FDiv |-> 340, FRem |-> 340]]

(* With a constant operand, and without.                                   *)
VirtualHw == [Add |-> <<6, 8>>, Sub |-> <<6, 8>>, Mul |-> <<35, 45>>,
              UDiv |-> <<45, 75>>, SDiv |-> <<45, 75>>,
              URem |-> <<100, 125>>, SRem |-> <<100, 125>>,
              And |-> <<6, 8>>, Or |-> <<6, 8>>, Xor |-> <<6, 8>>,
              Shl |-> <<7, 9>>, LShr |-> <<7, 9>>, AShr |-> <<7, 9>>,
              FDiv |-> <<400, 400>>, FRem |-> <<400, 400>>,
              ICmp |-> <<6, 8>>, FCmp |-> <<100, 100>>]

VirtexHw == [Add |-> <<58, 64>>, Sub |-> <<56, 64>>, Mul |-> <<115, 115>>,
             UDiv |-> <<115, 350>>, SDiv |-> <<115, 350>>,
             URem |-> <<300, 350>>, SRem |-> <<300, 350>>,
             And |-> <<33, 33>>, Or |-> <<37, 37>>, Xor |-> <<19, 34>>,
             Shl |-> <<43, 79>>, LShr |-> <<44, 94>>, AShr |-> <<44, 94>>,
             FDiv |-> <<340, 340>>, FRem |-> <<340, 340>>,
             ICmp |-> <<37, 37>>, FCmp |-> <<10, 10>>]

IntegerHw == [virtual |-> VirtualHw, virtex |-> VirtexHw]

getHwInstructionTimingFault(m, i) ==
  CASE i.op \in FreeCast                -> 0
    [] i.op \in Binary /\ i.float       -> FloatHw[m][i.op]
    [] i.op \in DOMAIN IntegerHw[m] /\ ~(i.op \in Binary /\ i.float)
                                        -> IntegerHw[m][i.op][IF i.const THEN 2 ELSE 1]
    [] OTHER                            -> 10
getHwInstructionTiming(m, i) ==
  CASE i.op \in FreeCast                -> 0
    [] i.op \in Binary /\ i.float       -> FloatHw[m][i.op]
    [] i.op \in DOMAIN IntegerHw[m] /\ ~(i.op \in Binary /\ i.float)
                                        -> IntegerHw[m][i.op][IF i.const THEN 1 ELSE 2]
    [] OTHER                            -> 10

isValidInstruction(m, i) ==
  /\ i.op \notin Memory \cup {"Terminator", "Call"}
  /\ m = "virtual" => i.op \notin {"Alloc", "GetElementPtr", "PHI"}

(* ceil(a / b) on natural numbers.                                         *)
CeilDiv(a, b) == (a + b - 1) \div b
=============================================================================
