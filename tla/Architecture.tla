---------------------------- MODULE Architecture ----------------------------
(***************************************************************************)
(* The Architecture objects of one run of a pass: constructed, adjusted by *)
(* the command line one setter at a time, then asked for limits, for the   *)
(* cycles of a hardware time and for the cost of a transfer                *)
(* (src/ise/lib/common/Architecture.cpp, set up by ISEPass.cpp).           *)
(*                                                                         *)
(* opt, the command line, is an input of a run.  -1 stands for an integer  *)
(* option that is not given and for a member that no constructor sets; the *)
(* two members that are read without having been set start with any value  *)
(* of Leftover.  The options are int or unsigned int, the members unsigned *)
(* int, and what is computed from them wraps at Word.                      *)
(***************************************************************************)
EXTENDS Timing

CONSTANTS Word,         \* how many values an unsigned int has (2^32)
          OptionSets,   \* the command lines looked at
          Leftover      \* what uninitialized memory may hold

VARIABLES opt, pass, arch, todo
archVars == <<opt, pass, arch, todo>>

NotGiven == -1
Objects  == {"identification", "selection", "runtimes"}
Members  == {"clk", "maxCI", "maxIn", "maxOut", "inFree", "outFree",
             "inWidth", "outWidth", "inClk", "outClk"}

ASSUME WordAssumption ==
  Word \in Nat /\ Word % 2 = 0 /\ Word \div 2 > 10   \* 10: the operands looked at

ASSUME LeftoverAssumption == Leftover \subseteq 0..(Word - 1) /\ Leftover # {}

(* The values of an int, and the two conversions of C++.                   *)
IntValues     == -(Word \div 2)..(Word \div 2 - 1)
ToUnsigned(x) == x % Word
ToInt(x)      == IF ToUnsigned(x) < Word \div 2 THEN ToUnsigned(x) ELSE ToUnsigned(x) - Word

(* No bus of width zero, which the cost of a transfer divides by.          *)
IsOptions(o) ==
  /\ \A m \in Members : o[m] \in (IF m \in {"inFree", "outFree"} THEN 0..(Word - 1)
                                  ELSE IntValues)
  /\ o.inWidth # 0 /\ o.outWidth # 0

ASSUME OptionsAssumption == \A o \in OptionSets : IsOptions(o)

(***************************************************************************)
(* The calls each pass makes, in order, as <<object, call>>.               *)
(***************************************************************************)
Calls(o, calls) == [i \in DOMAIN calls |-> <<o, calls[i]>>]

Limits    == <<"clk", "maxCI", "maxIn", "maxOut">>
Transfers == <<"inFree", "outFree", "inWidth", "outWidth", "inClk", "outClk">>

Program(p) ==
  CASE p = "ise"      -> Calls("identification", <<"new">> \o Limits)
                           \o Calls("selection", <<"new">> \o Transfers)
    [] p = "ise-sel"  -> Calls("selection", <<"new">> \o Transfers)
    [] p = "runtimes" -> Calls("runtimes", <<"new">> \o Limits \o Transfers)

(* getArchitecture: any other name is reported and taken for virtual.      *)
getArchitecture == IF opt.arch = "virtex" THEN "virtex" ELSE "virtual"

DefaultClock == 100000000

(* What the constructors leave: ArchitectureVirtual sets only the clock.   *)
Constructed ==
  IF getArchitecture = "virtex"
  THEN {[clk |-> DefaultClock, maxCI |-> 7, maxIn |-> 6, maxOut |-> 1,
         inFree |-> a, outFree |-> b,
         inWidth |-> 2, outWidth |-> 1, inClk |-> 2, outClk |-> 2] :
          a \in Leftover, b \in Leftover}
  ELSE {[m \in Members |-> IF m = "clk" THEN DefaultClock ELSE NotGiven]}

ArchInit ==
  /\ opt \in OptionSets
  /\ pass \in {"ise", "ise-sel", "runtimes"}
  /\ arch = <<>>
  /\ todo = Program(pass)

Object == Head(todo)[1]
Call   == Head(todo)[2]

Returns == /\ todo' = Tail(todo)
           /\ UNCHANGED <<opt, pass>>

Construct ==
  /\ todo # <<>> /\ Call = "new"
  /\ \E s \in Constructed :
       arch' = [o \in DOMAIN arch \cup {Object} |-> IF o = Object THEN s ELSE arch[o]]
  /\ Returns

GivenFault(m) == opt[m] # 0
Given(m) == IF m \in {"inFree", "outFree"} THEN opt[m] > 0 ELSE opt[m] # NotGiven

(***************************************************************************)
(* setClockRate: the condition declares c as the value of                  *)
(*     a*mhz && c != clockRate_                                            *)
(* whose own c is not yet initialized: c is one, or zero when a*mhz is     *)
(* zero or what the memory of c held is the clock rate.                    *)
(***************************************************************************)
mhz == 10000000

setClockRate(s, a) ==
  {s} \cup IF ToUnsigned(ToUnsigned(a) * ToUnsigned(mhz)) = 0 THEN {}
           ELSE {[s EXCEPT !.clk = 1]}

ChangeClock ==
  /\ todo # <<>> /\ Call = "clk"
  /\ IF Given("clk")
     THEN \E s \in setClockRate(arch[Object], opt.clk) : arch' = [arch EXCEPT ![Object] = s]
     ELSE UNCHANGED arch
  /\ Returns

SetMemberFault(s, m, a) == [s EXCEPT ![IF m = "maxOut" THEN "maxIn" ELSE m] = ToUnsigned(a)]
SetMember(s, m, a) == [s EXCEPT ![m] = ToUnsigned(a)]

Change ==
  /\ todo # <<>> /\ Call \in Members \ {"clk"}
  /\ arch' = IF Given(Call)
             THEN [arch EXCEPT ![Object] = SetMember(arch[Object], Call, opt[Call])]
             ELSE arch
  /\ Returns

SetUp == todo = <<>>

ArchNext == Construct \/ ChangeClock \/ Change

ArchSpec == ArchInit /\ [][ArchNext]_archVars

-----------------------------------------------------------------------------
(***************************************************************************)
(* The queries; ArchitectureVirtual overrides each of them.                *)
(***************************************************************************)
Virtual == getArchitecture = "virtual"

getMaxInputs(o)             == IF Virtual THEN 8 ELSE arch[o].maxIn
getMaxOutputs(o)            == IF Virtual THEN 2 ELSE arch[o].maxOut
getMaxCustomInstructions(o) == IF Virtual THEN 16 ELSE arch[o].maxCI

(* The float constant 1e-10 is a little above 10^-10: a time that is an    *)
(* exact number of cycles is rounded up to one more.  Below 10^4 units, a  *)
(* clock below one MHz gives one cycle.                                    *)
CyclesFault(clk, hw) == (hw * (clk \div 1000000)) \div 10000
Cycles(clk, hw) == IF hw = 0 THEN 0 ELSE (hw * (clk \div 1000000)) \div 10000 + 1

convertHwToSwTiming(o, hw) == IF Virtual THEN CeilDiv(hw, 10) ELSE Cycles(arch[o].clk, hw)

(* Transfers that are paid for: what is left after the free ones is        *)
(* unsigned and put into an int, and both operands of the division are     *)
(* integers, so that ceil comes too late.                                  *)
PaidFault(n, width, free) == IF n > free THEN ToInt(n - width * free) ELSE 0
Paid(n, width, free) ==
  LET rest == ToInt(n - width * free)
  IN  IF rest > 0 THEN rest \div width ELSE 0

(* A double that is no unsigned int becomes what its low bits are, as the  *)
(* 64-bit builds have it.                                                  *)
TransferCost(n, width, free, clk) == ToUnsigned(Paid(n, width, free) * clk)

getExecutionOverhead(o, nIn, nOut) ==
  LET s == arch[o]
  IN  IF Virtual THEN CeilDiv(nIn, 4) + CeilDiv(nOut, 2)
      ELSE ToUnsigned(TransferCost(nIn, s.inWidth, s.inFree, s.inClk)
                        + TransferCost(nOut, s.outWidth, s.outFree, s.outClk))

-----------------------------------------------------------------------------
ArchTypeOK ==
  /\ opt \in OptionSets
  /\ DOMAIN arch \subseteq Objects
  /\ \A o \in DOMAIN arch : arch[o] \in [Members -> IF getArchitecture = "virtex" THEN Nat
                                                    ELSE Nat \cup {NotGiven}]
  /\ \E k \in 0..Len(Program(pass)) : todo = SubSeq(Program(pass), k + 1, Len(Program(pass)))

(***************************************************************************)
(* When a pass has set up its objects, a setting of the command line is in *)
(* force in every object the pass applies it to, no setter having undone   *)
(* another, and a member whose option is not given, or not applied to the  *)
(* object, is as the constructor left it.  Nothing is said here of a clock *)
(* whose option is given: see ClockIsOption.                               *)
(***************************************************************************)
Applied(o) == {c[2] : c \in {Program(pass)[i] : i \in {j \in DOMAIN Program(pass) :
                                                       Program(pass)[j][1] = o}}}

OptionsInForce ==
  SetUp => \A o \in DOMAIN arch, m \in Members :
    /\ m \in Applied(o) \ {"clk"} /\ Given(m) => arch[o][m] = ToUnsigned(opt[m])
    /\ m \notin Applied(o) \/ ~Given(m) => \E s \in Constructed : arch[o][m] = s[m]

(***************************************************************************)
(* As long as the operands the free transfers carry fit an int and the     *)
(* cost an unsigned int, one more operand never makes an instruction       *)
(* cheaper and makes it dearer by one transfer at the most, in each        *)
(* direction, and operands that the free transfers carry cost nothing.     *)
(***************************************************************************)
Operands == 0..9

InRange(o, nIn, nOut) ==
  LET s == arch[o]
  IN  Virtual \/ /\ s.inWidth * s.inFree < Word \div 2
                 /\ s.outWidth * s.outFree < Word \div 2
                 /\ Paid(nIn, s.inWidth, s.inFree) * s.inClk
                      + Paid(nOut, s.outWidth, s.outFree) * s.outClk < Word

CarriedFree(o, nIn, nOut) ==
  LET s == arch[o]
  IN  /\ ~Virtual
      /\ nIn <= s.inWidth * s.inFree
      /\ nOut <= s.outWidth * s.outFree

OverheadMonotone ==
  SetUp => \A o \in DOMAIN arch, i \in Operands, j \in Operands :
    LET cost == getExecutionOverhead(o, i, j)
        dearest(m) == IF Virtual THEN 1 ELSE arch[o][m]
    IN  /\ InRange(o, i + 1, j) =>
             getExecutionOverhead(o, i + 1, j) - cost \in 0..dearest("inClk")
        /\ InRange(o, i, j + 1) =>
             getExecutionOverhead(o, i, j + 1) - cost \in 0..dearest("outClk")
        /\ InRange(o, i, j) /\ CarriedFree(o, i, j) => cost = 0

(***************************************************************************)
(* The cycles given to a hardware time are at least the time it takes, and *)
(* at most one cycle more than are needed, at the default clock; a longer  *)
(* time never has fewer cycles.                                            *)
(***************************************************************************)
HwTimes == 0..420

CyclesCover ==
  SetUp => \A o \in DOMAIN arch, h \in HwTimes :
    LET unit   == IF Virtual THEN 10 ELSE 100
        cycles == convertHwToSwTiming(o, h)
    IN  /\ convertHwToSwTiming(o, h + 1) >= cycles
        /\ (Virtual \/ arch[o].clk = DefaultClock) =>
             /\ cycles * unit >= h
             /\ cycles <= CeilDiv(h, unit) + 1

(***************************************************************************)
(* The tables agree with each other: a constant operand never costs time   *)
(* in hardware, floating point is never faster than integer in either, and *)
(* what takes no time in software takes none in hardware.                  *)
(***************************************************************************)
TablesAgree ==
  \A i \in Instruction :
    LET m == getArchitecture
        with(f, c) == [i EXCEPT !.float = f, !.const = c]
    IN  /\ getHwInstructionTiming(m, with(i.float, TRUE))
               <= getHwInstructionTiming(m, with(i.float, FALSE))
        /\ i.op \in FloatBinary =>
             /\ getHwInstructionTiming(m, with(FALSE, i.const))
                  <= getHwInstructionTiming(m, with(TRUE, i.const))
             /\ getSwInstructionTiming(m, with(FALSE, i.const))
                  <= getSwInstructionTiming(m, with(TRUE, i.const))
        /\ getSwInstructionTiming(m, i) = 0 => getHwInstructionTiming(m, i) = 0

(***************************************************************************)
(* The settings a pass ends up with, and the tables it reads them for.     *)
(***************************************************************************)
SettingsInv ==
  /\ ArchTypeOK
  /\ OptionsInForce
  /\ TablesAgree

(***************************************************************************)
(* ISEPass.cpp:120-122: -ise-archi-max-ci is to "Overwrite max number of   *)
(* custom_instruction".  Only the selection asks for that number, and it   *)
(* asks another object than the one that was told.                         *)
(***************************************************************************)
MaxCIOverwritten ==
  SetUp /\ pass = "ise" /\ Given("maxCI") =>
    getMaxCustomInstructions("selection") = opt.maxCI

(***************************************************************************)
(* ISEPass.cpp:115-117: -ise-arch-comm-clk is the "CI Clock frequency      *)
(* [MHz]".                                                                 *)
(***************************************************************************)
ClockIsOption ==
  SetUp /\ pass \in {"ise", "runtimes"} /\ opt.clk > 0 =>
    \A o \in DOMAIN arch \ {"selection"} : arch[o].clk = opt.clk * 1000000

(***************************************************************************)
(* ISEPass.cpp:91-97: when nothing is said, no transfer is for free        *)
(* ("How many input transactions are for free (def. 0)").                  *)
(***************************************************************************)
NoneFreeByDefault ==
  SetUp /\ ~Virtual =>
    \A o \in DOMAIN arch, m \in {"inFree", "outFree"} :
      opt[m] = 0 => arch[o][m] = 0

(***************************************************************************)
(* Architecture.cpp:105: "do not count first CommNoInOverhead transfers";  *)
(* operands that are all carried by these cost nothing.                    *)
(***************************************************************************)
FreeTransfersAreFree ==
  SetUp => \A o \in DOMAIN arch, i \in Operands, j \in Operands :
    CarriedFree(o, i, j) => getExecutionOverhead(o, i, j) = 0

(***************************************************************************)
(* Architecture.cpp:105 and 107: all transfers but the free ones are       *)
(* counted ("do not count first CommNoInOverhead transfers", "count        *)
(* rest"), and a transfer moves as many operands as the bus is wide.       *)
(***************************************************************************)
RestIsCounted ==
  SetUp /\ ~Virtual =>
    \A o \in DOMAIN arch, i \in Operands :
      (Paid(i, arch[o].inWidth, arch[o].inFree) + arch[o].inFree) * arch[o].inWidth >= i

(***************************************************************************)
(* ArchitectureVirtexFx.cpp:149: a hardware unit is "1/10th of a           *)
(* nanosecond"; a time of a whole number of cycles takes that many.        *)
(***************************************************************************)
WholeCyclesExact ==
  SetUp /\ ~Virtual =>
    \A o \in DOMAIN arch, n \in 1..4 :
      arch[o].clk = DefaultClock => convertHwToSwTiming(o, 100 * n) = n
=============================================================================
