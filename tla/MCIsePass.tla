----------------------------- MODULE MCIsePass -----------------------------
(***************************************************************************)
(* Modules of three blocks for IsePass: all named, or two unnamed ones in  *)
(* one function; one block may be empty.                                   *)
(***************************************************************************)
EXTENDS IsePass

Named   == <<"f_entry", "f_bb", "g_entry">>
Unnamed == <<"f_entry", "f_", "f_">>

Sizes == {<<2, 2, 1>>, <<2, 0, 2>>}

(* The first vertex takes two cycles in software, the second one; every    *)
(* pattern i cycles in hardware for the identification's object and s for  *)
(* the selection's: the same, dearer (more than a pattern takes in         *)
(* software) or cheaper.                                                   *)
Software(size)    == [b \in DOMAIN size |-> [v \in 1..size[b] |-> 3 - v]]
Hardware(size, c) == [b \in DOMAIN size |-> [p \in SUBSET (1..size[b]) |-> c]]

Program(name, size, i, s) ==
  [name |-> name, size |-> size, count |-> <<1, 3, 0>>, sw |-> Software(size),
   hw |-> [identification |-> Hardware(size, i), selection |-> Hardware(size, s)]]

MCPrograms == {Program(n, z, c[1], c[2]) : n \in {Named, Unnamed}, z \in Sizes,
                                           c \in {<<1, 1>>, <<4, 1>>, <<0, 2>>}}

Options(ser, bench, stop, alarm, est, sel) ==
  [serialization : ser, benchmark : bench, stop : stop, alarm : alarm,
   estimation : est, selection : sel]

MCOptions ==
  Options({TRUE}, {FALSE}, {TRUE, FALSE}, BOOLEAN, {TRUE}, {"method1"})
    \cup Options({FALSE}, BOOLEAN, {FALSE}, {TRUE}, {TRUE, FALSE}, {"method1", "random"})

One  == {{1}}
Both == {{1}, {2}, {1, 2}}

MCFindings == {<<One, Both, {}>>, <<Both, {}, One>>, <<{}, One, Both>>}

RandomOptions == Options({FALSE}, {FALSE}, {FALSE}, {FALSE}, {FALSE}, {"random"})
=============================================================================
