------------------------------ MODULE MCPickle ------------------------------
(* Values and programs for Pickle: integers around the limits of the       *)
(* widths, collections of them in each other, and short sequences of       *)
(* opcodes that nobody wrote.                                              *)
EXTENDS Pickle

Str == Val("str", 1, <<>>)

MCAtoms == {NoneVal, Str, IntVal(1)}

\* With four values of a byte: around the limits of 1 to 8 bytes, signed and not.
MCInts == {IntVal(n + d) : n \in {0, 2, 4, 8, 16, 32, 64, 128, 256, 512, 1024, 2048, 8192, 32767} \cup
                                 {-2, -4, -8, -32, -128, -512, -2048, -8192, -32767}, d \in {-1, 0}}

MCFlat ==
    {Val(kind, 0, items) : kind \in {"list", "tuple"}, items \in UNION {[1..k -> MCAtoms] : k \in 0..2}} \cup
    {Val("dict", 0, <<Str, IntVal(1)>>), Val("dict", 0, <<Str, IntVal(1), IntVal(2), NoneVal>>),
     Val("tuple", 0, <<NoneVal, IntVal(1), IntVal(2)>>), Val("tuple", 0, <<NoneVal, IntVal(1), NoneVal, IntVal(2)>>)}

MCNested == {Val(kind, 0, items) : kind \in {"list", "tuple", "dict"}, items \in [1..2 -> MCFlat]}

MCValues == MCAtoms \cup MCInts \cup MCFlat \cup MCNested

\* In Python equal strings and tuples may be one object; that lists may is what MCShareLists adds.
MCShare == {{}, {"str", "tuple"}}
MCShareLists == {{"list"}}

MCOps ==
    {Simple(name) : name \in {"mark", "pop", "dup", "pop_mark", "reduce", "build", "global", "unknown", "stop", "memoize"}} \cup
    {Memo("get", 0), Memo("tuple_n", 2), Of("collect", "dict")} \cup
    {Of(name, kind) : name \in {"empty", "extend", "extend_one"}, kind \in {"list", "dict"}}

MCPrograms == UNION {[1..k -> MCOps] : k \in 0..3}
=============================================================================
