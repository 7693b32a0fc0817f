------------------------------- MODULE Pickle -------------------------------
(***************************************************************************)
(* The pickles of queue items (pickle.rs): the encoder, and the decoder as *)
(* the stack machine it is, one step for each opcode.                      *)
(*                                                                         *)
(* A pickle is a sequence of opcodes with their arguments.  Opcodes that   *)
(* differ in how they write an argument are one here.  The decoder is fed  *)
(* what the encoder writes, what Python's pickler writes, which memoizes   *)
(* the objects it has written and refers to those it meets again, and      *)
(* other sequences of opcodes.  Integers are written in bytes of Byte      *)
(* values: the widths of the code are kept, 1, 2, 4 and 8 bytes.  The      *)
(* variables begin with pk, so that the module can be used beside others.  *)
(***************************************************************************)
EXTENDS Integers, Sequences, SequencesExt

CONSTANTS Byte,       \* values of a byte, a power of 2
          PkValues,   \* values that are pickled
          Sharing,    \* sets of kinds whose equal values are one object in Python
          PkPrograms  \* other programs the decoder is fed

ASSUME PickleAssumption == Byte \in {2, 4, 8, 256}

\* PickleValue: n tells values of a kind apart; the items of a dict are its keys and values in turn.
Val(kind, n, items) == [kind |-> kind, n |-> n, items |-> items]
NoneVal == Val("none", 0, <<>>)
IntVal(n) == Val("int", n, <<>>)

\* StackItem::Mark.
MarkItem == Val("mark", 0, <<>>)

\* An opcode, with the kind of value it is about, a number and a value.
Op(name, kind, n, value) == [name |-> name, kind |-> kind, n |-> n, value |-> value]
Simple(name) == Op(name, "", 0, NoneVal)
Of(name, kind) == Op(name, kind, 0, NoneVal)
Memo(name, n) == Op(name, "", n, NoneVal)
-----------------------------------------------------------------------------
\* Little-endian bytes of an integer in two's complement, and the integer of such bytes.
Bytes(v, width) == [x \in 1..width |-> ((v % Byte^width) \div Byte^(x - 1)) % Byte]
Unsigned(bytes) == FoldRight(LAMBDA b, rest : b + Byte * rest, bytes, 0)
Signed(bytes) ==
    IF bytes # <<>> /\ Last(bytes) >= Byte \div 2 THEN Unsigned(bytes) - Byte^Len(bytes) ELSE Unsigned(bytes)

(* long_to_bytes: the fewest bytes, of the 8 of an i64, that still have    *)
(* the sign; and the slip that drops leading bytes but not with care for   *)
(* the sign.                                                               *)
ShortestBytes(v) ==
    LET fits == {w \in 1..8 : Unsigned(Bytes(v, w)) = v \/ w = 8}
    IN  Bytes(v, CHOOSE w \in fits : \A u \in fits : w <= u)
LongToBytes(v) ==
    LET fits == {w \in 1..8 : Signed(Bytes(v, w)) = v}
    IN  Bytes(v, CHOOSE w \in fits : \A u \in fits : w <= u)

\* bytes_to_long: of more than 8 bytes the first 8 count.
BytesToLong(bytes) == Signed(SubSeq(bytes, 1, IF Len(bytes) < 8 THEN Len(bytes) ELSE 8))

\* encode_int: BININT1, BININT2, BININT or LONG1; n says whether the bytes are signed.
EncodeInt(v) ==
    LET IntOp(bytes, signed) == Op("int", "", signed, Val("bytes", 0, bytes))
    IN  IF v \in 0..(Byte - 1) THEN IntOp(Bytes(v, 1), 0)
        ELSE IF v \in 0..(Byte^2 - 1) THEN IntOp(Bytes(v, 2), 0)
        ELSE IF v \in (-(Byte^4 \div 2))..(Byte^4 \div 2 - 1) THEN IntOp(Bytes(v, 4), 1)
        ELSE IntOp(LongToBytes(v), 1)

DecodeInt(op) == IF op.n = 0 THEN Unsigned(op.value.items) ELSE BytesToLong(op.value.items)

Atom(v) == IF v.kind = "int" THEN EncodeInt(v.n) ELSE Op("push", v.kind, 0, v)

\* encode_value, which memoizes nothing.
RECURSIVE EncodeValue(_)
EncodeValue(v) ==
    LET all == FlattenSeq([x \in DOMAIN v.items |-> EncodeValue(v.items[x])])
    IN  IF v.kind = "tuple" THEN
            IF Len(v.items) \in 1..3 THEN Append(all, Memo("tuple_n", Len(v.items)))
            ELSE IF v.items = <<>> THEN <<Of("empty", "tuple")>>
            ELSE <<Simple("mark")>> \o all \o <<Of("collect", "tuple")>>
        ELSE IF v.kind \in {"list", "dict"} THEN
            <<Of("empty", v.kind)>> \o
                (IF v.items = <<>> THEN <<>> ELSE <<Simple("mark")>> \o all \o <<Of("extend", v.kind)>>)
        ELSE <<Atom(v)>>

PickleSerialize(v) == <<Simple("skip")>> \o EncodeValue(v) \o <<Simple("stop")>>
-----------------------------------------------------------------------------
(* Python's pickler: lists and dicts are memoized before their items are   *)
(* written, tuples after them.  memo is what has been written, and shared  *)
(* the kinds whose equal values are one object.                            *)
Got(x, memo) == Memo("get", (CHOOSE k \in DOMAIN memo : memo[k] = x) - 1)

RECURSIVE PyValue(_, _, _)
RECURSIVE PyAll(_, _, _)
PyAll(items, shared, memo) ==
    IF items = <<>> THEN [ops |-> <<>>, memo |-> memo]
    ELSE LET first == PyValue(Head(items), shared, memo)
             rest == PyAll(Tail(items), shared, first.memo)
         IN  [ops |-> first.ops \o rest.ops, memo |-> rest.memo]
PyValue(v, shared, memo) ==
    IF v.kind \in shared /\ v \in ToSet(memo) THEN [ops |-> <<Got(v, memo)>>, memo |-> memo]
    ELSE IF v.kind \in {"list", "dict"} THEN
        LET body == PyAll(v.items, shared, Append(memo, v))
            one == IF v.kind = "list" THEN 1 ELSE 2
        IN  [ops |-> <<Of("empty", v.kind), Memo("put", Len(memo))>> \o
                        (IF v.items = <<>> THEN <<>>
                         ELSE IF Len(v.items) = one THEN Append(body.ops, Of("extend_one", v.kind))
                         ELSE <<Simple("mark")>> \o body.ops \o <<Of("extend", v.kind)>>),
             memo |-> body.memo]
    ELSE IF v.kind = "tuple" /\ v.items # <<>> THEN
        LET body == PyAll(v.items, shared, memo)
        IN  [ops |-> (IF Len(v.items) <= 3 THEN Append(body.ops, Memo("tuple_n", Len(v.items)))
                      ELSE <<Simple("mark")>> \o body.ops \o <<Of("collect", "tuple")>>)
                        \o <<Simple("memoize")>>,
             memo |-> Append(body.memo, v)]
    ELSE IF v.kind = "tuple" THEN [ops |-> <<Of("empty", "tuple")>>, memo |-> memo]
    ELSE IF v.kind \in {"str", "bytes"} THEN
        [ops |-> <<Atom(v), Memo("put", Len(memo))>>, memo |-> Append(memo, v)]
    ELSE [ops |-> <<Atom(v)>>, memo |-> memo]

PyPickle(v, shared) == <<Simple("skip")>> \o PyValue(v, shared, <<>>).ops \o <<Simple("stop")>>
-----------------------------------------------------------------------------
VARIABLES
    pkProgram,  \* Decoder::data
    pkValue,    \* history: the value it is the pickle of, and whether it is one
    pkPos,      \* Decoder::pos, in opcodes
    pkStack,    \* Decoder::stack
    pkMemo,     \* Decoder::memo
    pkResult    \* whether decode has returned, and what

pkVars == <<pkProgram, pkValue, pkPos, pkStack, pkMemo, pkResult>>

PkRunning == [status |-> "running", value |-> NoneVal]

PkStart(program, value) ==
    /\ pkProgram = program /\ pkValue = value
    /\ pkPos = 0 /\ pkStack = <<>> /\ pkMemo = << >> /\ pkResult = PkRunning

PkIdle == PkStart(<<>>, [intact |-> FALSE, value |-> NoneVal])

PkInit ==
    \/ \E v \in PkValues : PkStart(PickleSerialize(v), [intact |-> TRUE, value |-> v])
    \/ \E v \in PkValues, shared \in Sharing : PkStart(PyPickle(v, shared), [intact |-> TRUE, value |-> v])
    \/ \E program \in PkPrograms : PkStart(program, [intact |-> FALSE, value |-> NoneVal])
-----------------------------------------------------------------------------
\* The opcode under way, and the stack below its n topmost values, if it has them.
PkOp == pkProgram[pkPos + 1]
PkAt(names) == pkResult = PkRunning /\ pkPos < Len(pkProgram) /\ PkOp.name \in names
Top(n) == SubSeq(pkStack, Len(pkStack) - n + 1, Len(pkStack))
Below(n) == SubSeq(pkStack, 1, Len(pkStack) - n)
HasValues(n) == Len(pkStack) >= n /\ \A x \in DOMAIN Top(n) : Top(n)[x] # MarkItem

\* The number of values above the most recent mark: what pop_to_mark pops.
HasMark == \E x \in DOMAIN pkStack : pkStack[x] = MarkItem
AboveMark == Len(pkStack) - SelectLastInSeq(pkStack, LAMBDA item : item = MarkItem)

\* pop_to_mark returns the items in order.
Popped(n) == Top(n)

PkContinue(stack) == pkStack' = stack /\ pkPos' = pkPos + 1 /\ UNCHANGED pkResult
PkFail == pkResult' = [PkRunning EXCEPT !.status = "error"] /\ UNCHANGED <<pkStack, pkPos>>

\* PROTO and FRAME, the constants, EMPTY_LIST, EMPTY_DICT, EMPTY_TUPLE, MARK, GLOBAL.
PkPush ==
    /\ PkAt({"skip", "push", "int", "empty", "mark", "global"})
    /\ PkContinue(pkStack \o
          (IF PkOp.name = "skip" THEN <<>>
           ELSE IF PkOp.name = "push" THEN <<PkOp.value>>
           ELSE IF PkOp.name = "int" THEN <<IntVal(DecodeInt(PkOp))>>
           ELSE IF PkOp.name = "empty" THEN <<Val(PkOp.kind, 0, <<>>)>>
           ELSE IF PkOp.name = "mark" THEN <<MarkItem>> ELSE <<NoneVal>>))
    /\ UNCHANGED pkMemo

\* LIST, DICT, TUPLE, and POP_MARK, which pushes nothing.
PkCollect ==
    /\ PkAt({"collect", "pop_mark"})
    /\ IF ~HasMark \/ (PkOp.kind = "dict" /\ AboveMark % 2 # 0) THEN PkFail
       ELSE PkContinue(Below(AboveMark + 1) \o
                (IF PkOp.name = "pop_mark" THEN <<>> ELSE <<Val(PkOp.kind, 0, Popped(AboveMark))>>))
    /\ UNCHANGED pkMemo

\* TUPLE1, TUPLE2, TUPLE3.
PkTuple ==
    /\ PkAt({"tuple_n"})
    /\ IF HasValues(PkOp.n) THEN PkContinue(Append(Below(PkOp.n), Val("tuple", 0, Top(PkOp.n)))) ELSE PkFail
    /\ UNCHANGED pkMemo

\* The n topmost values, and the mark below them if there is one, go into the list or dict below.
PkExtendBy(n, mark) ==
    LET stack == Below(n + mark)
    IN  IF stack # <<>> /\ Last(stack).kind = PkOp.kind /\ (PkOp.kind = "dict" => n % 2 = 0)
          THEN PkContinue([stack EXCEPT ![Len(stack)].items = @ \o Popped(n)])
          ELSE PkFail

\* APPENDS and SETITEMS; APPEND and SETITEM, which need no mark.
PkExtend ==
    /\ PkAt({"extend", "extend_one"})
    /\ LET n == IF PkOp.kind = "list" THEN 1 ELSE 2
       IN  IF PkOp.name = "extend" /\ HasMark THEN PkExtendBy(AboveMark, 1)
           ELSE IF PkOp.name = "extend_one" /\ HasValues(n) THEN PkExtendBy(n, 0)
           ELSE PkFail
    /\ UNCHANGED pkMemo

\* BINPUT, LONG_BINPUT, PUT and MEMOIZE: a copy of the top; nothing when it is a mark.
PkPut ==
    /\ PkAt({"put", "memoize"})
    /\ LET index == IF PkOp.name = "put" THEN PkOp.n ELSE Cardinality(DOMAIN pkMemo)
       IN  pkMemo' = IF HasValues(1)
                       THEN [k \in (DOMAIN pkMemo) \cup {index} |-> IF k = index THEN Last(pkStack) ELSE pkMemo[k]]
                       ELSE pkMemo
    /\ PkContinue(pkStack)

\* BINGET, LONG_BINGET, GET: a copy of what is in the memo.
PkGet ==
    /\ PkAt({"get"})
    /\ IF PkOp.n \in DOMAIN pkMemo THEN PkContinue(Append(pkStack, pkMemo[PkOp.n])) ELSE PkFail
    /\ UNCHANGED pkMemo

\* POP, which takes a mark too, and DUP, which does not; neither fails.
PkPop ==
    /\ PkAt({"pop", "dup"})
    /\ PkContinue(IF PkOp.name = "pop" THEN Below(IF pkStack = <<>> THEN 0 ELSE 1)
                  ELSE IF HasValues(1) THEN Append(pkStack, Last(pkStack)) ELSE pkStack)
    /\ UNCHANGED pkMemo

\* STACK_GLOBAL, REDUCE and NEWOBJ put None in the place of two values; BUILD drops one.
PkPlaceholder ==
    /\ PkAt({"reduce", "build"})
    /\ LET n == IF PkOp.name = "reduce" THEN 2 ELSE 1
       IN  IF HasValues(n) THEN PkContinue(Below(n) \o (IF n = 2 THEN <<NoneVal>> ELSE <<>>)) ELSE PkFail
    /\ UNCHANGED pkMemo

PkStop ==
    /\ PkAt({"stop"})
    /\ IF HasValues(1) THEN pkResult' = [status |-> "ok", value |-> Last(pkStack)] /\ UNCHANGED <<pkStack, pkPos>>
       ELSE PkFail
    /\ UNCHANGED pkMemo

\* The data ends, or an opcode is unknown.
PkBroken ==
    /\ pkResult = PkRunning
    /\ pkProgram # <<>> /\ (pkPos = Len(pkProgram) \/ PkAt({"unknown"}))
    /\ PkFail
    /\ UNCHANGED pkMemo

PkNext ==
    /\ \/ PkPush \/ PkCollect \/ PkTuple \/ PkExtend \/ PkPut \/ PkGet
       \/ PkPop \/ PkPlaceholder \/ PkStop \/ PkBroken
    /\ UNCHANGED <<pkProgram, pkValue>>

PkSpec == PkInit /\ [][PkNext]_pkVars
-----------------------------------------------------------------------------
\* No value has a mark inside it.
RECURSIVE Proper(_)
Proper(v) == v.kind # "mark" /\ \A x \in DOMAIN v.items : v.kind # "bytes" => Proper(v.items[x])

PkTypeOK ==
    /\ pkPos \in 0..Len(pkProgram)
    /\ \A x \in DOMAIN pkStack : pkStack[x] = MarkItem \/ Proper(pkStack[x])
    /\ \A k \in DOMAIN pkMemo : Proper(pkMemo[k])
    /\ pkResult.status \in {"running", "ok", "error"} /\ Proper(pkResult.value)

(* "Deserialize pickle bytes into a PickleValue": a value that was pickled *)
(* here or by Python is read back as it was, whatever it contains and in   *)
(* whatever depth, down to the bytes of its integers (pickle.rs:136-306,   *)
(* 309-712).                                                               *)
RoundTrips ==
    pkValue.intact => pkResult.status \in {"running", "ok"} /\ (pkResult.status = "ok" => pkResult.value = pkValue.value)
=============================================================================
