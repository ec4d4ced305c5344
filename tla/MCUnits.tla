------------------------------ MODULE MCUnits -------------------------------
(***************************************************************************)
(* Instances of Divider, Uart, Clint and BackEnd, which share nothing: a   *)
(* behaviour is one of one unit.                                           *)
(***************************************************************************)
EXTENDS Divider, Uart, Clint, BackEnd

VARIABLE unit

AllPairs == Word \X Word
\* Full divisions of either sign, a dividend below its divisor, the overflow and a
\* division by zero.
SomePairs == {<<13, 3>>, <<3, 13>>, <<9, 6>>, <<8, 15>>, <<5, 0>>}

SomeTimes == {<<1, 2>>, <<3, 1>>}
SomeAlarms == {<<1, 3>>, <<2, 0>>}

Inst(kind, a, c, rd, pair) ==
  [kind |-> kind, a |-> a, c |-> c, rd |-> rd, pair |-> pair]
\* Of every kind; a dot product and a vector insert, whose third operand is rd;
\* pairs that begin at register 1.
SomeForms ==
  {Inst("alu", 1, 0, 1, FALSE), Inst("alu", 2, 0, 1, FALSE), Inst("alu", 1, 0, 2, FALSE),
   Inst("fmt", 1, 0, 1, TRUE), Inst("fmt", 2, 1, 1, FALSE),
   Inst("simd", 2, 0, 1, TRUE), Inst("simd", 1, 2, 2, FALSE), Inst("simd", 2, 1, 1, FALSE),
   Inst("load", 1, 0, 1, FALSE), Inst("load", 1, 0, 2, FALSE), Inst("store", 2, 0, 0, FALSE),
   Inst("div", 2, 0, 1, FALSE), Inst("branch", 1, 0, 0, FALSE),
   Inst("csr", 0, 0, 1, FALSE), Inst("csrw", 1, 0, 0, FALSE)}

UnitsInit ==
  /\ unit \in {"div", "uart", "clint", "backend"}
  /\ DividerInit /\ UartInit /\ ClintInit /\ BackEndInit
  /\ unit = "div" \/ (div_cache.b = 0 /\ div_cache.op_uns)

UnitsNext ==
  \/ unit = "div" /\ DividerNext /\ UNCHANGED <<unit, uvars, cvars, bvars>>
  \/ unit = "uart" /\ UartClock /\ UNCHANGED <<unit, dvars, cvars, bvars>>
  \/ unit = "clint" /\ ClintClock /\ UNCHANGED <<unit, dvars, uvars, bvars>>
  \/ unit = "backend" /\ BackEndClock /\ UNCHANGED <<unit, dvars, uvars, cvars>>

UnitsSpec == UnitsInit /\ [][UnitsNext]_<<unit, dvars, uvars, cvars, bvars>>

=============================================================================
