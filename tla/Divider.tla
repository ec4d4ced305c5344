------------------------------- MODULE Divider -------------------------------
(***************************************************************************)
(* src/ama_riscv_div.sv: a restoring divider that starts at the first bit  *)
(* that matters, ends at once in four special cases and keeps the quotient *)
(* and the remainder of its last full division.  One step is one clock.    *)
(*                                                                         *)
(* A word is a number below 2^W.  The core starts a division when none is  *)
(* under way and takes the result when the divider is idle again (core.sv  *)
(* 543-557); a flush ends it at any clock.                                 *)
(***************************************************************************)
EXTENDS Integers, FiniteSets

CONSTANTS
  W,            \* bits of a word, a power of two
  First,        \* the operands of the first division, pairs of words
  Later,        \* the operands of those after it
  MaxDivisions  \* bound: how many are started

VARIABLES
  div_state,        \* "IDLE", "SETUP", "ITER" or "FIXUP"
  setup,            \* the request: a, b, op_rem, op_uns
  ds,               \* the registers of the division under way, and its result
  div_cache,        \* a, b, op_uns, quot, rem
  div_cache_valid,
  asked,            \* the request whose result the core waits for, or NoRequest
  divisions         \* how many were started

dvars == <<div_state, setup, ds, div_cache, div_cache_valid, asked, divisions>>

Word == 0 .. 2^W - 1

ASSUME DividerAssumption ==
  /\ W \in Nat \ {0}
  /\ First \subseteq Word \X Word /\ Later \subseteq Word \X Word

Neg(x) == (2^W - x) % 2^W
Requests(operands) ==
  {[a |-> p[1], b |-> p[2], op_rem |-> r, op_uns |-> u] :
     p \in operands, r \in BOOLEAN, u \in BOOLEAN}
NoRequest == [a |-> 0, b |-> 0, op_rem |-> FALSE, op_uns |-> FALSE]
Nothing == [no |-> "request"]

-----------------------------------------------------------------------------
(* Start conditions.                                                        *)

Negative(x, r) == ~r.op_uns /\ x >= 2^(W - 1)
Abs(x, r) == IF Negative(x, r) THEN Neg(x) ELSE x
abs_a(r) == Abs(r.a, r)
abs_b(r) == Abs(r.b, r)
quot_neg(r) == Negative(r.a, r) # Negative(r.b, r)

rem_neg(r) == Negative(r.a, r)
div_by_zero(r) == r.b = 0
overflow(r) == ~r.op_uns /\ r.a = 2^(W - 1) /\ r.b = 2^W - 1

\* Leading zeros; of 0 the circuit gives W - 1, and says that it is empty.
cnt(x) == IF x = 0 THEN W - 1 ELSE CHOOSE n \in 0 .. W - 1 : x \div 2^(W - 1 - n) = 1

skip(r) == cnt(abs_a(r)) + (W - cnt(abs_b(r)) - 1)
iter_count(r) == W - skip(r)

-----------------------------------------------------------------------------
(* Special cases.                                                           *)

less_than_divisor(r) == ~div_by_zero(r) /\ abs_a(r) < abs_b(r)

pow2(r) ==
  /\ ~less_than_divisor(r)
  /\ \E k \in 0 .. W - 1 : abs_b(r) = 2^k

Special(r) == div_by_zero(r) \/ overflow(r) \/ less_than_divisor(r) \/ pow2(r)

Signed(x, negative) == IF negative THEN Neg(x) ELSE x

special_quot(r) ==
  CASE div_by_zero(r) -> 2^W - 1
    [] ~div_by_zero(r) /\ overflow(r) -> r.a
    [] ~div_by_zero(r) /\ ~overflow(r) /\ less_than_divisor(r) -> 0
    [] OTHER -> Signed(abs_a(r) \div abs_b(r), quot_neg(r))

special_rem(r) ==
  CASE div_by_zero(r) -> r.a
    [] ~div_by_zero(r) /\ overflow(r) -> 0
    [] ~div_by_zero(r) /\ ~overflow(r) /\ less_than_divisor(r) -> r.a
    [] OTHER -> Signed(abs_a(r) % abs_b(r), rem_neg(r))

-----------------------------------------------------------------------------
DividerInit ==
  /\ div_state = "IDLE"
  /\ setup = NoRequest
  /\ ds = [result |-> 0, dividend |-> 0, divisor |-> 0, quot |-> 0, rem |-> 0,
           iter_count |-> 0, op_rem |-> FALSE, quot_neg |-> FALSE, rem_neg |-> FALSE]
  \* The entry is not reset: it may hold anything.
  /\ div_cache \in [a : {0}, b : {0, 2^W - 1}, op_uns : BOOLEAN, quot : {2^W - 1},
                    rem : {2^W - 1}]
  /\ div_cache_valid = FALSE
  /\ asked = Nothing /\ divisions = 0

Operands == IF divisions = 0 THEN First ELSE Later

Idle == div_state = "IDLE"

start_div_cache_hit(r) ==
  /\ div_cache_valid
  /\ r.a = div_cache.a /\ r.b = div_cache.b /\ r.op_uns = div_cache.op_uns

\* The core's start: nothing is waited for.
Start(r) ==
  /\ Idle /\ asked = Nothing /\ divisions < MaxDivisions
  /\ asked' = r /\ divisions' = divisions + 1

Hit ==
  \E r \in Requests(Operands) :
    /\ Start(r) /\ start_div_cache_hit(r)
    /\ ds' = [ds EXCEPT !.result = IF r.op_rem THEN div_cache.rem ELSE div_cache.quot]
    /\ UNCHANGED <<div_state, setup, div_cache, div_cache_valid>>

Miss ==
  \E r \in Requests(Operands) :
    /\ Start(r) /\ ~start_div_cache_hit(r)
    /\ div_state' = "SETUP" /\ setup' = r
    /\ UNCHANGED <<ds, div_cache, div_cache_valid>>

SetupSpecial ==
  /\ div_state = "SETUP" /\ Special(setup)
  /\ div_state' = "IDLE"
  /\ ds' = [ds EXCEPT !.result = IF setup.op_rem THEN special_rem(setup)
                                                 ELSE special_quot(setup)]
  /\ UNCHANGED <<setup, div_cache, div_cache_valid, asked, divisions>>

SetupRegisters(valid) ==
  /\ div_state = "SETUP" /\ ~Special(setup)
  /\ div_state' = "ITER"
  /\ ds' = [ds EXCEPT
       !.dividend = (abs_a(setup) * 2^skip(setup)) % 2^W,
       !.divisor = abs_b(setup),
       !.quot = 0,
       !.rem = abs_a(setup) \div 2^iter_count(setup),
       !.iter_count = iter_count(setup),
       !.op_rem = setup.op_rem,
       !.quot_neg = quot_neg(setup),
       !.rem_neg = rem_neg(setup)]
  /\ div_cache' = [div_cache EXCEPT !.a = setup.a, !.b = setup.b, !.op_uns = setup.op_uns]
  /\ div_cache_valid' = valid
  /\ UNCHANGED <<setup, asked, divisions>>

\* Fault: the old result stays valid under the new operands.
SetupIterKeepValid == SetupRegisters(div_cache_valid)

SetupIter == SetupRegisters(FALSE)

Iterate ==
  /\ div_state = "ITER"
  /\ LET shifted == 2 * ds.rem + ds.dividend \div 2^(W - 1)
         subtract == shifted >= ds.divisor
     IN  ds' = [ds EXCEPT
           !.dividend = (2 * @) % 2^W,
           !.quot = (2 * @ + IF subtract THEN 1 ELSE 0) % 2^W,
           !.rem = (IF subtract THEN shifted - ds.divisor ELSE shifted) % 2^W,
           !.iter_count = @ - 1]
  /\ div_state' = IF ds.iter_count = 1 THEN "FIXUP" ELSE "ITER"
  /\ UNCHANGED <<setup, div_cache, div_cache_valid, asked, divisions>>

quot_fixed == Signed(ds.quot, ds.quot_neg)
rem_fixed == Signed(ds.rem, ds.rem_neg)

Fixup ==
  /\ div_state = "FIXUP"
  /\ div_state' = "IDLE"
  /\ ds' = [ds EXCEPT !.result = IF ds.op_rem THEN rem_fixed ELSE quot_fixed]
  /\ div_cache' = [div_cache EXCEPT !.quot = quot_fixed, !.rem = rem_fixed]
  /\ div_cache_valid' = TRUE
  /\ UNCHANGED <<setup, asked, divisions>>

\* The registers keep what they have; the core no longer waits.
Flush ==
  /\ asked # Nothing
  /\ div_state' = "IDLE" /\ asked' = Nothing
  /\ UNCHANGED <<setup, ds, div_cache, div_cache_valid, divisions>>

\* The core's instruction leaves EXE with the result.
TakeResult ==
  /\ Idle /\ asked # Nothing
  /\ asked' = Nothing
  /\ UNCHANGED <<div_state, setup, ds, div_cache, div_cache_valid, divisions>>

DividerNext ==
  \/ Hit \/ Miss \/ SetupSpecial \/ SetupIter \/ Iterate \/ Fixup \/ Flush \/ TakeResult

DividerSpec == DividerInit /\ [][DividerNext]_dvars

-----------------------------------------------------------------------------
\* What DIV, DIVU, REM and REMU give: the quotient is rounded towards zero, the
\* remainder has the sign of the dividend; division by zero and the signed
\* overflow have results of their own.
Value(x, r) == IF Negative(x, r) THEN x - 2^W ELSE x
Quotient(r) ==
  LET a == Value(r.a, r)  b == Value(r.b, r)
  IN  IF b = 0 THEN -1
      ELSE CHOOSE q \in -(2^W) .. 2^W :
             LET rest == a - q * b IN
               /\ rest * rest < b * b
               /\ rest = 0 \/ (rest > 0 <=> a > 0)
Remainder(r) ==
  IF r.b = 0 THEN r.a ELSE (Value(r.a, r) - Quotient(r) * Value(r.b, r)) % 2^W

Reference(r) == IF r.op_rem THEN Remainder(r) ELSE Quotient(r) % 2^W

\* The result the core takes is that of RV32M for its own operands and operation,
\* with the normalised start, in the special cases, from the cache, and after a
\* flush of another division.
ResultRight == Idle /\ asked # Nothing => ds.result = Reference(asked)

-----------------------------------------------------------------------------
(* The inductive invariant behind it.                                       *)

DividerTypeOK ==
  /\ div_state \in {"IDLE", "SETUP", "ITER", "FIXUP"}
  /\ setup \in Requests(Word \X Word)
  /\ ds \in [result : Word, dividend : Word, divisor : Word, quot : Word, rem : Word,
             iter_count : 0 .. W, op_rem : BOOLEAN, quot_neg : BOOLEAN, rem_neg : BOOLEAN]
  /\ div_cache \in [a : Word, b : Word, op_uns : BOOLEAN, quot : Word, rem : Word]
  /\ div_cache_valid \in BOOLEAN

\* The i low bits of the dividend are still to come, and stand at the top of their
\* register; what the bits before them amount to is divided.
Divided(r, i) ==
  /\ ds.rem < abs_b(r)
  /\ \E low \in 0 .. 2^i - 1 :
       /\ abs_a(r) = (ds.quot * abs_b(r) + ds.rem) * 2^i + low
       /\ ds.dividend = low * 2^(W - i)

\* The registers are those of the request under way, and so are the operands in the
\* cache, whose entry is not valid.
Underway(r) ==
  /\ ~Special(r) /\ ~div_cache_valid
  /\ ds.divisor = abs_b(r) /\ ds.op_rem = r.op_rem
  /\ ds.quot_neg = quot_neg(r) /\ ds.rem_neg = rem_neg(r)
  /\ div_cache.a = r.a /\ div_cache.b = r.b /\ div_cache.op_uns = r.op_uns
  /\ ds.iter_count = 0 <=> div_state = "FIXUP"
  /\ Divided(r, ds.iter_count)

CachedRequest ==
  [a |-> div_cache.a, b |-> div_cache.b, op_rem |-> FALSE, op_uns |-> div_cache.op_uns]

DividerInv ==
  /\ DividerTypeOK
  /\ ~Idle => asked = setup
  /\ div_state \in {"ITER", "FIXUP"} => Underway(setup)
  /\ div_cache_valid =>
       /\ div_cache.quot = Quotient(CachedRequest) % 2^W
       /\ div_cache.rem = Remainder(CachedRequest)
  /\ ResultRight

=============================================================================
