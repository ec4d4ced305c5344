------------------------------- MODULE MCCore -------------------------------
(***************************************************************************)
(* Programs for Core: nine instructions, the handler at 7.                 *)
(***************************************************************************)
EXTENDS Core

CONSTANT Families   \* the families of programs of the run

Plain(k)     == [kind |-> k, dep |-> FALSE, to |-> {}]
Dep(k)       == [kind |-> k, dep |-> TRUE, to |-> {}]
Go(k, to)    == [kind |-> k, dep |-> FALSE, to |-> to]
DepGo(k, to) == [kind |-> k, dep |-> TRUE, to |-> to]

\* A loop of three instructions with interrupts enabled; the handler returns
\* to, or past, the instruction the trap was taken at.
Loop(as, bs, cs, ds) ==
  {<<Plain("on"), a, b, c, Go("jal", {2}), Plain("op"),
     d, Plain("load"), Plain("mret")>> : a \in as, b \in bs, c \in cs, d \in ds}

Code(family) ==
  CASE family = "branches" ->
         {<<Plain("load"), DepGo("branch", {1}), Go("branch", {5}), Dep("div"),
            Go("branch", {8}), Go("jalr", {1, 4}), Plain("off"), Plain("div"),
            Plain("load")>>}
    [] family = "exceptions" ->
         Loop({Plain("load"), Dep("div"), Go("branch", {4})},
              {Go("branch", {2}), Go("branch", {5}), Plain("ecall")},
              {Plain("load"), Plain("fault"), Go("branch", {2})},
              {Plain("skip")})
    [] family = "interrupts" ->
         Loop({Plain("load"), Plain("div")},
              {DepGo("jalr", {2, 5}), Go("jal", {5}), Plain("off")},
              {Plain("load"), Dep("div")},
              {Plain("ack")})
    [] family = "sleep" ->
         Loop({Plain("wfi"), Plain("off")},
              {Plain("wfi"), Plain("div")},
              {Plain("wfi"), Plain("ack"), Plain("on")},
              {Plain("ack")})
    \* A jump on the wrong path of a branch behind a load.
    [] family = "doomed" ->
         Loop({Plain("load")}, {Go("branch", {2})}, {Go("jalr", {2, 5})},
              {Plain("skip")})
    \* Interrupts among branches.
    [] family = "crossroads" ->
         Loop({Plain("op")}, {Go("branch", {5})}, {Go("branch", {2})},
              {Plain("ack")})
    \* A wfi behind a load.
    [] family = "drowsy" ->
         Loop({Plain("load")}, {Plain("wfi")}, {Plain("op")}, {Plain("ack")})
    \* A handler that returns behind a branch.
    [] family = "return" ->
         {<<Plain("on"), Plain("ecall"), Plain("op"), Go("jal", {2}),
            Plain("op"), Plain("op"), Plain("skip"), Go("branch", {7}),
            Plain("mret")>>}

Interrupted == {"interrupts", "sleep", "crossroads", "drowsy"}
MCPrograms ==
  UNION {{[code |-> c, irqs |-> f \in Interrupted] : c \in Code(f)} :
           f \in Families}
==============================================================================
