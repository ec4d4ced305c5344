-------------------------------- MODULE Clint --------------------------------
(***************************************************************************)
(* src/ama_riscv_clint.sv: the 64-bit time and its comparator, written and *)
(* read by the core half by half while the time goes on.  One step is one  *)
(* clock; an access may be held in MEM, and is then given to the CLINT in  *)
(* each clock (core.sv:867-872).                                           *)
(*                                                                         *)
(* Software (external) runs the sequences of the RISC-V manual to read the *)
(* time, to set it and to set the comparator, with at most MaxGap clocks   *)
(* between their accesses; a half of a register has few bits.              *)
(***************************************************************************)
EXTENDS Integers, Sequences

CONSTANTS
  HALF,            \* values of half a register, a power of two
  CLOCKS_PER_US,
  MaxGap, MaxWait, \* bounds: clocks between two accesses, and held in MEM
  Times, Alarms,   \* what software sets the time and the comparator to: <<hi, lo>>
  MaxPrograms      \* bound: sequences run

\* A sequence that sets the time is over before the low half carries, one that reads
\* it before the high half comes round; the low half of a new time is not all ones.
ASSUME ClintAssumption ==
  /\ HALF \in Nat \ {0} /\ CLOCKS_PER_US \in Nat \ {0}
  /\ MaxGap \in Nat /\ MaxWait \in Nat
  /\ 2 * MaxGap + MaxWait + 2 <= (HALF - 1) * CLOCKS_PER_US
  /\ 2 * MaxGap + 3 * MaxWait + 4 <= (HALF * HALF - HALF) * CLOCKS_PER_US
  /\ Times \subseteq (0 .. HALF - 1) \X (0 .. HALF - 2)
  /\ Alarms \subseteq (0 .. HALF - 1) \X (0 .. HALF - 1)

VARIABLES
  cnt_us,
  mtime, mtimecmp,  \* hi, lo
  rdata,
  clint_mem,        \* what is in MEM: [kind, reg, half, data], and the clocks it is held
  todo,             \* the rest of the sequence
  gap,              \* clocks since its last access
  reads,            \* what it has read
  rdata_due,        \* rdata is for it
  programs,         \* how many were begun
  ideal,            \* history: the time, were it set at once
  began,            \* history: ideal when the sequence that reads was issued
  target,           \* history: the comparator, were it set at once
  next              \* history: what the sequence sets, or 0

cvars == <<cnt_us, mtime, mtimecmp, rdata, clint_mem, todo, gap, reads, rdata_due,
           programs, ideal, began, target, next>>

Whole(r) == r.hi * HALF + r.lo
Modulus == HALF * HALF

NoAccess == [kind |-> "none", reg |-> "none", half |-> "lo", data |-> 0]
Access(kind, reg, half, data) == [kind |-> kind, reg |-> reg, half |-> half, data |-> data]

ReadTime == << Access("read", "mtime", "hi", 0), Access("read", "mtime", "lo", 0),
               Access("read", "mtime", "hi", 0) >>
SetTime(t) == << Access("write", "mtime", "lo", 0), Access("write", "mtime", "hi", t[1]),
                 Access("write", "mtime", "lo", t[2]) >>
SetCompare(t) == << Access("write", "mtimecmp", "lo", HALF - 1),
                    Access("write", "mtimecmp", "hi", t[1]),
                    Access("write", "mtimecmp", "lo", t[2]) >>

ClintInit ==
  /\ cnt_us = 0
  /\ mtime = [hi |-> 0, lo |-> 0]
  /\ mtimecmp = [hi |-> HALF - 1, lo |-> HALF - 1]
  /\ rdata = 0
  /\ clint_mem = [access |-> NoAccess, wait |-> 0]
  /\ todo = << >> /\ gap = 0 /\ reads = << >> /\ rdata_due = FALSE /\ programs = 0
  /\ ideal = 0 /\ began = 0
  /\ target = Modulus - 1 /\ next = 0

-----------------------------------------------------------------------------
(* The CLINT.                                                               *)

tick_us == cnt_us = CLOCKS_PER_US - 1

\* Fault: the interrupt looks at the high half of the comparator only.
mtip_high == mtime.hi >= mtimecmp.hi

mtip == Whole(mtime) >= Whole(mtimecmp)

Ticked == LET t == (Whole(mtime) + 1) % Modulus IN [hi |-> t \div HALF, lo |-> t % HALF]

Writes(reg) == clint_mem.access.kind = "write" /\ clint_mem.access.reg = reg

Written(r, reg) ==
  IF Writes(reg) THEN [r EXCEPT ![clint_mem.access.half] = clint_mem.access.data] ELSE r

\* Fault: the carry out of the low half is lost.
TimeNoCarry ==
  mtime' = Written(IF tick_us THEN [mtime EXCEPT !.lo = (@ + 1) % HALF] ELSE mtime, "mtime")

\* Fault: the tick wins over a write in the same clock.
TimeTickWins ==
  mtime' = IF tick_us THEN Ticked ELSE Written(mtime, "mtime")

\* A write wins over the tick, in its half.
Time == mtime' = Written(IF tick_us THEN Ticked ELSE mtime, "mtime")

Compare == mtimecmp' = Written(mtimecmp, "mtimecmp")

\* An access reads too when it writes.
ReadData ==
  rdata' = CASE clint_mem.access.kind = "none" -> rdata
             [] clint_mem.access.reg = "mtime" -> mtime[clint_mem.access.half]
             [] clint_mem.access.reg = "mtimecmp" -> mtimecmp[clint_mem.access.half]

-----------------------------------------------------------------------------
(* The core and the software on it.                                         *)

InMem == clint_mem.access # NoAccess
Hold == InMem /\ clint_mem.wait > 0

\* The last access of a sequence leaves MEM: what it set counts from here on.
Done(reg) == InMem /\ ~Hold /\ todo = << >> /\ Writes(reg)

Ideal ==
  /\ ideal' = IF Done("mtime") THEN next
              ELSE IF tick_us THEN (ideal + 1) % Modulus ELSE ideal
  /\ target' = IF Done("mtimecmp") THEN next ELSE target

Held ==
  /\ Hold
  /\ clint_mem' = [clint_mem EXCEPT !.wait = @ - 1]
  /\ UNCHANGED <<todo, gap, programs, began, next>>

\* An access follows another one at once only if it is not held: it is held for an
\* instruction of the data cache before it.
Issue ==
  /\ ~Hold /\ todo # << >>
  /\ \E n \in 0 .. MaxWait :
       /\ n > 0 => ~InMem
       /\ clint_mem' = [access |-> Head(todo), wait |-> n]
  /\ todo' = Tail(todo) /\ gap' = 0
  /\ began' = IF todo = ReadTime THEN ideal' ELSE began
  /\ UNCHANGED <<programs, next>>

Pause ==
  /\ ~Hold
  /\ todo # << >> => gap < MaxGap
  /\ clint_mem' = [access |-> NoAccess, wait |-> 0]
  /\ gap' = IF todo # << >> THEN gap + 1 ELSE 0
  /\ UNCHANGED <<todo, programs, began, next>>

Begin ==
  /\ ~InMem /\ todo = << >> /\ ~rdata_due /\ programs < MaxPrograms
  /\ \/ todo' = ReadTime /\ next' = 0
     \/ \E t \in Times : todo' = SetTime(t) /\ next' = t[1] * HALF + t[2]
     \/ \E t \in Alarms : todo' = SetCompare(t) /\ next' = t[1] * HALF + t[2]
  /\ programs' = programs + 1 /\ gap' = 0
  /\ UNCHANGED <<clint_mem, began>>

\* The value read is taken in WBK, a clock after MEM.
TakeRead ==
  /\ rdata_due' = (~Hold /\ clint_mem.access.kind = "read")
  /\ reads' = IF rdata_due THEN Append(reads, rdata)
              ELSE IF todo = << >> /\ ~InMem THEN << >> ELSE reads

ClintClock ==
  /\ cnt_us' = IF tick_us THEN 0 ELSE cnt_us + 1
  /\ Time /\ Compare /\ ReadData /\ Ideal /\ TakeRead
  /\ Held \/ Issue \/ Pause \/ Begin

ClintSpec == ClintInit /\ [][ClintClock]_cvars

-----------------------------------------------------------------------------
\* Software is between the first and the last access of a sequence that sets reg.
Setting(reg) == Writes(reg) \/ (todo # << >> /\ Head(todo).kind = "write"
                                            /\ Head(todo).reg = reg)

\* The time counts every microsecond, with the carry between its halves, and after
\* a sequence that sets it is what was set, whenever the ticks fell and however
\* long the writes were held in MEM.  (The exception is a low half of all ones,
\* which Times leaves out: see the README, section 5.)
TimeIsSet == ~Setting("mtime") => Whole(mtime) = ideal

\* A time that software has read, and found to have the same high half before and
\* after, was the time at some clock of the sequence.
ReadConsistent ==
  Len(reads) = 3 /\ reads[1] = reads[3] =>
    LET t == reads[3] * HALF + reads[2]
    IN  (t - began) % Modulus <= (ideal - began) % Modulus

\* The timer interrupt is pending exactly from the time of the comparator on; while
\* software sets the comparator it is never pending before both the old and the
\* new one.
TimerExact ==
  ~Setting("mtime") =>
    IF Setting("mtimecmp") THEN mtip => ideal >= target \/ ideal >= next
                           ELSE mtip <=> ideal >= target

-----------------------------------------------------------------------------
(* The inductive invariant behind the three.                                *)

Halves == 0 .. HALF - 1
Accesses == {NoAccess} \cup [kind : {"read", "write"}, reg : {"mtime", "mtimecmp"},
                             half : {"hi", "lo"}, data : Halves]

ClintTypeOK ==
  /\ cnt_us \in 0 .. CLOCKS_PER_US - 1
  /\ mtime \in [hi : Halves, lo : Halves] /\ mtimecmp \in [hi : Halves, lo : Halves]
  /\ rdata \in Halves /\ reads \in Seq(Halves) /\ rdata_due \in BOOLEAN
  /\ clint_mem \in [access : Accesses, wait : 0 .. MaxWait]
  /\ gap \in 0 .. MaxGap
  /\ ideal \in 0 .. Modulus - 1 /\ began \in 0 .. Modulus - 1
  /\ target \in 0 .. Modulus - 1 /\ next \in 0 .. Modulus - 1

\* The n-th access of the sequence p is in MEM, or has left it and no other follows yet.
Rest(p, n) ==
  CASE n = 0 -> p [] n = 1 -> <<p[2], p[3]>> [] n = 2 -> <<p[3]>> [] OTHER -> << >>
Given(p, n) == todo = Rest(p, n) /\ clint_mem.access = p[n] /\ gap = 0
Left(p, n) == todo = Rest(p, n) /\ clint_mem.access = NoAccess
NoSequence == todo = << >> /\ clint_mem.access = NoAccess

Goal == <<next \div HALF, next % HALF>>

\* Clocks since the low half of the time was zero.
LowClocks == mtime.lo * CLOCKS_PER_US + cnt_us

\* What is read, with what is on its way to WBK.
Seen == IF rdata_due THEN Append(reads, rdata) ELSE reads

\* The low half does not carry between the writes.
SetTimeInv ==
  LET p == SetTime(Goal)
  IN  /\ Goal[2] # HALF - 1 /\ Seen = << >>
      /\ \/ Left(p, 0)
         \/ Given(p, 1)
         \/ Left(p, 1) /\ gap > 0 /\ LowClocks < CLOCKS_PER_US + gap - 1
         \/ Given(p, 2) /\ LowClocks < CLOCKS_PER_US + MaxGap + MaxWait - clint_mem.wait
         \/ Left(p, 2) /\ mtime.hi = Goal[1]
              /\ LowClocks < CLOCKS_PER_US + MaxGap + MaxWait + gap
         \/ Given(p, 3) /\ mtime.hi = Goal[1]
              /\ (mtime.lo = Goal[2] \/ LowClocks <= CLOCKS_PER_US + 2 * MaxGap + MaxWait)

\* The comparator is all ones in its low half until its high half is the new one.
SetCompareInv ==
  LET p == SetCompare(Goal)
      ones == mtimecmp.lo = HALF - 1
      above == Whole(mtimecmp) >= target
  IN  /\ Seen = << >>
      /\ \/ Left(p, 0) /\ above
         \/ Given(p, 1) /\ above
         \/ Left(p, 1) /\ ones /\ above
         \/ Given(p, 2) /\ ones /\ (above \/ mtimecmp.hi = Goal[1])
         \/ Left(p, 2) /\ ones /\ mtimecmp.hi = Goal[1]
         \/ Given(p, 3) /\ mtimecmp.hi = Goal[1] /\ (ones \/ mtimecmp.lo = Goal[2])

\* Microseconds since the sequence that reads was issued, and the clocks they took.
Elapsed == (ideal - began) % Modulus
Spent(n) == Elapsed * CLOCKS_PER_US + cnt_us < CLOCKS_PER_US + n

TimeAt(e) == (began + e) % Modulus

\* The halves software has seen are those of times in the sequence, in their order.
Sampled(n) ==
  /\ Len(Seen) = n
  /\ \E a, b, c \in 0 .. Elapsed :
       /\ a <= b /\ b <= c
       /\ n >= 1 => Seen[1] = TimeAt(a) \div HALF
       /\ n >= 2 => Seen[2] = TimeAt(b) % HALF
       /\ n >= 3 => Seen[3] = TimeAt(c) \div HALF

ReadInv ==
  \/ Left(ReadTime, 0) /\ Seen = << >>
  \/ Given(ReadTime, 1) /\ Sampled(0) /\ Spent(MaxWait - clint_mem.wait)
  \/ Left(ReadTime, 1) /\ Sampled(1) /\ Spent(MaxWait + gap)
  \/ Given(ReadTime, 2) /\ Sampled(1) /\ Spent(2 * MaxWait + MaxGap + 1 - clint_mem.wait)
  \/ Left(ReadTime, 2) /\ Sampled(2) /\ Spent(2 * MaxWait + MaxGap + 1 + gap)
  \/ Given(ReadTime, 3) /\ Sampled(2) /\ Spent(3 * MaxWait + 2 * MaxGap + 2 - clint_mem.wait)
  \/ NoSequence /\ Seen = << >>
  \/ NoSequence /\ Sampled(3) /\ rdata_due /\ Spent(3 * MaxWait + 2 * MaxGap + 3)
  \/ NoSequence /\ Sampled(3) /\ ~rdata_due /\ Spent(3 * MaxWait + 2 * MaxGap + 4)

ClintInv ==
  /\ ClintTypeOK
  /\ ReadInv \/ SetTimeInv \/ SetCompareInv
  /\ Setting("mtime") \/ Whole(mtime) = ideal
  /\ Setting("mtimecmp") \/ Whole(mtimecmp) = target

=============================================================================
