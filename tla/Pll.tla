--------------------------------- MODULE Pll ---------------------------------
(***************************************************************************)
(* script/artix_7_pll_config.py, for the 100 MHz oscillator: a search for  *)
(* the multiplier and the divider that give each CPU frequency exactly,    *)
(* with the fastest VCO; fpga/ama_riscv_fpga_clk_gen.sv holds its results. *)
(*                                                                         *)
(* The script computes in floating point: Rounded is the set of pairs for  *)
(* which its quotient is not exact.  The inner loop, over the dividers, is *)
(* one step: at most one of them gives the frequency.                      *)
(***************************************************************************)
EXTENDS Naturals, Sequences

CONSTANT Rounded

VARIABLES
  mult,        \* the multiplier the loop is at
  best,        \* the pair printed so far for this frequency: <<mult, div>>, or << >>
  printed      \* the best of each frequency before it

pvars == <<mult, best, printed>>

t_mhz_list == <<50, 55, 60, 65, 70, 75, 80, 90, 100>>
clkfbout_mult_range == 2 .. 63
clk_dout0_divide_range == 1 .. 127

\* Fault: the end of the range is taken to be in it.
vco_range_closed == 800 .. 1600

vco_range == 800 .. 1599

vco(m) == m * 100
Gives(m, d, t) == m * 100 = t * d /\ <<m, d>> \notin Rounded

\* ama_riscv_fpga_clk_gen.sv, CLKFBOUT_MULT and CLKOUT0_DIVIDE for the Arty board.
Table == << <<15, 30>>, <<11, 20>>, <<15, 25>>, <<13, 20>>, <<14, 20>>, <<15, 20>>,
            <<12, 15>>, <<9, 10>>, <<15, 15>> >>

PllInit == mult = 2 /\ best = << >> /\ printed = << >>

Searching == Len(printed) < Len(t_mhz_list)
t_mhz == t_mhz_list[Len(printed) + 1]

Fits(d) == Gives(mult, d, t_mhz) /\ vco(mult) \in vco_range

Better == best # << >> => vco(mult) > vco(best[1])

TryMult ==
  /\ Searching /\ mult \in clkfbout_mult_range
  /\ mult' = mult + 1
  /\ \/ \E d \in clk_dout0_divide_range : Fits(d) /\ Better /\ best' = <<mult, d>>
     \/ ~Better /\ UNCHANGED best
     \/ (\A d \in clk_dout0_divide_range : ~Fits(d)) /\ UNCHANGED best
  /\ UNCHANGED printed

PrintBest ==
  /\ Searching /\ mult \notin clkfbout_mult_range
  /\ printed' = Append(printed, best)
  /\ mult' = 2 /\ best' = << >>

PllNext == TryMult \/ PrintBest

PllSpec == PllInit /\ [][PllNext]_pvars

-----------------------------------------------------------------------------
\* The table of the RTL is what the script prints, and each entry of it gives its
\* frequency: 55 MHz too, for which rounding hides every pair from the script.
TableFromScript ==
  \A k \in DOMAIN printed :
    /\ Table[k][1] * 100 = t_mhz_list[k] * Table[k][2]
    /\ printed[k] \in {Table[k], << >>}
    /\ printed[k] = << >> => Table[k] \in Rounded

=============================================================================
