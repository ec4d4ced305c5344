---------------------------- MODULE MemorySystem ----------------------------
(***************************************************************************)
(* Both caches on one main memory, clocked together (ama_riscv_core_top    *)
(* and ama_riscv_mem): the instruction cache reads through its own port    *)
(* what the data cache writes back through the other.  Nothing connects    *)
(* the two caches.                                                         *)
(*                                                                         *)
(* FENCE.I is decoded and does nothing (ama_riscv_decoder.sv): here it is  *)
(* a cycle in which both caches are at rest, after which the program only  *)
(* loads and fetches.                                                      *)
(***************************************************************************)
EXTENDS DCache

CONSTANTS
  I_WAYS, Fetches, I_InitBank    \* geometry, inputs and reset of the icache

VARIABLES
  i_state, i_a_valid, i_a_tag, i_a_lru, i_bank, i_bank_data, i_cr_pend,
  i_cr_d_addr, i_new_core_req_d, i_hit_d, i_way_victim_idx_d, i_update_lru_d,
  i_lca_d, i_mem_miss_cnt, i_mem_miss_cnt_d, i_mem_transfer_done_d,
  i_way_idx_d, i_word_in_bank_line_addr, i_rsp_mem_valid, i_rsp_mem_data,
  stored,    \* the (tag, set) pairs the program has stored to
  fenced     \* it has executed FENCE.I

I == INSTANCE ICache WITH
       WAYS <- I_WAYS, InitBank <- I_InitBank,
       state <- i_state, a_valid <- i_a_valid, a_tag <- i_a_tag,
       a_lru <- i_a_lru, bank <- i_bank, bank_data <- i_bank_data,
       cr_pend <- i_cr_pend, cr_d_addr <- i_cr_d_addr,
       new_core_req_d <- i_new_core_req_d, hit_d <- i_hit_d,
       way_victim_idx_d <- i_way_victim_idx_d,
       update_lru_d <- i_update_lru_d, lca_d <- i_lca_d,
       mem_miss_cnt <- i_mem_miss_cnt, mem_miss_cnt_d <- i_mem_miss_cnt_d,
       mem_transfer_done_d <- i_mem_transfer_done_d,
       way_idx_d <- i_way_idx_d,
       word_in_bank_line_addr <- i_word_in_bank_line_addr,
       rsp_mem_valid <- i_rsp_mem_valid, rsp_mem_data <- i_rsp_mem_data

ASSUME MemorySystemAssumption ==
  /\ I_WAYS \in Nat \ {0}
  /\ Fetches \subseteq I!Fetch
  /\ Fetches # {}
  /\ I_InitBank \in [0 .. I_WAYS - 1 -> [Set -> Line]]

ms_vars == <<vars, I!cache, stored, fenced>>

MSInit == Init /\ I!Init /\ stored = {} /\ fenced = FALSE

\* A cycle in which the core does not store.
Load ==
  /\ \E r \in Requests :
       \/ LeaveReset(r) \/ Idle(r) \/ Service(r)
       \/ r.rtype = "DMEM_READ" /\ (LoadHit(r) \/ Miss(r))
  /\ I!Step
  /\ UNCHANGED <<stored, fenced>>

\* A cycle in which it does.
Store ==
  /\ ~fenced
  /\ \E r \in Requests :
       /\ r.rtype = "DMEM_WRITE"
       /\ StoreHit(r) \/ Miss(r)
       /\ stored' = stored \cup {<<r.tag, r.set>>}
  /\ I!Step
  /\ UNCHANGED fenced

\* FENCE.I passes: every earlier store has been performed, no fetch is in
\* flight, and neither cache is told.
FenceI ==
  /\ ~fenced
  /\ Outstanding = {} /\ I!Outstanding = {}
  /\ \E r \in Requests : Idle(r)
  /\ \E f \in Fetches : I!Idle(f)
  /\ fenced' = TRUE
  /\ UNCHANGED stored

MSNext == Load \/ Store \/ FenceI

MSSpec == MSInit /\ [][MSNext]_ms_vars

-----------------------------------------------------------------------------

\* The address of the fetch answered in this cycle: the one accepted last.
Fetched == i_cr_d_addr

\* Code the program does not store to is fetched as it was loaded, whatever the
\* data cache evicts and writes back next to it meanwhile.
CodeIsIntact ==
  I!rsp_core_valid /\ <<Fetched.tag, Fetched.set>> \notin stored =>
    I!rsp_core_data =
      Select(InitMem[Fetched.tag][Fetched.set][Fetched.beat], Fetched.be)

\* The write-backs of the data cache land on the lines that were stored to and
\* on no other: main memory keeps the program image everywhere else.
OnlyStoredLinesChange ==
  \A t \in Tag, s \in Set :
    <<t, s>> \notin stored => mem[t][s] = InitMem[t][s]

\* "Core supports RV32IM_zicsr_zifencei" (README.md:110): a fetch made after
\* FENCE.I returns what the core stored before it.
FenceIOrdersFetch ==
  fenced /\ I!rsp_core_valid =>
    I!rsp_core_data =
      Select(CoreView[Fetched.tag][Fetched.set][Fetched.beat], Fetched.be)

=============================================================================
