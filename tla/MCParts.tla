------------------------------- MODULE MCParts -------------------------------
(***************************************************************************)
(* The scripts of MCTools and both caches on one memory, which share       *)
(* nothing: a behaviour is one of either; the other stays at one initial   *)
(* state.                                                                  *)
(***************************************************************************)
EXTENDS MCTools, MCMemorySystem

VARIABLE part

\* ms_vars, with the variables of the instruction cache by name.
memory == <<vars, i_state, i_a_valid, i_a_tag, i_a_lru, i_bank, i_bank_data,
            i_cr_pend, i_cr_d_addr, i_new_core_req_d, i_hit_d,
            i_way_victim_idx_d, i_update_lru_d, i_lca_d, i_mem_miss_cnt,
            i_mem_miss_cnt_d, i_mem_transfer_done_d, i_way_idx_d,
            i_word_in_bank_line_addr, i_rsp_mem_valid, i_rsp_mem_data,
            stored, fenced>>

PartsInit ==
  /\ part \in {"scripts", "memory"}
  /\ ToolsInit /\ (part = "scripts" \/ tool = "pll")
  /\ MSInit

PartsNext ==
  \/ part = "scripts" /\ ToolsNext /\ UNCHANGED <<part, memory>>
  \/ part = "memory" /\ MSNext /\ UNCHANGED <<part, tvars>>

all_vars == <<part, tvars, memory>>

\* The driver run_synt.py and its workers do not stop.
PartsSpec ==
  /\ PartsInit /\ [][PartsNext]_all_vars
  /\ WF_all_vars(part = "scripts" /\ Others("synt") /\ SyntNext /\ UNCHANGED <<part, memory>>)

=============================================================================
