----------------------------- MODULE PowerModel -----------------------------
(***************************************************************************)
(* PowerModel of serving/core/power_model.py: the energy a node spends     *)
(* above its base power.                                                   *)
(*                                                                         *)
(* A node's power section w gives the powers npu_idle, npu_standby,        *)
(* npu_active, cpu_idle, cpu_active, dram_idle, pim_active, the tenths     *)
(* cpu_util, the energies dram_bit and link_bit of a bit moved, and        *)
(* standby_duration.  An energy e adds up what was spent in npu, cpu, dram *)
(* and link; its unit is that of a power times a time.                     *)
(***************************************************************************)
EXTENDS Integers
LOCAL INSTANCE FiniteSetsExt

NoEnergy == [npu |-> 0, cpu |-> 0, dram |-> 0, link |-> 0]

(* add_npu_active_energy_consumption: n NPUs, and the CPU that drives them *)
(* at seven tenths.                                                        *)
AddNpuActive(e, w, time, n) ==
  [e EXCEPT !.npu = @ + (w.npu_active - w.npu_idle) * time * n,
            !.cpu = @ + (w.cpu_active - w.cpu_idle) * Max({7 - w.cpu_util, 0}) * time]

(* add_dram_energy_consumption, add_link_energy_consumption *)
AddDram(e, w, bytes) == [e EXCEPT !.dram = @ + w.dram_bit * 8 * bytes]
AddLink(e, w, bytes) == [e EXCEPT !.link = @ + w.link_bit * 8 * bytes]

(* add_pim_active_energy_consumption *)
AddPimActive(e, w, time) == [e EXCEPT !.dram = @ + (w.pim_active - w.dram_idle) * time]

(* add_npu_standby_energy_consumption: the time charged to n idle NPUs.    *)
StandbyTime(w, now, last_end, last_calc) ==
  IF last_end >= last_calc THEN Min({now - last_end, w.standby_duration})
  ELSE Min({now - last_calc, Max({0, w.standby_duration - (now - last_end)})})
AddStandby(e, w, time, n) == [e EXCEPT !.npu = @ + (w.npu_standby - w.npu_idle) * time * n]

(* total_ring_data: what n ranks move together in a collective on a ring   *)
TotalRingData(bytes, n, op) == IF op = "ALLREDUCE" THEN (2 * (n - 1) * bytes) \div n
                               ELSE ((n - 1) * bytes) \div n
=============================================================================
