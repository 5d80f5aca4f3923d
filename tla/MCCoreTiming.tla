---------------------------- MODULE MCCoreTiming ----------------------------
(* The instance of CoreTiming for model checking. *)
EXTENDS CoreTiming

MCDelays == {-1, 1, 3}

\* m_OCFactor 2 and 1/2
MCFactors == {<<2, 1>>, <<1, 2>>}

\* 486 MHz over 729 MHz
MCRatio == <<2, 3>>

\* Bound: a session that has saved its state or changed the PPC clock is followed up to the
\* third cycle, at the lower clock, while it neither idles, steps nor restarts and no other
\* thread schedules.
MCBound ==
  phase = "saving" \/ state # NoState \/ s_cpu_core_clock = "GC" =>
    /\ s_last_OC_factor = <<1, 2>> /\ s_idled_cycles = 0 /\ caller = "Run"
    /\ phase # "off" /\ global_timer <= 3
    /\ s_ts_queue = <<>> /\ ts_writer = NoEvent
=============================================================================
