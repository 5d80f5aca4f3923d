--------------------------- MODULE MCBlockingLoop ---------------------------
(* Two clients for model checking: one makes every call, the other wakes,  *)
(* waits and gives up (the destructor), against all of them.               *)
EXTENDS BlockingLoop

CONSTANTS c1, c2

MCClients == {c1, c2}

MCCalls ==
  [c \in MCClients |-> IF c = c1 THEN {"Prepare", "AllowSleep", "Wakeup", "Wait"} \cup StopModes
                                 ELSE {"Wakeup", "Wait", "kBlockAndGiveUp"}]
=============================================================================
