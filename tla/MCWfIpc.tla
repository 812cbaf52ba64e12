------------------------------ MODULE MCWfIpc ------------------------------
(* Each tool alone, and pairs of tools whose calls interleave, against a   *)
(* daemon in three states.                                                 *)
EXTENDS WfIpc

Daemon(enabled, caps, domain, busy) ==
    [up |-> TRUE, epoch |-> 1, detached |-> FALSE, enabled |-> enabled,
     caps |-> caps, domain |-> domain, busy |-> busy]

AllCaps == {"THREAD_COMMISSIONER", "THREAD_LINK_METRICS", "NET_THREAD_1_2",
            "THREAD_BACKBONE_ROUTER", "PEEK_POKE"}

MCConfigs == {Daemon(TRUE, AllCaps, TRUE, TRUE), Daemon(FALSE, AllCaps, FALSE, FALSE),
              Daemon(TRUE, {}, FALSE, FALSE)}

MCPlans == {<<t>> : t \in DOMAIN Tools}
           \cup {<<"reset", "set">>, <<"leave", "status">>}
=============================================================================
