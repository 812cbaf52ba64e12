------------------------------ MODULE MCWfCore ------------------------------
(* Small instances of WfCore: which calls are made, with how many toggles  *)
(* of Daemon:Enabled, openings and closings of a packet capture, notices   *)
(* of the NCP and faults of the NCP or of the line.                        *)
EXTENDS WfCore

MCOptions == [form |-> {}, join |-> {"NodeType"}, joiner_start |-> {"PSKd"},
              joiner_attach |-> {}, scan |-> {"Discover"}]
MCCapabilities == {"ROLE_ROUTER", "CONFIG_FTD"}

\* The first and the last of the five.
MCInfo == <<"GET_LADDR", "GET_ADDRESS_TABLE">>

MCNotices == {[v |-> "is_saved", b |-> FALSE], [v |-> "is_mode", b |-> TRUE],
              [v |-> "is_mode", b |-> FALSE], [v |-> "is_power", b |-> FALSE]}

Sc(p, t, f) ==
    [plan |-> p, toggles |-> t, captures |-> 0, notices |-> 0, faults |-> f]
Capturing(n, f) == [Sc(<<>>, 0, f) EXCEPT !.captures = n]
Noticing(p, t) == [Sc(p, t, 0) EXCEPT !.notices = 1]

MCScenarios ==
    {Sc(<<"form", "leave">>, 0, 0), Sc(<<"form">>, 0, 1), Sc(<<"join">>, 0, 0),
     Sc(<<"leave">>, 0, 1), Sc(<<"reset">>, 0, 1), Sc(<<"refresh", "attach">>, 0, 0),
     Sc(<<"joiner_start", "joiner_stop">>, 0, 0),
     Sc(<<"joiner_attach", "add_route">>, 0, 0),
     Sc(<<"host_did_wake", "topology">>, 0, 0), Sc(<<"buffers">>, 1, 0),
     Sc(<<"attach">>, 1, 0), Sc(<<"scan">>, 1, 0), Sc(<<>>, 0, 2),
     Capturing(1, 1), Capturing(2, 0),
     Noticing(<<"reset">>, 0), Noticing(<<>>, 1)}

MCFewScenarios == {Sc(<<"attach">>, 0, 1), Sc(<<"leave">>, 0, 1)}
MCToggles == {Sc(<<>>, 1, 0), Sc(<<"attach">>, 1, 0)}
=============================================================================
