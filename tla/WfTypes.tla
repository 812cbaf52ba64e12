------------------------------ MODULE WfTypes ------------------------------
(***************************************************************************)
(* The NCP states of wfantund and the predicates the daemon branches on    *)
(* (src/src/wfantund/NCPTypes.cpp), as they are compiled with              *)
(* TI_WISUN_FAN, which configure.ac always defines.                        *)
(***************************************************************************)

NCPState ==
    {"UNINITIALIZED", "FAULT", "UPGRADING", "DEEP_SLEEP", "OFFLINE",
     "COMMISSIONED", "ASSOCIATING", "CREDENTIALS_NEEDED", "ASSOCIATED",
     "ISOLATED", "NET_WAKE_ASLEEP", "NET_WAKE_WAKING"}

\* The build for Wi-SUN FAN compiles the states out of these three.
ncp_state_is_sleeping(s) == FALSE
ncp_state_has_joined(s) == TRUE
ncp_state_is_joining(s) == FALSE

ncp_state_is_interface_up(s) ==
    s \in {"CREDENTIALS_NEEDED", "ASSOCIATED", "NET_WAKE_ASLEEP"}

ncp_state_is_commissioned(s) ==
    s \in {"COMMISSIONED", "ASSOCIATED", "NET_WAKE_ASLEEP", "ISOLATED",
           "NET_WAKE_WAKING"}

ncp_state_is_initializing(s) == s \in {"UNINITIALIZED", "UPGRADING"}

ncp_state_is_joining_or_joined(s) ==
    s \in {"CREDENTIALS_NEEDED", "ASSOCIATING", "ASSOCIATED", "ISOLATED",
           "NET_WAKE_WAKING", "NET_WAKE_ASLEEP"}

ncp_state_is_associated(s) ==
    s \in {"ASSOCIATED", "ISOLATED", "NET_WAKE_WAKING", "NET_WAKE_ASLEEP"}

ncp_state_is_detached_from_ncp(s) == s \in {"FAULT", "UPGRADING"}

ncp_state_is_busy(s) ==
    s \notin {"DEEP_SLEEP", "OFFLINE", "NET_WAKE_ASLEEP", "ISOLATED",
              "ASSOCIATED", "FAULT"}

=============================================================================
