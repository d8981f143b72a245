---------------------------- MODULE SessionRefresh ----------------------------
(***************************************************************************)
(* What RedfishHttpClient._refresh_session promises its callers, "Refresh  *)
(* an expired session once, synchronized across callers", as one atomic    *)
(* step per caller: a caller asks on behalf of the key it saw, and is      *)
(* either told that somebody else has replaced that key, or replaces it    *)
(* itself, or is handed a failure that all callers with that key share.    *)
(***************************************************************************)
CONSTANTS Callers, Tokens, None

VARIABLES
    current,    \* the key requests are authenticated with
    failed,     \* the keys whose refresh is known to have failed
    asking      \* the key each caller asks to have refreshed: {} or {key}

refreshVars == <<current, failed, asking>>

Init ==
    /\ current \in Tokens \cup {None}
    /\ failed = {}
    /\ asking = [c \in Callers |-> {}]

Ask(c) ==
    /\ asking[c] = {}
    /\ \E k \in Tokens \cup {None} : asking' = [asking EXCEPT ![c] = {k}]
    /\ UNCHANGED <<current, failed>>

Done(c) == asking' = [asking EXCEPT ![c] = {}]

AlreadyReplaced(c) ==
    /\ asking[c] # {} /\ current \notin asking[c]
    /\ Done(c)
    /\ UNCHANGED <<current, failed>>

Replace(c) ==
    /\ asking[c] = {current} /\ current \notin failed
    /\ \E n \in Tokens \ {current} : current' = n
    /\ Done(c)
    /\ UNCHANGED failed

GiveUp(c) ==
    /\ asking[c] = {current}
    /\ failed' = {current}
    /\ Done(c)
    /\ UNCHANGED current

Next ==
    \E c \in Callers : Ask(c) \/ AlreadyReplaced(c) \/ Replace(c) \/ GiveUp(c)

Spec == Init /\ [][Next]_refreshVars
=============================================================================
