--------------------------- MODULE Subscriptions ---------------------------
(***************************************************************************)
(* What the host promises about subscriptions, without the tables, locks   *)
(* and snapshots that bring it about: every service has a set of members,  *)
(* one connection enters or leaves one set at a time, and a connection     *)
(* retires only when it is a member of nothing, after which it never       *)
(* becomes one again.                                                      *)
(***************************************************************************)
CONSTANTS Conns, Services

VARIABLES members, retired

vars == <<members, retired>>

Init ==
    /\ members = [s \in Services |-> {}]
    /\ retired = {}

Enter(s, c) ==
    /\ c \notin retired
    /\ members' = [members EXCEPT ![s] = @ \cup {c}]
    /\ UNCHANGED retired

Leave(s, c) ==
    /\ members' = [members EXCEPT ![s] = @ \ {c}]
    /\ UNCHANGED retired

Retire(c) ==
    /\ \A s \in Services : c \notin members[s]
    /\ retired' = retired \cup {c}
    /\ UNCHANGED members

Next ==
    \E c \in Conns : Retire(c) \/ \E s \in Services : Enter(s, c) \/ Leave(s, c)

Spec == Init /\ [][Next]_vars
=============================================================================
