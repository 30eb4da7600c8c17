----------------------------- MODULE MCLanAuth -----------------------------
(***************************************************************************)
(* Instances of LanAuth for TLC.  Two addresses share an IPv6 prefix; the   *)
(* third connection, where there is one, comes from the first address too.  *)
(***************************************************************************)
EXTENDS LanAuth, TLC

CONSTANTS ip1, ip2, prefix, c1, c2, c3

MCKeys == {ip1, ip2, prefix}
MCIpOf == [c \in Conns |-> IF c = c2 THEN ip2 ELSE ip1]
MCKeysOf == [c \in Conns |-> {MCIpOf[c], prefix}]

\* The connections may be exchanged, together with their addresses.
MCSymmetry ==
    {f \in Permutations(Conns \cup {ip1, ip2}) :
        \A c \in Conns : f[c] \in Conns /\ f[IpOf[c]] = IpOf[f[c]]}
=============================================================================
