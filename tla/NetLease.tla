------------------------------ MODULE NetLease ------------------------------
(***************************************************************************)
(* What the helper promises about the host firewall, whatever happens to   *)
(* its callers, to UFW, to the interface or to itself: allowances exist    *)
(* only under a lease, a lease passes from one caller to another only      *)
(* through "nobody, nothing permitted", and while it lasts what is         *)
(* permitted is never widened except by starting again from nothing.       *)
(***************************************************************************)
CONSTANTS Callers, None

VARIABLES
  lease,   \* the caller allowances may exist for, or None
  width    \* what the chain permits

leaseVars == <<lease, width>>

\* "group": RTSP from anyone on the group's interface; "address": to our
\* address on it; "peer": from the connected TV only, and its RTCP.
Widths == {"closed", "group", "address", "peer"}

\* The widths that permit no more than w, for an open w.
NoWiderThan(w) == CASE w = "group"   -> {"group", "address", "peer"}
                    [] w = "address" -> {"address", "peer"}
                    [] w = "peer"    -> {"peer"}
                    [] OTHER         -> Widths \ {"closed"}

LeaseInit == lease = None /\ width = "closed"

Grant(c) == /\ lease = None
            /\ lease' = c
            /\ UNCHANGED width

Permit == /\ lease # None
          /\ width' \in NoWiderThan(width)
          /\ UNCHANGED lease

Shut == /\ width' = "closed"
        /\ UNCHANGED lease

\* The end of a lease leaves nothing permitted.
Release == /\ lease' = None
           /\ width' = "closed"

LeaseNext == (\E c \in Callers : Grant(c)) \/ Permit \/ Shut \/ Release

LeaseSpec == LeaseInit /\ [][LeaseNext]_leaseVars
=============================================================================
