--------------------------- MODULE MCBridgeToDaemon ---------------------------
(* Instances of BridgeToDaemon for TLC. *)
EXTENDS BridgeToDaemon

CONSTANTS T1, T2, F1, F2, V1

Body(b, d, t, time, m) ==
    [bridge |-> b, door |-> d, target |-> t, timeout |-> time, matched |-> m]

\* Both doors, every verdict of the checks.
MCAsked ==
    {Body("vps", "rest", T1, time, m) : time \in {"valid", "bad"},
                                        m \in {"yes", "no", "error"}}
    \cup {Body("n8n", d, t, "valid", "yes") : d \in {"rest", "mcp"}, t \in {T1, T2}}
    \cup {Body("cc", "rest", T1, time, "yes") : time \in {"valid", "bad"}}

\* The bound of the workspace: empty beside a call of another machine, one file
\* beside a call that the daemon may run, and beside one that it refuses two, of
\* which the second is there with the content V1 or not at all.
InPlay(c, d) ==
    \/ Cc(c) /\ body[c].timeout = "bad" /\ d[F2] \in {Missing, V1}
    \/ Cc(c) /\ d[F2] = Missing
    \/ d[F1] = Missing /\ d[F2] = Missing

MCInit == ComposedInit /\ \A c \in Calls : InPlay(c, disk)

MCNext == ComposedNext /\ \A c \in Calls : InPlay(c, disk')

MCSpec == MCInit /\ [][MCNext]_ComposedVars /\ ComposedFairness
=============================================================================
