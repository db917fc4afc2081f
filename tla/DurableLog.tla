----------------------------- MODULE DurableLog -----------------------------
(***************************************************************************)
(* What a WAL promises its caller, without chunks, files or a worker: a    *)
(* log of actions that only grows while the WAL is up, and of which a      *)
(* prefix comes back after it was down.  An Ok from a sync write vouches   *)
(* for a prefix that survives a power loss; an Ok from any write, for one  *)
(* that survives the death of the process; a clean shutdown, for all.      *)
(***************************************************************************)
EXTENDS Naturals, Sequences

CONSTANT Actions    \* the actions the caller may append

VARIABLES
    log,        \* the actions the state machine holds, or held last
    acked,      \* length of the prefix that survives a power loss
    written,    \* length of the prefix that survives a process crash
    up          \* the WAL is open

vars == <<log, acked, written, up>>

Init == log = <<>> /\ acked = 0 /\ written = 0 /\ up = FALSE

Append1(a) ==
    /\ up
    /\ log' = Append(log, a)
    /\ UNCHANGED <<acked, written, up>>

(* Callbacks report Ok for actions already in the log.                     *)
Acknowledge(a, w) ==
    /\ up
    /\ acked <= a /\ written <= w /\ a <= w /\ w <= Len(log)
    /\ acked' = a /\ written' = w
    /\ UNCHANGED <<log, up>>

(* A shutdown that returns Ok has persisted the whole log.                 *)
CleanShutdown ==
    /\ up
    /\ acked' = Len(log) /\ written' = Len(log)
    /\ up' = FALSE
    /\ UNCHANGED log

(* The process dies, or a shutdown returns an error.                       *)
Stop ==
    /\ up' = FALSE
    /\ UNCHANGED <<log, acked, written>>

PowerLoss ==
    /\ up' = FALSE
    /\ written' = acked
    /\ UNCHANGED <<log, acked>>

(* open returns: a prefix is back, with all that was vouched for in it.    *)
Recover ==
    /\ ~up
    /\ \E n \in written..Len(log) :
         log' = SubSeq(log, 1, n) /\ written' = n
    /\ up' = TRUE
    /\ UNCHANGED acked

Next ==
    \/ \E a \in Actions : Append1(a)
    \/ \E a \in 0..Len(log), w \in 0..Len(log) : Acknowledge(a, w)
    \/ CleanShutdown \/ Stop \/ PowerLoss \/ Recover

Spec == Init /\ [][Next]_vars
=============================================================================
