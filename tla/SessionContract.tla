-------------------------- MODULE SessionContract ---------------------------
(***************************************************************************)
(* What one RdpSession promises to whoever owns it, and all that           *)
(* SessionLifecycle assumes of a worker: it connects and then reports RC_OK*)
(* or reports a failure, it reports once, it stays online until it is      *)
(* stopped or loses the connection, and once it is stopped it ends.        *)
(***************************************************************************)
EXTENDS RdpCodes

CONSTANTS Outcomes, None

VARIABLES worker, stopRequested, connected, report

vars == <<worker, stopRequested, connected, report>>

Init == worker = "dialing" /\ ~stopRequested /\ ~connected /\ report = None

Stop == stopRequested' = TRUE /\ UNCHANGED <<worker, connected, report>>

Moves(from, to) == worker = from /\ worker' = to /\ UNCHANGED stopRequested

Connects == Moves("dialing", "up") /\ connected' = TRUE /\ UNCHANGED report

ReportsOk == Moves("up", "online") /\ report' = RC_OK /\ UNCHANGED connected

ReportsFailure ==
    Moves("dialing", "closing") /\ report' \in Outcomes /\ UNCHANGED connected

Stops == Moves("online", "closing") /\ stopRequested /\ UNCHANGED <<connected, report>>

LosesConnection == Moves("online", "closing") /\ UNCHANGED <<connected, report>>

GoesOffline ==
    Moves("closing", "closing") /\ connected /\ connected' = FALSE /\ UNCHANGED report

Exits == Moves("closing", "exited") /\ ~connected /\ UNCHANGED <<connected, report>>

WorkerSteps ==
    Connects \/ ReportsOk \/ ReportsFailure \/ Stops \/ GoesOffline \/ Exits

Next == Stop \/ WorkerSteps \/ LosesConnection

Spec == Init /\ [][Next]_vars /\ WF_vars(stopRequested /\ WorkerSteps)
=============================================================================
