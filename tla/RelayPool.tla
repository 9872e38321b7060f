------------------------------ MODULE RelayPool -----------------------------
(***************************************************************************)
(* What the orchestrator promises about relay sockets, whoever asks for    *)
(* what and whatever fails: a port is opened for one session, offered      *)
(* under that session's name or abandoned; what is offered for a session   *)
(* is withdrawn all at once; a withdrawn port is closed and never offered  *)
(* again before it has been opened again; and no port is in two of these   *)
(* states.                                                                 *)
(***************************************************************************)
CONSTANTS Session, Port

VARIABLES
    building,   \* per session, ports opened and not yet offered
    serving,    \* per session, ports offered to the learner
    closing     \* ports withdrawn and about to be closed

vars == <<building, serving, closing>>

\* Port p is open, in whatever state.
Open(p) == p \in closing \/ \E s \in Session : p \in building[s] \cup serving[s]

Init ==
    /\ building = [s \in Session |-> {}]
    /\ serving  = [s \in Session |-> {}]
    /\ closing  = {}

OpenFor(s, p) ==
    /\ ~Open(p)
    /\ building' = [building EXCEPT ![s] = @ \cup {p}]
    /\ UNCHANGED <<serving, closing>>

Abandon(s, p) ==
    /\ p \in building[s]
    /\ building' = [building EXCEPT ![s] = @ \ {p}]
    /\ UNCHANGED <<serving, closing>>

\* A request offers the ports it has built; another request for the same
\* session may still be building.
Offer(s, P) ==
    /\ building' = [building EXCEPT ![s] = @ \ P]
    /\ serving'  = [serving  EXCEPT ![s] = @ \cup P]
    /\ UNCHANGED closing

Withdraw(s) ==
    /\ serving' = [serving EXCEPT ![s] = {}]
    /\ closing' = closing \cup serving[s]
    /\ UNCHANGED building

Close(p) ==
    /\ p \in closing
    /\ closing' = closing \ {p}
    /\ UNCHANGED <<building, serving>>

\* The process starts again: the operating system has closed everything.
Restart ==
    /\ building' = [s \in Session |-> {}]
    /\ serving'  = [s \in Session |-> {}]
    /\ closing'  = {}

Next ==
    \/ \E s \in Session, p \in Port : OpenFor(s, p) \/ Abandon(s, p)
    \/ \E s \in Session : Withdraw(s) \/ \E P \in SUBSET building[s] : Offer(s, P)
    \/ \E p \in Port : Close(p)
    \/ Restart

Spec == Init /\ [][Next]_vars

=============================================================================
