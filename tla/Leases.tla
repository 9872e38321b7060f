------------------------------- MODULE Leases -------------------------------
(***************************************************************************)
(* Two clocks for one session: `expires_at' in the API's table, and the      *)
(* lease of the orchestrator, which ends the environment and closes its      *)
(* relay.  Each takes its length from the catalogue, one from the table and  *)
(* the other also from the file, and only the launch sets both.              *)
(*                                                                         *)
(* Time is counted in units of thirty minutes, by what is left.  Calls to    *)
(* the orchestrator are answered here, and a request is one step (SessionApi *)
(* has the overlaps and the lost answers); sessions are not finalized.       *)
(***************************************************************************)
EXTENDS Catalogue

CONSTANTS
    Session,
    Port,        \* the ports relays are given; one that is free may come again
    Cap,         \* the longest assessment, 30 minutes
    MaxExtend,   \* bound on the extensions of a session
    MaxLate      \* bound: how long after its end a session is still looked at

Row == [lab : Lab, mode : {"guided", "assessment"}, left : Int,
        status : {"active", "destroyed"}, port : Port, extended : Nat]

Lease == [left : Int, port : Port, content : Content]

ASSUME LeasesOK ==
    /\ Cap \in 1 .. MaxTtl
    /\ MaxExtend \in Nat /\ MaxLate \in Nat
    /\ None \notin Port \cup Row \cup Lease

VARIABLES
    used,     \* session ids drawn
    rows,     \* per session, its row, or None
    lease,    \* per session, its lease and the relay of its environment, or None
    parted    \* sessions whose two clocks a request has set apart (history)

sessions == <<used, rows, lease, parted>>
vars     == <<catalogue, sessions>>

Free == Port \ {lease[s].port : s \in {z \in Session : lease[z] # None}}

Init ==
    /\ CatalogueInit
    /\ used   = {}
    /\ rows   = [s \in Session |-> None]
    /\ lease  = [s \in Session |-> None]
    /\ parted = {}

-----------------------------------------------------------------------------
(* The orchestrator. *)

\* Mutant: the lease of the time before the relay is there is never replaced.
ProvisionedEarly(m, ttl, p) ==
    [left |-> Min2(ttl, m.ttl), port |-> None, content |-> m.content]

\* The lease and the environment of a manifest that may run.
Provisioned(m, ttl, p) ==
    [left |-> Min2(ttl, m.ttl), port |-> p, content |-> m.content]

\* Mutant: the lease stays as it is.
TouchedNot(s) == lease

\* The lease after an extend, for a session that has one.
Touched(s) == IF lease[s] = None THEN lease ELSE [lease EXCEPT ![s].left = @ + 1]

\* A call for lab l is refused: no manifest, or one that may not run.
Refused(l) == Found(l) = {} \/ \E m \in Found(l) : ~Runs(m)

-----------------------------------------------------------------------------
(* The API. *)

\* How long a launch is for.
Ttl(l, mode) == IF mode = "assessment" THEN Min2(labs[l].ttl, Cap) ELSE labs[l].ttl

Launch(s, l, mode, m, p) ==
    /\ api = "up"
    /\ s \notin used
    /\ labs[l] # None
    /\ m \in Found(l) /\ Runs(m)
    /\ p \in Free
    /\ used'  = used \cup {s}
    /\ rows'  = [rows EXCEPT ![s] =
                   [lab |-> l, mode |-> mode, left |-> Ttl(l, mode),
                    status |-> "active", port |-> p, extended |-> 0]]
    /\ lease' = [lease EXCEPT ![s] = Provisioned(m, Ttl(l, mode), p)]
    /\ UNCHANGED <<catalogue, parted>>

\* The row of a launch that the orchestrator refuses is deleted again.
LaunchRefused(s, l) ==
    /\ api = "up"
    /\ s \notin used
    /\ labs[l] # None
    /\ Refused(l)
    /\ used' = used \cup {s}
    /\ UNCHANGED <<catalogue, rows, lease, parted>>

\* How list_sessions shows a session; nothing else looks at the time.
Shown(s) ==
    CASE rows[s].status = "destroyed"                   -> "destroyed"
      [] rows[s].status = "active" /\ rows[s].left > 0  -> "active"
      [] rows[s].status = "active" /\ rows[s].left <= 0 -> "expired"

\* Also one that has expired is extended, the row if not the lease: the orchestrator's
\* 404 is not looked at.
Extend(s) ==
    /\ api = "up"
    /\ rows[s] # None
    /\ rows[s].status = "active"
    /\ rows[s].extended < MaxExtend    \* Bound.
    /\ rows'   = [rows EXCEPT ![s].left = @ + 1, ![s].extended = @ + 1]
    /\ lease'  = Touched(s)
    /\ parted' = IF Shown(s) = "active" THEN parted ELSE parted \cup {s}
    /\ UNCHANGED <<catalogue, used>>

\* A reset asks for the time of the lab, whatever the mode, and leaves `expires_at'.
Reset(s, m, p) ==
    /\ api = "up"
    /\ rows[s] # None
    /\ m \in Found(rows[s].lab) /\ Runs(m)
    /\ p \in Free \cup (IF lease[s] = None THEN {} ELSE {lease[s].port})
    /\ rows'   = [rows EXCEPT ![s].status = "active", ![s].port = p]
    /\ lease'  = [lease EXCEPT ![s] = Provisioned(m, labs[rows[s].lab].ttl, p)]
    /\ parted' = IF rows[s].extended = 0 THEN parted \ {s} ELSE parted \cup {s}
    /\ UNCHANGED <<catalogue, used>>

\* The environment is gone before the manifest is looked at; the row stays as it is.
ResetRefused(s) ==
    /\ api = "up"
    /\ rows[s] # None
    /\ Refused(rows[s].lab)
    /\ lease'  = [lease EXCEPT ![s] = None]
    /\ parted' = parted \cup {s}
    /\ UNCHANGED <<catalogue, used, rows>>

\* The ports stay in the row.
Destroy(s) ==
    /\ api = "up"
    /\ rows[s] # None
    /\ rows'  = [rows EXCEPT ![s].status = "destroyed"]
    /\ lease' = [lease EXCEPT ![s] = None]
    /\ UNCHANGED <<catalogue, used, parted>>

\* The reaper, which runs many times in a unit of time.
Reap(s) ==
    /\ lease[s] # None
    /\ lease[s].left <= 0
    /\ lease' = [lease EXCEPT ![s] = None]
    /\ UNCHANGED <<catalogue, used, rows, parted>>

Tick ==
    /\ \A s \in Session : lease[s] # None => lease[s].left > 0
    /\ \A s \in Session : rows[s] # None => rows[s].left > -MaxLate    \* Bound.
    /\ rows'  = [s \in Session |->
                   IF rows[s] = None THEN None ELSE [rows[s] EXCEPT !.left = @ - 1]]
    /\ lease' = [s \in Session |->
                   IF lease[s] = None THEN None ELSE [lease[s] EXCEPT !.left = @ - 1]]
    /\ UNCHANGED <<catalogue, used, parted>>

Next ==
    \/ CatalogueNext /\ UNCHANGED sessions
    \/ \E s \in Session :
          \/ \E l \in Lab : LaunchRefused(s, l)
          \/ \E l \in Lab, mode \in {"guided", "assessment"}, p \in Port :
                \E m \in Found(l) : Launch(s, l, mode, m, p)
          \/ \E p \in Port : rows[s] # None /\ \E m \in Found(rows[s].lab) : Reset(s, m, p)
          \/ Extend(s) \/ ResetRefused(s) \/ Destroy(s) \/ Reap(s)
    \/ Tick

Spec == Init /\ [][Next]_vars /\ CatalogueFairness

-----------------------------------------------------------------------------
TypeOK ==
    /\ CatalogueTypeOK
    /\ used   \subseteq Session
    /\ rows   \in [Session -> Row \cup {None}]
    /\ lease  \in [Session -> Lease \cup {None}]
    /\ parted \subseteq Session

\* What runs for a session is what the catalogue says of its lab, although the two are
\* read at different times from different places (ADR-005: versions are immutable,
\* so the drafts of a lab have one content).
AsCatalogued ==
    \A s \in Session :
        (rows[s] # None /\ lease[s] # None) =>
            /\ labs[rows[s].lab] # None
            /\ lease[s].content = labs[rows[s].lab].content

\* A session that list_sessions shows as active has its environment behind the port in
\* its row until then.  Not so for one that was extended after it had expired, that
\* was reset after an extension, or whose reset was refused.
ShownIsLive ==
    \A s \in Session \ parted :
        (rows[s] # None /\ Shown(s) = "active") =>
            /\ lease[s] # None
            /\ lease[s].left >= rows[s].left
            /\ lease[s].port = rows[s].port

\* The sessions whose environments a request to the console of s may reach: it goes
\* to the recorded port of an active session.
Reached(s) ==
    {z \in Session :
        /\ rows[s] # None
        /\ rows[s].status = "active"
        /\ lease[z] # None
        /\ lease[z].port = rows[s].port}

\* "The web HTTP console may contact only the learner's assigned target."
ConsoleStaysHome == \A s \in Session : Reached(s) \subseteq {s}

=============================================================================
