----------------------------- MODULE SessionApi -----------------------------
(***************************************************************************)
(* The life of a learner session in the API service: launch, extend,       *)
(* reset, finalize and destroy, each a handler that reads the session's    *)
(* row, calls the orchestrator and commits.  Handlers run in a thread pool *)
(* and nothing locks a row between the read and the commit.                *)
(*                                                                         *)
(* Two things about the object-relational mapper matter here: a handler    *)
(* works on the copy of the row it loaded, and a commit writes only the    *)
(* columns whose value differs from the loaded one.  Setting status to     *)
(* "active" on a row loaded as "active" writes nothing, whatever another   *)
(* handler has committed since.                                            *)
(*                                                                         *)
(* A call to the orchestrator is a job that it runs at some later time and *)
(* that a caller may stop waiting for (90 s for a launch, 40 s otherwise); *)
(* the job runs all the same.  A job is one step here -- module            *)
(* Orchestrator says what is inside -- and leaves an environment, marked   *)
(* with the seed its targets were given, or none.                          *)
(***************************************************************************)
EXTENDS Naturals, FiniteSets

CONSTANTS
    Session,    \* session ids, never given twice
    User,       \* learners
    Worker,     \* threads that serve requests
    Key,        \* idempotency keys
    Seed,       \* flag seeds, never drawn twice
    PerUser,    \* MAX_ACTIVE_PER_USER
    PerGlobal,  \* MAX_ACTIVE_GLOBAL
    MaxExtend,  \* bound on the extensions of one session
    Overlap,    \* whether a session may get a request while one is served
    Faults,     \* kinds of failure, a subset of FaultKind
    MaxFaults,  \* bound on the number of failures
    None

FaultKind == {"timeout", "unreachable", "refuse"}

Row == [owner : User, key : Key \cup {None}, status : {"active", "destroyed"},
        seed : Seed, targets : BOOLEAN, finalized : BOOLEAN, extra : 0..MaxExtend]

ASSUME ConstantsOK ==
    /\ PerUser \in Nat /\ PerGlobal \in Nat
    /\ MaxExtend \in Nat /\ MaxFaults \in Nat
    /\ Faults \subseteq FaultKind
    /\ Overlap \in BOOLEAN
    /\ None \notin Session \cup User \cup Worker \cup Key \cup Seed \cup Row
                  \cup {"ok", "refused", "lost"}

VARIABLES
    rows,       \* the sessions table
    used,       \* session ids handed out
    drawn,      \* seeds drawn
    env,        \* per session, the seed of its environment, or None
    jobs,       \* calls the orchestrator has not run yet
    pc,         \* per worker, what it does next
    req,        \* per worker, the request it serves
    loaded,     \* per worker, the row as it read it
    reply,      \* per worker, the outcome of its call
    faults      \* failures so far

table == <<rows, used, drawn>>
orch  == <<env, jobs>>
local == <<pc, req, loaded, reply>>
vars  == <<table, orch, local, faults>>

Kinds == {"launch", "extend", "reset", "finalize", "destroy"}

Request == [kind : Kinds, user : User \cup {None}, key : Key \cup {None},
            session : Session \cup {None}, seed : Seed \cup {None}]

NoRequest == [kind |-> "none", user |-> None, key |-> None, session |-> None,
              seed |-> None]

Job == [kind : {"launch", "reset", "destroy"}, session : Session,
        seed : Seed \cup {None}, by : Worker \cup {None}]

Exists(s) == rows[s] # None
Active(s) == Exists(s) /\ rows[s].status = "active"

ActiveOf(u) == {s \in Session : Active(s) /\ rows[s].owner = u}

\* Bound: an id and a seed are kept for every launch that has drawn none yet.
Kept == Cardinality({w \in Worker : pc[w] \in {"dedup", "quota", "insert"}})

SeedsLeft == Cardinality(Seed \ drawn) > Kept

IdsLeft == Cardinality(Session \ used) > Kept

\* Some handler or call concerns session s.
Pending(s) == \/ \E w \in Worker : req[w].session = s
              \/ \E j \in jobs : j.session = s

-----------------------------------------------------------------------------

Fault(kind) ==
    /\ kind \in Faults
    /\ faults < MaxFaults
    /\ faults' = faults + 1

NoFault == UNCHANGED faults

Goto(w, l) == pc' = [pc EXCEPT ![w] = l]

\* The handler of worker w answers its request.
Return(w) ==
    /\ pc'     = [pc     EXCEPT ![w] = "idle"]
    /\ req'    = [req    EXCEPT ![w] = NoRequest]
    /\ loaded' = [loaded EXCEPT ![w] = None]
    /\ reply'  = [reply  EXCEPT ![w] = None]

\* orch._call: the request leaves for the orchestrator, or the connection fails
\* at once.
Call(w, kind, s, seed) ==
    \/ /\ jobs' = jobs \cup {[kind |-> kind, session |-> s, seed |-> seed, by |-> w]}
       /\ Goto(w, "wait")
       /\ UNCHANGED reply
       /\ NoFault
    \/ /\ Fault("unreachable")
       /\ Goto(w, "wait")
       /\ reply' = [reply EXCEPT ![w] = "lost"]
       /\ UNCHANGED jobs

Init ==
    /\ rows   = [s \in Session |-> None]
    /\ used   = {}
    /\ drawn  = {}
    /\ env    = [s \in Session |-> None]
    /\ jobs   = {}
    /\ pc     = [w \in Worker |-> "idle"]
    /\ req    = [w \in Worker |-> NoRequest]
    /\ loaded = [w \in Worker |-> None]
    /\ reply  = [w \in Worker |-> None]
    /\ faults = 0

-----------------------------------------------------------------------------
(* Launch. *)

Launch(w, u, k) ==
    /\ pc[w] = "idle"
    /\ IdsLeft /\ SeedsLeft
    /\ req' = [req EXCEPT ![w] = [NoRequest EXCEPT !.kind = "launch",
                                                   !.user = u, !.key = k]]
    /\ Goto(w, "dedup")
    /\ UNCHANGED <<table, orch, loaded, reply, faults>>

\* Mutant: a destroyed session no longer answers for its key.
DuplicatesActive(u, k) ==
    {s \in Session : Active(s) /\ k # None /\ rows[s].owner = u /\ rows[s].key = k}

\* The learner's sessions launched with the same key, whatever became of them.
Duplicates(u, k) ==
    {s \in Session : Exists(s) /\ k # None /\ rows[s].owner = u /\ rows[s].key = k}

\* Such a session is the answer.
Dedup(w) ==
    /\ pc[w] = "dedup"
    /\ IF Duplicates(req[w].user, req[w].key) # {}
         THEN Return(w)
         ELSE Goto(w, "quota") /\ UNCHANGED <<req, loaded, reply>>
    /\ UNCHANGED <<table, orch, faults>>

\* Mutant: one too many.
WithinQuotaLoose(u) ==
    /\ Cardinality(ActiveOf(u)) <= PerUser
    /\ Cardinality({s \in Session : Active(s)}) < PerGlobal

\* Both quotas leave room for one more active session.
WithinQuota(u) ==
    /\ Cardinality(ActiveOf(u)) < PerUser
    /\ Cardinality({s \in Session : Active(s)}) < PerGlobal

Quota(w) ==
    /\ pc[w] = "quota"
    /\ IF WithinQuota(req[w].user)
         THEN Goto(w, "insert") /\ UNCHANGED <<req, loaded, reply>>
         ELSE Return(w)
    /\ UNCHANGED <<table, orch, faults>>

\* Mutant: the row is inserted before its seed is drawn.
NewRowUnseeded(u, k, seed) ==
    [owner |-> u, key |-> k, status |-> "active", seed |-> None,
     targets |-> FALSE, finalized |-> FALSE, extra |-> 0]

NewRow(u, k, seed) ==
    [owner |-> u, key |-> k, status |-> "active", seed |-> seed,
     targets |-> FALSE, finalized |-> FALSE, extra |-> 0]

\* The row is committed as active, without targets, before the call.
Insert(w) ==
    \E s \in Session \ used, seed \in Seed \ drawn :
        /\ pc[w] = "insert"
        /\ rows'  = [rows EXCEPT ![s] = NewRow(req[w].user, req[w].key, seed)]
        /\ used'  = used \cup {s}
        /\ drawn' = drawn \cup {seed}
        /\ req'   = [req EXCEPT ![w].session = s, ![w].seed = seed]
        /\ Call(w, "launch", s, seed)
        /\ UNCHANGED <<env, loaded>>

\* Mutant: a launch without an answer counts as refused.
AfterLaunchStrict(s, outcome) ==
    IF outcome = "ok" THEN [rows[s] EXCEPT !.targets = TRUE] ELSE None

\* The row after the answer to its launch.  201: it has targets.  Any other
\* code: it is deleted.  A lost answer leaves it active and without targets.
AfterLaunch(s, outcome) ==
    CASE outcome = "ok"      -> [rows[s] EXCEPT !.targets = TRUE]
      [] outcome = "refused" -> None
      [] outcome = "lost"    -> rows[s]

LaunchAnswer(w) ==
    LET s == req[w].session
    IN  /\ pc[w] = "wait"
        /\ req[w].kind = "launch"
        /\ reply[w] # None
        /\ rows' = [rows EXCEPT ![s] = AfterLaunch(s, reply[w])]
        /\ Return(w)
        /\ UNCHANGED <<used, drawn, orch, faults>>

-----------------------------------------------------------------------------
(* Requests on a session. *)

\* own_session: the handler loads the row.  Nothing makes it wait for another
\* request of the same session; with Overlap = FALSE the clients do.
Load(w, kind, s, seed) ==
    /\ pc[w] = "idle"
    /\ Exists(s)
    /\ Overlap \/ \A v \in Worker : req[v].session # s
    /\ req'    = [req EXCEPT ![w] = [NoRequest EXCEPT !.kind = kind,
                                        !.session = s, !.seed = seed]]
    /\ loaded' = [loaded EXCEPT ![w] = rows[s]]

\* Only active, unfinalized sessions extend and finalize.
Open(s) == Active(s) /\ ~rows[s].finalized

StartExtend(w, s) ==
    /\ Open(s)
    /\ rows[s].extra < MaxExtend    \* Bound.
    /\ Load(w, "extend", s, None)
    /\ Goto(w, "commit")
    /\ UNCHANGED <<table, orch, reply, faults>>

StartFinalize(w, s) ==
    /\ Open(s)
    /\ Load(w, "finalize", s, None)
    /\ Goto(w, "commit")
    /\ UNCHANGED <<table, orch, reply, faults>>

\* Any unfinalized session resets, a destroyed one too.
MayReset(s) == Exists(s) /\ ~rows[s].finalized

\* A new seed is drawn; nothing is committed before the answer.
StartReset(w, s) ==
    \E seed \in Seed \ drawn :
        /\ MayReset(s)
        /\ SeedsLeft
        /\ Load(w, "reset", s, seed)
        /\ drawn' = drawn \cup {seed}
        /\ Call(w, "reset", s, seed)
        /\ UNCHANGED <<rows, used, env>>

StartDestroy(w, s) ==
    /\ Load(w, "destroy", s, None)
    /\ Call(w, "destroy", s, None)
    /\ UNCHANGED <<table, env>>

\* expires_at is thirty minutes after the loaded value, whatever the
\* orchestrator answered to its own extend.
CommitExtend(w) ==
    LET s == req[w].session
    IN  /\ pc[w] = "commit"
        /\ req[w].kind = "extend"
        /\ rows' = IF Exists(s)
                     THEN [rows EXCEPT ![s].extra = loaded[w].extra + 1]
                     ELSE rows
        /\ Return(w)
        /\ UNCHANGED <<used, drawn, orch, faults>>

CommitFinalize(w) ==
    LET s == req[w].session
    IN  /\ pc[w] = "commit"
        /\ req[w].kind = "finalize"
        /\ rows' = IF Exists(s) THEN [rows EXCEPT ![s].finalized = TRUE] ELSE rows
        /\ Return(w)
        /\ UNCHANGED <<used, drawn, orch, faults>>

\* The status column after a commit that assigns `new' to it.
Written(w, s, new) ==
    IF loaded[w].status = new THEN rows[s].status ELSE new

\* Mutant: the seed stays.
RotatedNot(w, s) == [rows[s] EXCEPT !.status = Written(w, s, "active")]

\* The row with its new seed, active again if it was loaded as destroyed.
Rotated(w, s) ==
    [rows[s] EXCEPT !.seed = req[w].seed, !.status = Written(w, s, "active")]

\* 201: new seed and targets.  Another code: nothing is committed.  A lost
\* answer: the new seed is committed, the targets stay.
ResetAnswer(w) ==
    LET s == req[w].session
    IN  /\ pc[w] = "wait"
        /\ req[w].kind = "reset"
        /\ reply[w] # None
        /\ rows' =
             IF Exists(s) /\ reply[w] # "refused"
               THEN [rows EXCEPT ![s] =
                       [Rotated(w, s) EXCEPT !.targets = @ \/ reply[w] = "ok"]]
               ELSE rows
        /\ Return(w)
        /\ UNCHANGED <<used, drawn, orch, faults>>

\* Mutant: every destroy is best effort.
MayDestroyAlways(w) == reply[w] # None

\* A session loaded with targets must be destroyed by the orchestrator first; for
\* one loaded without, the call is best effort and its outcome does not matter.
MayDestroy(w) == reply[w] = "ok" \/ ~loaded[w].targets

DestroyAnswer(w) ==
    LET s == req[w].session
    IN  /\ pc[w] = "wait"
        /\ req[w].kind = "destroy"
        /\ reply[w] # None
        /\ IF Exists(s) /\ MayDestroy(w)
             THEN rows' = [rows EXCEPT ![s].status = Written(w, s, "destroyed")]
             ELSE UNCHANGED rows
        /\ Return(w)
        /\ UNCHANGED <<used, drawn, orch, faults>>

-----------------------------------------------------------------------------
(* The orchestrator. *)

\* It runs a call and answers the caller, if that one still waits.
Answer(j, outcome) ==
    /\ jobs'  = jobs \ {j}
    /\ reply' = IF j.by = None THEN reply ELSE [reply EXCEPT ![j.by] = outcome]
    /\ UNCHANGED <<table, pc, req, loaded>>

Run(j) ==
    /\ j \in jobs
    /\ env' = [env EXCEPT ![j.session] = j.seed]
    /\ Answer(j, "ok")
    /\ NoFault

\* A refused call may have destroyed the environment before it failed, or not
\* have touched it.
Refuse(j) ==
    /\ j \in jobs
    /\ Fault("refuse")
    /\ env' \in {env, [env EXCEPT ![j.session] = None]}
    /\ Answer(j, "refused")

\* The lease runs out and the reaper removes the environment.
EnvExpires(s) ==
    /\ env[s] # None
    /\ env' = [env EXCEPT ![s] = None]
    /\ UNCHANGED <<table, jobs, local, faults>>

\* The caller stops waiting; its call stays where it is.
Timeout(w) ==
    /\ pc[w] = "wait"
    /\ reply[w] = None
    /\ Fault("timeout")
    /\ reply' = [reply EXCEPT ![w] = "lost"]
    /\ jobs'  = {[j EXCEPT !.by = IF @ = w THEN None ELSE @] : j \in jobs}
    /\ UNCHANGED <<table, env, pc, req, loaded>>

-----------------------------------------------------------------------------

Start(w) ==
    \/ \E u \in User, k \in Key \cup {None} : Launch(w, u, k)
    \/ \E s \in Session : \/ StartExtend(w, s) \/ StartReset(w, s)
                          \/ StartFinalize(w, s) \/ StartDestroy(w, s)

Serve(w) ==
    \/ Dedup(w) \/ Quota(w) \/ Insert(w) \/ LaunchAnswer(w)
    \/ CommitExtend(w) \/ CommitFinalize(w) \/ ResetAnswer(w) \/ DestroyAnswer(w)

Next ==
    \/ \E w \in Worker : Start(w) \/ Serve(w) \/ Timeout(w)
    \/ \E j \in jobs : Run(j) \/ Refuse(j)
    \/ \E s \in Session : EnvExpires(s)

Spec == Init /\ [][Next]_vars

-----------------------------------------------------------------------------
(* Properties. *)

\* Every variable has its type.
TypeOK ==
    /\ rows   \in [Session -> Row \cup {None}]
    /\ used   \in SUBSET Session
    /\ drawn  \in SUBSET Seed
    /\ env    \in [Session -> Seed \cup {None}]
    /\ jobs   \in SUBSET Job
    /\ pc     \in [Worker -> {"idle", "dedup", "quota", "insert", "wait", "commit"}]
    /\ req    \in [Worker -> Request \cup {NoRequest}]
    /\ loaded \in [Worker -> Row \cup {None}]
    /\ reply  \in [Worker -> {"ok", "refused", "lost", None}]
    /\ faults \in 0..MaxFaults

\* "never report destroyed while containers may live": once nothing more is under
\* way for a destroyed session, it has no environment.
DestroyedGone ==
    \A s \in Session :
        Exists(s) /\ rows[s].status = "destroyed" /\ ~Pending(s) => env[s] = None

\* "reset rotates seed AND re-provisions targets": the environment of a session
\* was given the seed by which its flags are verified.
FlagsMatch ==
    \A s \in Session :
        Active(s) /\ ~Pending(s) /\ env[s] # None => env[s] = rows[s].seed

\* An environment belongs to a session the learner can see, and so can destroy.
EnvHasRow == \A s \in Session : env[s] # None => Exists(s)

\* "idempotency where retries are expected": a key launches one session.
OneSessionPerKey ==
    \A s, z \in Session :
        /\ Exists(s) /\ Exists(z)
        /\ rows[s].key # None
        /\ rows[s].key = rows[z].key
        /\ rows[s].owner = rows[z].owner
        => s = z

\* "session quota: {per_user} active per learner": a launch, from its row until its
\* answer, never makes a learner's active sessions more than the quota, also after
\* launches that were lost or refused (with one request at a time: the count and the
\* insert are two transactions).  Nothing like it holds of a reset, which revives.
LaunchWithinQuota ==
    [][\A u \in User :
          (\E s \in Session : ~Exists(s) /\ Exists(s)' /\ rows'[s].owner = u)
            => Cardinality(ActiveOf(u)') <= PerUser]_vars

=============================================================================
