-------------------------- MODULE SessionApiProofs --------------------------
(***************************************************************************)
(* Proofs about SessionApi, for any number of sessions, workers and          *)
(* failures.  Types hold in any case.  When a session gets one request at a  *)
(* time, an environment has a row, for only the launch deletes one, and then *)
(* nobody else is at work on the session.  When, besides, every call is       *)
(* answered, the orchestrator has what the table says: nothing for a          *)
(* destroyed session, and for an active one the seed of its row.  When only    *)
(* one request is under way at all, a key launches one session.               *)
(***************************************************************************)
EXTENDS SessionApi, TLAPS

\* What an extension adds to was below the bound when it was read.
ExtendsBelow ==
    \A w \in Worker :
        (pc[w] = "commit" /\ req[w].kind = "extend") =>
            loaded[w] # None /\ loaded[w].extra < MaxExtend

\* A handler past its start has what it works with.
Underway ==
    \A w \in Worker :
        /\ pc[w] \in {"dedup", "quota", "insert"} =>
              req[w].kind = "launch" /\ req[w].user \in User
        /\ pc[w] \in {"wait", "commit"} => req[w].session \in Session
        /\ (pc[w] = "wait" /\ req[w].kind = "reset") => req[w].seed \in Seed
        /\ pc[w] \notin {"wait"} => reply[w] = None

TypeInv == TypeOK /\ ExtendsBelow /\ Underway

\* A launch that has inserted its row has it still, and it is no other launch's.
Launching(w, s) == req[w].kind = "launch" /\ req[w].session = s

LaunchOwn ==
    \A w \in Worker, s \in Session :
        Launching(w, s) => Exists(s) /\ \A v \in Worker : Launching(v, s) => v = w

RowsUsed == \A s \in Session : Exists(s) => s \in used

\* A call that is waited for is the only one its caller waits for.
JobsAwaited ==
    \A j \in jobs :
        j.by # None =>
            /\ pc[j.by] = "wait"
            /\ reply[j.by] = None
            /\ req[j.by].session = j.session
            /\ \A k \in jobs : k.by = j.by => k = j

Inv == TypeInv /\ LaunchOwn /\ RowsUsed /\ JobsAwaited

\* With one request at a time, no row goes that anybody needs: of a session whose launch
\* has no answer yet, or a refusal, there is no environment and no other call.
Alone ==
    \A v, w \in Worker, s \in Session :
        req[v].session = s /\ req[w].session = s => v = w

AtWork == \A w \in Worker, s \in Session : req[w].session = s => Exists(s)

JobsHaveRow == \A j \in jobs : Exists(j.session)

Quiet ==
    \A w \in Worker, s \in Session :
        (Launching(w, s) /\ reply[w] \in {None, "refused"}) =>
            /\ env[s] = None
            /\ \A j \in jobs : j.session = s => j.by = w

Solo == Alone /\ AtWork /\ JobsHaveRow /\ EnvHasRow /\ Quiet

\* No row is added or deleted.
SameRows == \A s \in Session : Exists(s)' <=> Exists(s)

-----------------------------------------------------------------------------
LEMMA NoRequestParts ==
    /\ NoRequest.kind = "none" /\ NoRequest.session = None /\ NoRequest.seed = None
    /\ NoRequest.user = None /\ NoRequest.key = None
BY DEF NoRequest

\* A request.
LEMMA RequestParts ==
    ASSUME TypeOK, NEW w \in Worker
    PROVE  /\ req[w].session \in Session \cup {None}
           /\ req[w].seed \in Seed \cup {None}
           /\ req[w].key \in Key \cup {None}
           /\ req[w].user \in User \cup {None}
BY DEF TypeOK, Request, NoRequest

\* A handler that returns is idle, and the others are where they were.
LEMMA ReturnKeeps ==
    ASSUME TypeInv, NEW w \in Worker, Return(w)
    PROVE  /\ pc' \in [Worker -> {"idle", "dedup", "quota", "insert", "wait", "commit"}]
           /\ req' \in [Worker -> Request \cup {NoRequest}]
           /\ loaded' \in [Worker -> Row \cup {None}]
           /\ reply' \in [Worker -> {"ok", "refused", "lost", None}]
           /\ ExtendsBelow' /\ Underway'
           /\ req'[w].session = None
           /\ \A v \in Worker \ {w} : /\ req'[v] = req[v] /\ pc'[v] = pc[v]
                                      /\ reply'[v] = reply[v] /\ loaded'[v] = loaded[v]
<1>1. /\ pc' = [pc EXCEPT ![w] = "idle"] /\ req' = [req EXCEPT ![w] = NoRequest]
      /\ loaded' = [loaded EXCEPT ![w] = None] /\ reply' = [reply EXCEPT ![w] = None]
  BY DEF Return
<1>2. /\ pc' \in [Worker -> {"idle", "dedup", "quota", "insert", "wait", "commit"}]
      /\ req' \in [Worker -> Request \cup {NoRequest}]
      /\ loaded' \in [Worker -> Row \cup {None}]
      /\ reply' \in [Worker -> {"ok", "refused", "lost", None}]
  BY <1>1 DEF TypeInv, TypeOK
<1>3. /\ pc'[w] = "idle" /\ req'[w] = NoRequest /\ reply'[w] = None
      /\ \A v \in Worker \ {w} : /\ req'[v] = req[v] /\ pc'[v] = pc[v]
                                 /\ reply'[v] = reply[v] /\ loaded'[v] = loaded[v]
  BY <1>1 DEF TypeInv, TypeOK
<1>4. ExtendsBelow'
  BY <1>3 DEF TypeInv, ExtendsBelow
<1>5. Underway'
  BY <1>3 DEF TypeInv, Underway
<1> QED
  BY <1>2, <1>3, <1>4, <1>5, NoRequestParts

\* A handler that calls waits, and the others are where they were.
LEMMA CallTypes ==
    ASSUME TypeOK, NEW w \in Worker, NEW kind \in {"launch", "reset", "destroy"},
           NEW s \in Session, NEW seed \in Seed \cup {None}, Call(w, kind, s, seed)
    PROVE  /\ jobs' \in SUBSET Job
           /\ pc' \in [Worker -> {"idle", "dedup", "quota", "insert", "wait", "commit"}]
           /\ reply' \in [Worker -> {"ok", "refused", "lost", None}]
           /\ faults' \in 0..MaxFaults
           /\ pc'[w] = "wait"
           /\ \A v \in Worker \ {w} : pc'[v] = pc[v] /\ reply'[v] = reply[v]
<1>1. pc' = [pc EXCEPT ![w] = "wait"]
  BY DEF Call, Goto
<1>2. jobs' \in SUBSET Job
  <2>1. [kind |-> kind, session |-> s, seed |-> seed, by |-> w] \in Job
    BY DEF Job
  <2> QED
    BY <2>1 DEF Call, TypeOK
<1>3. reply' = reply \/ reply' = [reply EXCEPT ![w] = "lost"]
  BY DEF Call
<1>4. faults' \in 0..MaxFaults
  <2>1. faults' = faults \/ (faults < MaxFaults /\ faults' = faults + 1)
    BY DEF Call, Fault, NoFault
  <2> QED
    BY <2>1, ConstantsOK DEF TypeOK
<1> QED
  BY <1>1, <1>2, <1>3, <1>4 DEF TypeOK

\* A request that is taken up, at this label.
LEMMA TakenUp ==
    ASSUME TypeInv, NEW w \in Worker, NEW r \in Request, NEW row \in Row \cup {None},
           req' = [req EXCEPT ![w] = r], loaded' = [loaded EXCEPT ![w] = row],
           pc' \in [Worker -> {"idle", "dedup", "quota", "insert", "wait", "commit"}],
           reply' \in [Worker -> {"ok", "refused", "lost", None}],
           \A v \in Worker \ {w} : pc'[v] = pc[v] /\ reply'[v] = reply[v],
           pc'[w] \in {"dedup", "wait", "commit"},
           pc'[w] = "dedup" => r.kind = "launch" /\ r.user \in User,
           pc'[w] \in {"wait", "commit"} => r.session \in Session,
           r.kind = "reset" => r.seed \in Seed,
           r.kind = "extend" => row # None /\ row.extra < MaxExtend,
           pc'[w] # "wait" => reply'[w] = None
    PROVE  /\ req' \in [Worker -> Request \cup {NoRequest}]
           /\ loaded' \in [Worker -> Row \cup {None}]
           /\ ExtendsBelow' /\ Underway'
<1>1. /\ req' \in [Worker -> Request \cup {NoRequest}]
      /\ loaded' \in [Worker -> Row \cup {None}]
  BY DEF TypeInv, TypeOK
<1>2. /\ req'[w] = r /\ loaded'[w] = row
      /\ \A v \in Worker \ {w} : req'[v] = req[v] /\ loaded'[v] = loaded[v]
  BY DEF TypeInv, TypeOK
<1>3. ExtendsBelow'
  BY <1>2 DEF TypeInv, ExtendsBelow
<1>4. Underway'
  <2> SUFFICES ASSUME NEW v \in Worker
               PROVE  /\ pc'[v] \in {"dedup", "quota", "insert"} =>
                            req'[v].kind = "launch" /\ req'[v].user \in User
                      /\ pc'[v] \in {"wait", "commit"} => req'[v].session \in Session
                      /\ (pc'[v] = "wait" /\ req'[v].kind = "reset") => req'[v].seed \in Seed
                      /\ pc'[v] \notin {"wait"} => reply'[v] = None
    BY DEF Underway
  <2>1. CASE v = w
    BY <1>2, <2>1
  <2>2. CASE v # w
    BY <1>2, <2>2 DEF TypeInv, Underway
  <2> QED
    BY <2>1, <2>2
<1> QED
  BY <1>1, <1>3, <1>4

-----------------------------------------------------------------------------
(* Launch. *)

LEMMA LaunchTypes ==
    ASSUME TypeInv, NEW w \in Worker, NEW u \in User, NEW k \in Key \cup {None},
           Launch(w, u, k)
    PROVE  TypeInv'
<1> DEFINE r == [NoRequest EXCEPT !.kind = "launch", !.user = u, !.key = k]
<1>1. /\ pc[w] = "idle" /\ req' = [req EXCEPT ![w] = r]
      /\ pc' = [pc EXCEPT ![w] = "dedup"]
      /\ UNCHANGED <<rows, used, drawn, env, jobs, loaded, reply, faults>>
  BY DEF Launch, Goto, table, orch
<1>2. r \in Request /\ r.kind = "launch" /\ r.user = u
  BY DEF NoRequest, Request, Kinds
<1>3. loaded' = [loaded EXCEPT ![w] = loaded[w]] /\ loaded[w] \in Row \cup {None}
  BY <1>1 DEF TypeInv, TypeOK
<1>4. /\ pc' \in [Worker -> {"idle", "dedup", "quota", "insert", "wait", "commit"}]
      /\ pc'[w] = "dedup" /\ reply'[w] = None
      /\ \A v \in Worker \ {w} : pc'[v] = pc[v]
  BY <1>1 DEF TypeInv, TypeOK, Underway
<1> HIDE DEF r
<1>5. /\ req' \in [Worker -> Request \cup {NoRequest}]
      /\ loaded' \in [Worker -> Row \cup {None}]
      /\ ExtendsBelow' /\ Underway'
  <2>1. reply' \in [Worker -> {"ok", "refused", "lost", None}]
    BY <1>1 DEF TypeInv, TypeOK
  <2> QED
    BY <1>1, <1>2, <1>3, <1>4, <2>1, TakenUp
<1> QED
  BY <1>1, <1>4, <1>5 DEF TypeInv, TypeOK

LEMMA DedupQuotaTypes ==
    ASSUME TypeInv, NEW w \in Worker, Dedup(w) \/ Quota(w)
    PROVE  TypeInv'
<1>1. UNCHANGED <<rows, used, drawn, env, jobs, faults>>
  BY DEF Dedup, Quota, table, orch
<1>2. CASE Return(w)
  BY <1>1, <1>2, ReturnKeeps DEF TypeInv, TypeOK
<1>3. CASE ~Return(w)
  <2>1. /\ pc[w] \in {"dedup", "quota"} /\ UNCHANGED <<req, loaded, reply>>
        /\ pc' = [pc EXCEPT ![w] = "quota"] \/ pc' = [pc EXCEPT ![w] = "insert"]
    BY <1>3 DEF Dedup, Quota, Goto
  <2>2. /\ pc' \in [Worker -> {"idle", "dedup", "quota", "insert", "wait", "commit"}]
        /\ pc'[w] \in {"quota", "insert"} /\ \A v \in Worker \ {w} : pc'[v] = pc[v]
    BY <2>1 DEF TypeInv, TypeOK
  <2>3. TypeOK'
    BY <1>1, <2>1, <2>2 DEF TypeInv, TypeOK
  <2>4. ExtendsBelow' /\ Underway'
    BY <2>1, <2>2 DEF TypeInv, ExtendsBelow, Underway
  <2> QED
    BY <2>3, <2>4 DEF TypeInv
<1> QED
  BY <1>2, <1>3

LEMMA InsertTypes ==
    ASSUME TypeInv, NEW w \in Worker, Insert(w)
    PROVE  TypeInv'
<1>1. PICK s \in Session \ used, seed \in Seed \ drawn :
        /\ pc[w] = "insert"
        /\ rows'  = [rows EXCEPT ![s] = NewRow(req[w].user, req[w].key, seed)]
        /\ used'  = used \cup {s}
        /\ drawn' = drawn \cup {seed}
        /\ req'   = [req EXCEPT ![w] = [req[w] EXCEPT !.session = s, !.seed = seed]]
        /\ Call(w, "launch", s, seed)
        /\ UNCHANGED <<env, loaded>>
  BY DEF Insert, TypeInv, TypeOK
<1> DEFINE r == [req[w] EXCEPT !.session = s, !.seed = seed]
<1>2. req[w] \in Request /\ req[w].kind = "launch" /\ req[w].user \in User
  <2>1. req[w].kind = "launch" /\ req[w].user \in User
    BY <1>1 DEF TypeInv, Underway
  <2> QED
    BY <2>1, NoRequestParts DEF TypeInv, TypeOK
<1>3. r \in Request /\ r.kind = "launch" /\ r.session = s
  BY <1>2 DEF Request
<1>4. NewRow(req[w].user, req[w].key, seed) \in Row
  BY <1>2, RequestParts, ConstantsOK DEF NewRow, Row, TypeInv
<1>5. /\ jobs' \in SUBSET Job
      /\ pc' \in [Worker -> {"idle", "dedup", "quota", "insert", "wait", "commit"}]
      /\ reply' \in [Worker -> {"ok", "refused", "lost", None}]
      /\ faults' \in 0..MaxFaults
      /\ pc'[w] = "wait"
      /\ \A v \in Worker \ {w} : pc'[v] = pc[v] /\ reply'[v] = reply[v]
  BY <1>1, CallTypes DEF TypeInv
<1>6. loaded' = [loaded EXCEPT ![w] = loaded[w]] /\ loaded[w] \in Row \cup {None}
  BY <1>1 DEF TypeInv, TypeOK
<1>7. req' = [req EXCEPT ![w] = r]
  BY <1>1
<1> HIDE DEF r
<1>8. /\ req' \in [Worker -> Request \cup {NoRequest}]
      /\ loaded' \in [Worker -> Row \cup {None}]
      /\ ExtendsBelow' /\ Underway'
  BY <1>3, <1>5, <1>6, <1>7, TakenUp
<1>9. /\ rows' \in [Session -> Row \cup {None}]
      /\ used' \in SUBSET Session /\ drawn' \in SUBSET Seed
      /\ env' \in [Session -> Seed \cup {None}]
  BY <1>1, <1>4 DEF TypeInv, TypeOK
<1> QED
  BY <1>5, <1>8, <1>9 DEF TypeInv, TypeOK

\* A handler that answers changes one row at most.
LEMMA AnswerTypes ==
    ASSUME TypeInv, NEW w \in Worker, Return(w), UNCHANGED <<used, drawn, orch, faults>>,
           rows' \in [Session -> Row \cup {None}]
    PROVE  TypeInv'
BY ReturnKeeps DEF TypeInv, TypeOK, orch

LEMMA LaunchAnswerTypes ==
    ASSUME TypeInv, LaunchOwn, NEW w \in Worker, LaunchAnswer(w)
    PROVE  TypeInv'
<1> DEFINE s == req[w].session
<1>1. /\ pc[w] = "wait" /\ req[w].kind = "launch"
      /\ rows' = [rows EXCEPT ![s] = AfterLaunch(s, reply[w])]
      /\ Return(w) /\ UNCHANGED <<used, drawn, orch, faults>>
      /\ reply[w] # None
  BY DEF LaunchAnswer
<1>2. s \in Session /\ Exists(s)
  BY <1>1 DEF TypeInv, Underway, LaunchOwn, Launching
<1>3. rows[s] \in Row
  BY <1>2 DEF TypeInv, TypeOK, Exists
<1>4. reply[w] \in {"ok", "refused", "lost"}
  BY <1>1 DEF TypeInv, TypeOK
<1>5. AfterLaunch(s, reply[w]) \in Row \cup {None}
  BY <1>3, <1>4 DEF AfterLaunch, Row
<1>6. rows' \in [Session -> Row \cup {None}]
  BY <1>1, <1>5 DEF TypeInv, TypeOK
<1> QED
  BY <1>1, <1>6, AnswerTypes

-----------------------------------------------------------------------------
(* Requests on a session. *)

LEMMA StartCommitTypes ==
    ASSUME TypeInv, NEW w \in Worker, NEW s \in Session,
           StartExtend(w, s) \/ StartFinalize(w, s)
    PROVE  TypeInv'
<1>1. PICK kind \in {"extend", "finalize"} :
        /\ Exists(s) /\ pc[w] = "idle"
        /\ kind = "extend" => rows[s].extra < MaxExtend
        /\ req' = [req EXCEPT ![w] = [NoRequest EXCEPT !.kind = kind, !.session = s,
                                                       !.seed = None]]
        /\ loaded' = [loaded EXCEPT ![w] = rows[s]]
        /\ pc' = [pc EXCEPT ![w] = "commit"]
        /\ UNCHANGED <<rows, used, drawn, env, jobs, reply, faults>>
  BY DEF StartExtend, StartFinalize, Load, Goto, table, orch
<1> DEFINE r == [NoRequest EXCEPT !.kind = kind, !.session = s, !.seed = None]
<1>2. r \in Request /\ r.kind = kind /\ r.session = s
  BY DEF NoRequest, Request, Kinds
<1>3. rows[s] \in Row /\ rows[s] # None
  BY <1>1 DEF TypeInv, TypeOK, Exists
<1>4. /\ pc' \in [Worker -> {"idle", "dedup", "quota", "insert", "wait", "commit"}]
      /\ pc'[w] = "commit" /\ reply'[w] = None
      /\ \A v \in Worker \ {w} : pc'[v] = pc[v]
      /\ reply' \in [Worker -> {"ok", "refused", "lost", None}]
  BY <1>1 DEF TypeInv, TypeOK, Underway
<1> HIDE DEF r
<1>5. req' = [req EXCEPT ![w] = r]
  BY <1>1 DEF r
<1>6. /\ req' \in [Worker -> Request \cup {NoRequest}]
      /\ loaded' \in [Worker -> Row \cup {None}]
      /\ ExtendsBelow' /\ Underway'
  BY <1>1, <1>2, <1>3, <1>4, <1>5, TakenUp
<1> QED
  BY <1>1, <1>4, <1>6 DEF TypeInv, TypeOK

LEMMA StartCallTypes ==
    ASSUME TypeInv, NEW w \in Worker, NEW s \in Session, StartReset(w, s) \/ StartDestroy(w, s)
    PROVE  TypeInv'
<1>1. PICK kind \in {"reset", "destroy"}, seed \in Seed \cup {None} :
        /\ Exists(s)
        /\ kind = "reset" => seed \in Seed
        /\ req' = [req EXCEPT ![w] = [NoRequest EXCEPT !.kind = kind, !.session = s,
                                                       !.seed = seed]]
        /\ loaded' = [loaded EXCEPT ![w] = rows[s]]
        /\ Call(w, kind, s, seed)
        /\ drawn' \in SUBSET Seed
        /\ UNCHANGED <<rows, used, env>>
  <2>1. CASE StartReset(w, s)
    <3>1. PICK seed \in Seed \ drawn :
            /\ Load(w, "reset", s, seed)
            /\ drawn' = drawn \cup {seed}
            /\ Call(w, "reset", s, seed)
            /\ UNCHANGED <<rows, used, env>>
      BY <2>1 DEF StartReset
    <3>2. drawn' \in SUBSET Seed
      BY <3>1 DEF TypeInv, TypeOK
    <3> QED
      BY <3>1, <3>2 DEF Load
  <2>2. CASE StartDestroy(w, s)
    <3>1. /\ Load(w, "destroy", s, None) /\ Call(w, "destroy", s, None)
          /\ UNCHANGED <<rows, used, drawn, env>>
      BY <2>2 DEF StartDestroy, table
    <3>2. drawn' \in SUBSET Seed
      BY <3>1 DEF TypeInv, TypeOK
    <3> QED
      BY <3>1, <3>2 DEF Load
  <2> QED
    BY <2>1, <2>2
<1> DEFINE r == [NoRequest EXCEPT !.kind = kind, !.session = s, !.seed = seed]
<1>2. r \in Request /\ r.kind = kind /\ r.session = s /\ r.seed = seed
  BY DEF NoRequest, Request, Kinds
<1>3. rows[s] \in Row /\ rows[s] # None
  BY <1>1 DEF TypeInv, TypeOK, Exists
<1>4. /\ jobs' \in SUBSET Job
      /\ pc' \in [Worker -> {"idle", "dedup", "quota", "insert", "wait", "commit"}]
      /\ reply' \in [Worker -> {"ok", "refused", "lost", None}]
      /\ faults' \in 0..MaxFaults
      /\ pc'[w] = "wait"
      /\ \A v \in Worker \ {w} : pc'[v] = pc[v] /\ reply'[v] = reply[v]
  BY <1>1, CallTypes DEF TypeInv
<1> HIDE DEF r
<1>5. req' = [req EXCEPT ![w] = r]
  BY <1>1 DEF r
<1>6. /\ req' \in [Worker -> Request \cup {NoRequest}]
      /\ loaded' \in [Worker -> Row \cup {None}]
      /\ ExtendsBelow' /\ Underway'
  BY <1>1, <1>2, <1>3, <1>4, <1>5, TakenUp
<1> QED
  BY <1>1, <1>4, <1>6 DEF TypeInv, TypeOK

\* What a handler that commits makes of a row.
LEMMA CommitRows ==
    ASSUME TypeInv, NEW w \in Worker,
           CommitExtend(w) \/ CommitFinalize(w) \/ ResetAnswer(w) \/ DestroyAnswer(w)
    PROVE  /\ rows' \in [Session -> Row \cup {None}]
           /\ SameRows
           /\ Return(w)
           /\ UNCHANGED <<used, drawn, orch, faults>>
<1> DEFINE s == req[w].session
<1>1. /\ Return(w) /\ UNCHANGED <<used, drawn, orch, faults>>
      /\ pc[w] \in {"wait", "commit"}
  BY DEF CommitExtend, CommitFinalize, ResetAnswer, DestroyAnswer
<1>2. s \in Session
  BY <1>1 DEF TypeInv, Underway
<1>3. \A new \in {"active", "destroyed"} :
         Exists(s) => Written(w, s, new) \in {"active", "destroyed"}
  BY <1>2 DEF TypeInv, TypeOK, Exists, Row, Written
<1>4. Exists(s) => rows[s] \in Row
  BY <1>2 DEF TypeInv, TypeOK, Exists
<1>5. rows' = rows \/ (Exists(s) /\ \E row \in Row : rows' = [rows EXCEPT ![s] = row])
  <2>1. CASE CommitExtend(w) /\ Exists(s)
    <3>1. rows' = [rows EXCEPT ![s].extra = loaded[w].extra + 1]
      BY <2>1 DEF CommitExtend
    <3>2. loaded[w] # None /\ loaded[w].extra < MaxExtend
      BY <2>1 DEF CommitExtend, TypeInv, ExtendsBelow
    <3>3. loaded[w] \in Row
      BY <3>2 DEF TypeInv, TypeOK
    <3>4. PICK n \in 0..MaxExtend : n = loaded[w].extra + 1
      BY <3>2, <3>3, ConstantsOK DEF Row
    <3>5. [rows[s] EXCEPT !.extra = n] \in Row
      BY <1>4, <2>1 DEF Row
    <3> QED
      BY <2>1, <3>1, <3>4, <3>5
  <2>2. CASE CommitFinalize(w) /\ Exists(s)
    <3>1. rows' = [rows EXCEPT ![s].finalized = TRUE]
      BY <2>2 DEF CommitFinalize
    <3>2. [rows[s] EXCEPT !.finalized = TRUE] \in Row
      BY <1>4, <2>2 DEF Row
    <3> QED
      BY <2>2, <3>1, <3>2
  <2>3. CASE ResetAnswer(w) /\ Exists(s) /\ reply[w] # "refused"
    <3> DEFINE row == [Rotated(w, s) EXCEPT !.targets = @ \/ reply[w] = "ok"]
    <3>1. rows' = [rows EXCEPT ![s] = row]
      BY <2>3 DEF ResetAnswer
    <3>2. req[w].seed \in Seed
      BY <2>3 DEF ResetAnswer, TypeInv, Underway
    <3>3. Rotated(w, s) \in Row
      BY <1>3, <1>4, <2>3, <3>2 DEF Rotated, Row
    <3>4. row \in Row
      BY <3>3 DEF Row
    <3> QED
      BY <2>3, <3>1, <3>4
  <2>4. CASE DestroyAnswer(w) /\ Exists(s) /\ MayDestroy(w)
    <3>1. rows' = [rows EXCEPT ![s].status = Written(w, s, "destroyed")]
      BY <2>4 DEF DestroyAnswer
    <3>2. [rows[s] EXCEPT !.status = Written(w, s, "destroyed")] \in Row
      BY <1>3, <1>4, <2>4 DEF Row
    <3> QED
      BY <2>4, <3>1, <3>2
  <2> QED
    BY <2>1, <2>2, <2>3, <2>4 DEF CommitExtend, CommitFinalize, ResetAnswer, DestroyAnswer
<1>6. rows' \in [Session -> Row \cup {None}]
  BY <1>5 DEF TypeInv, TypeOK
<1>7. SameRows
  <2>1. None \notin Row
    BY ConstantsOK
  <2> QED
    BY <1>2, <1>5, <2>1 DEF SameRows, Exists, TypeInv, TypeOK
<1> QED
  BY <1>1, <1>6, <1>7

-----------------------------------------------------------------------------
(* Handlers.  Each keeps Inv, and with one request at a time Solo. *)

\* Handlers that answer and keep every row.
LEMMA CommitKeeps ==
    ASSUME Inv, NEW w \in Worker,
           CommitExtend(w) \/ CommitFinalize(w) \/ ResetAnswer(w) \/ DestroyAnswer(w)
    PROVE  Inv' /\ (Solo => Solo')
<1>0. TypeInv /\ LaunchOwn /\ RowsUsed /\ JobsAwaited
  BY DEF Inv
<1>1. /\ rows' \in [Session -> Row \cup {None}] /\ SameRows /\ Return(w)
      /\ UNCHANGED <<used, drawn, orch, faults>>
  BY <1>0, CommitRows
<1>2. /\ req'[w].session = None
      /\ \A v \in Worker \ {w} : req'[v] = req[v] /\ pc'[v] = pc[v] /\ reply'[v] = reply[v]
  BY <1>0, <1>1, ReturnKeeps
<1>3. pc[w] # "wait" \/ reply[w] # None
  BY DEF CommitExtend, CommitFinalize, ResetAnswer, DestroyAnswer
<1>4. \A j \in jobs : j.by # w /\ j.by \in Worker \cup {None} /\ j.session \in Session
  <2>1. \A j \in jobs : j.by \in Worker \cup {None} /\ j.session \in Session
    BY <1>0 DEF TypeInv, TypeOK, Job
  <2>2. w # None
    BY ConstantsOK
  <2> QED
    BY <1>0, <1>3, <2>1, <2>2 DEF JobsAwaited
<1>5. jobs' = jobs /\ env' = env /\ used' = used
  BY <1>1 DEF orch
<1>6. TypeInv'
  BY <1>0, <1>1, AnswerTypes
<1>7. \A s \in Session : s # None
  BY ConstantsOK
<1>8. LaunchOwn'
  BY <1>0, <1>1, <1>2, <1>7 DEF LaunchOwn, Launching, SameRows
<1>9. RowsUsed'
  BY <1>0, <1>1, <1>5 DEF RowsUsed, SameRows
<1>10. JobsAwaited'
  BY <1>0, <1>2, <1>4, <1>5 DEF JobsAwaited
<1>11. ASSUME Solo
       PROVE  Solo'
  <2>1. Alone' /\ AtWork'
    BY <1>1, <1>2, <1>7, <1>11 DEF Solo, Alone, AtWork, SameRows
  <2>2. JobsHaveRow' /\ EnvHasRow'
    BY <1>1, <1>4, <1>5, <1>11 DEF Solo, JobsHaveRow, EnvHasRow, SameRows
  <2>3. Quiet'
    BY <1>2, <1>5, <1>7, <1>11 DEF Solo, Quiet, Launching
  <2> QED
    BY <2>1, <2>2, <2>3 DEF Solo
<1> QED
  BY <1>6, <1>8, <1>9, <1>10, <1>11 DEF Inv

\* The row of a refused launch goes, and with it nothing.
LEMMA LaunchAnswerKeeps ==
    ASSUME Inv, NEW w \in Worker, LaunchAnswer(w)
    PROVE  Inv' /\ (Solo => Solo')
<1> DEFINE s == req[w].session
<1>0. TypeInv /\ LaunchOwn /\ RowsUsed /\ JobsAwaited
  BY DEF Inv
<1>1. /\ pc[w] = "wait" /\ req[w].kind = "launch" /\ reply[w] # None
      /\ rows' = [rows EXCEPT ![s] = AfterLaunch(s, reply[w])]
      /\ Return(w) /\ UNCHANGED <<used, drawn, orch, faults>>
  BY DEF LaunchAnswer
<1>2. s \in Session /\ Launching(w, s) /\ Exists(s)
  BY <1>0, <1>1 DEF TypeInv, Underway, LaunchOwn, Launching
<1>3. /\ req'[w].session = None
      /\ \A v \in Worker \ {w} : req'[v] = req[v] /\ pc'[v] = pc[v] /\ reply'[v] = reply[v]
  BY <1>0, <1>1, ReturnKeeps
<1>4. \A j \in jobs : j.by # w /\ j.by \in Worker \cup {None} /\ j.session \in Session
  <2>1. \A j \in jobs : j.by \in Worker \cup {None} /\ j.session \in Session
    BY <1>0 DEF TypeInv, TypeOK, Job
  <2>2. w # None
    BY ConstantsOK
  <2> QED
    BY <1>0, <1>1, <2>1, <2>2 DEF JobsAwaited
<1>5. jobs' = jobs /\ env' = env /\ used' = used
  BY <1>1 DEF orch
<1>6. TypeInv'
  BY <1>0, LaunchAnswerTypes
<1>7. \A z \in Session \ {s} : Exists(z)' <=> Exists(z)
  BY <1>0, <1>1 DEF TypeInv, TypeOK, Exists
<1>8. reply[w] # "refused" => rows'[s] # None
  <2>1. rows[s] \in Row
    BY <1>0, <1>2 DEF TypeInv, TypeOK, Exists
  <2>2. reply[w] \in {"ok", "refused", "lost"}
    BY <1>0, <1>1 DEF TypeInv, TypeOK
  <2>3. [rows[s] EXCEPT !.targets = TRUE] \in Row
    BY <2>1 DEF Row
  <2>4. reply[w] # "refused" => AfterLaunch(s, reply[w]) \in Row
    BY <2>1, <2>2, <2>3 DEF AfterLaunch
  <2>5. rows'[s] = AfterLaunch(s, reply[w])
    BY <1>0, <1>1, <1>2 DEF TypeInv, TypeOK
  <2>6. None \notin Row
    BY ConstantsOK
  <2> QED
    BY <2>4, <2>5, <2>6
<1>9. \A z \in Session : z # None
  BY ConstantsOK
<1>10. LaunchOwn'
  <2> SUFFICES ASSUME NEW v \in Worker, NEW z \in Session, Launching(v, z)'
               PROVE  Exists(z)' /\ \A x \in Worker : Launching(x, z)' => x = v
    BY DEF LaunchOwn
  <2>1. v # w /\ Launching(v, z)
    BY <1>3, <1>9 DEF Launching
  <2>2. z # s
    BY <1>0, <1>2, <2>1 DEF LaunchOwn
  <2> QED
    BY <1>0, <1>3, <1>7, <1>9, <2>1, <2>2 DEF LaunchOwn, Launching
<1>11. RowsUsed'
  BY <1>0, <1>2, <1>5, <1>7 DEF RowsUsed
<1>12. JobsAwaited'
  BY <1>0, <1>3, <1>4, <1>5 DEF JobsAwaited
<1>13. ASSUME Solo
       PROVE  Solo'
  <2>1. Alone'
    BY <1>3, <1>9, <1>13 DEF Solo, Alone
  <2>2. AtWork'
    <3> SUFFICES ASSUME NEW v \in Worker, NEW z \in Session, req'[v].session = z
                 PROVE  Exists(z)'
      BY DEF AtWork
    <3>1. v # w /\ req[v].session = z
      BY <1>3, <1>9
    <3>2. z # s
      BY <1>13, <3>1 DEF Solo, Alone
    <3> QED
      BY <1>7, <1>13, <3>1, <3>2 DEF Solo, AtWork
  <2>3. reply[w] = "refused" => env[s] = None /\ \A j \in jobs : j.session # s
    BY <1>2, <1>4, <1>13 DEF Solo, Quiet
  <2>4. JobsHaveRow' /\ EnvHasRow'
    <3>1. \A z \in Session : (z # s \/ reply[w] # "refused") => (Exists(z) => Exists(z)')
      BY <1>7, <1>8 DEF Exists
    <3>2. \A j \in jobs : Exists(j.session)'
      BY <1>4, <1>13, <2>3, <3>1 DEF Solo, JobsHaveRow
    <3>3. \A z \in Session : env[z] # None => Exists(z)'
      BY <1>13, <2>3, <3>1 DEF Solo, EnvHasRow
    <3> QED
      BY <1>5, <3>2, <3>3 DEF JobsHaveRow, EnvHasRow
  <2>5. Quiet'
    BY <1>3, <1>5, <1>9, <1>13 DEF Solo, Quiet, Launching
  <2> QED
    BY <2>1, <2>2, <2>4, <2>5 DEF Solo
<1> QED
  BY <1>6, <1>10, <1>11, <1>12, <1>13 DEF Inv

\* A request for a new session, or a launch on its way to its insert.
LEMMA LaunchingKeeps ==
    ASSUME Inv, NEW w \in Worker,
           \/ \E u \in User, k \in Key \cup {None} : Launch(w, u, k)
           \/ Dedup(w) \/ Quota(w)
    PROVE  Inv' /\ (Solo => Solo')
<1>0. TypeInv /\ LaunchOwn /\ RowsUsed /\ JobsAwaited
  BY DEF Inv
<1>1. TypeInv'
  BY <1>0, LaunchTypes, DedupQuotaTypes
<1>2. /\ pc[w] # "wait" /\ UNCHANGED <<rows, used, jobs, env>>
      /\ req'[w] = req[w] \/ req'[w].session = None
      /\ \A v \in Worker \ {w} : req'[v] = req[v] /\ pc'[v] = pc[v] /\ reply'[v] = reply[v]
  <2>1. CASE \E u \in User, k \in Key \cup {None} : Launch(w, u, k)
    <3>1. PICK u \in User, k \in Key \cup {None} : Launch(w, u, k)
      BY <2>1
    <3>2. [NoRequest EXCEPT !.kind = "launch", !.user = u, !.key = k].session = None
      BY DEF NoRequest
    <3> QED
      BY <1>0, <3>1, <3>2 DEF Launch, Goto, table, orch, TypeInv, TypeOK
  <2>2. CASE (Dedup(w) \/ Quota(w)) /\ Return(w)
    BY <1>0, <2>2, ReturnKeeps DEF Dedup, Quota, table, orch
  <2>3. CASE (Dedup(w) \/ Quota(w)) /\ ~Return(w)
    BY <1>0, <2>3 DEF Dedup, Quota, Goto, table, orch, TypeInv, TypeOK
  <2> QED
    BY <2>1, <2>2, <2>3
<1>3. \A j \in jobs : j.by # w /\ j.by \in Worker \cup {None}
  <2>1. \A j \in jobs : j.by \in Worker \cup {None}
    BY <1>0 DEF TypeInv, TypeOK, Job
  <2>2. w # None
    BY ConstantsOK
  <2> QED
    BY <1>0, <1>2, <2>1, <2>2 DEF JobsAwaited
<1>4. \A z \in Session : z # None
  BY ConstantsOK
<1>5. LaunchOwn'
  BY <1>0, <1>2, <1>4 DEF LaunchOwn, Launching, Exists
<1>6. RowsUsed' /\ JobsAwaited'
  BY <1>0, <1>2, <1>3 DEF RowsUsed, Exists, JobsAwaited
<1>7. ASSUME Solo
      PROVE  Solo'
  <2>1. Alone' /\ AtWork' /\ JobsHaveRow' /\ EnvHasRow'
    BY <1>2, <1>4, <1>7 DEF Solo, Alone, AtWork, JobsHaveRow, EnvHasRow, Exists
  <2>2. reply[w] = None
    BY <1>0, <1>2 DEF TypeInv, Underway
  <2>3. Quiet'
    BY <1>2, <1>4, <1>7, <2>2 DEF Solo, Quiet, Launching
  <2> QED
    BY <2>1, <2>3 DEF Solo
<1> QED
  BY <1>1, <1>5, <1>6, <1>7 DEF Inv

\* What a call adds to the jobs.
LEMMA CallAdds ==
    ASSUME NEW w \in Worker, NEW kind, NEW s, NEW seed, Call(w, kind, s, seed)
    PROVE  \/ /\ jobs' = jobs \cup {[kind |-> kind, session |-> s, seed |-> seed, by |-> w]}
              /\ reply' = reply
           \/ jobs' = jobs
BY DEF Call

\* The jobs after a call of a worker that awaited none.
LEMMA CallAwaited ==
    ASSUME Inv, TypeInv', NEW w \in Worker, NEW kind \in {"launch", "reset", "destroy"},
           NEW s \in Session, NEW seed \in Seed \cup {None}, Call(w, kind, s, seed),
           pc[w] # "wait", req'[w].session = s,
           \A v \in Worker \ {w} : req'[v] = req[v]
    PROVE  JobsAwaited'
<1> DEFINE new == [kind |-> kind, session |-> s, seed |-> seed, by |-> w]
<1>0. TypeInv /\ JobsAwaited
  BY DEF Inv
<1>1. pc'[w] = "wait" /\ \A v \in Worker \ {w} : pc'[v] = pc[v] /\ reply'[v] = reply[v]
  BY <1>0, CallTypes DEF TypeInv
<1>2. \A j \in jobs : j.by # w /\ j.by \in Worker \cup {None}
  <2>1. \A j \in jobs : j.by \in Worker \cup {None}
    BY <1>0 DEF TypeInv, TypeOK, Job
  <2>2. w # None
    BY ConstantsOK
  <2> QED
    BY <1>0, <2>1, <2>2 DEF JobsAwaited
<1>3. reply[w] = None
  BY <1>0 DEF TypeInv, Underway
<1>4. new.by = w /\ new.session = s
  OBVIOUS
<1>5. (jobs' = jobs \cup {new} /\ reply' = reply) \/ jobs' = jobs
  BY CallAdds
<1> HIDE DEF new
<1>6. \A j \in jobs : j.by # None =>
         /\ pc'[j.by] = "wait" /\ reply'[j.by] = None /\ req'[j.by].session = j.session
         /\ \A k \in jobs : k.by = j.by => k = j
  BY <1>0, <1>1, <1>2 DEF JobsAwaited
<1>7. CASE jobs' = jobs
  BY <1>6, <1>7 DEF JobsAwaited
<1>8. CASE jobs' = jobs \cup {new} /\ reply' = reply
  BY <1>1, <1>2, <1>3, <1>4, <1>6, <1>8 DEF JobsAwaited
<1> QED
  BY <1>5, <1>7, <1>8

\* A new row has an id that nobody has.
LEMMA InsertKeeps ==
    ASSUME Inv, NEW w \in Worker, Insert(w)
    PROVE  Inv' /\ (Solo => Solo')
<1>0. TypeInv /\ LaunchOwn /\ RowsUsed /\ JobsAwaited
  BY DEF Inv
<1>1. PICK s \in Session \ used, seed \in Seed \ drawn :
        /\ pc[w] = "insert"
        /\ rows'  = [rows EXCEPT ![s] = NewRow(req[w].user, req[w].key, seed)]
        /\ used'  = used \cup {s}
        /\ req'   = [req EXCEPT ![w] = [req[w] EXCEPT !.session = s, !.seed = seed]]
        /\ Call(w, "launch", s, seed)
        /\ UNCHANGED <<env, loaded>>
  BY <1>0 DEF Insert, TypeInv, TypeOK
<1>2. TypeInv'
  BY <1>0, InsertTypes
<1>3. req[w].kind = "launch" /\ req[w] \in Request
  <2>1. req[w].kind = "launch"
    BY <1>0, <1>1 DEF TypeInv, Underway
  <2> QED
    BY <1>0, <2>1, NoRequestParts DEF TypeInv, TypeOK
<1>4. /\ req'[w].session = s /\ req'[w].kind = "launch"
      /\ \A v \in Worker \ {w} : req'[v] = req[v]
  BY <1>0, <1>1, <1>3 DEF TypeInv, TypeOK, Request
<1>5. ~Exists(s) /\ Exists(s)' /\ \A z \in Session \ {s} : Exists(z)' <=> Exists(z)
  <2>1. NewRow(req[w].user, req[w].key, seed) # None
    <3>1. req[w].user \in User /\ req[w].key \in Key \cup {None}
      BY <1>0, <1>1, RequestParts DEF TypeInv, Underway
    <3>2. NewRow(req[w].user, req[w].key, seed) \in Row
      BY <3>1, ConstantsOK DEF NewRow, Row
    <3> QED
      BY <3>2, ConstantsOK
  <2> QED
    BY <1>0, <1>1, <2>1 DEF TypeInv, TypeOK, Exists, RowsUsed
<1>6. \A v \in Worker \ {w} : pc'[v] = pc[v] /\ reply'[v] = reply[v]
  BY <1>0, <1>1, CallTypes DEF TypeInv
<1>7. JobsAwaited'
  BY <1>1, <1>2, <1>4, CallAwaited
<1>8. LaunchOwn'
  BY <1>0, <1>4, <1>5 DEF LaunchOwn, Launching
<1>9. RowsUsed'
  BY <1>0, <1>1, <1>5 DEF RowsUsed
<1>10. ASSUME Solo
       PROVE  Solo'
  <2>1. Alone'
    BY <1>4, <1>5, <1>10 DEF Solo, Alone, AtWork
  <2>2. AtWork'
    BY <1>4, <1>5, <1>10 DEF Solo, AtWork
  <2> DEFINE new == [kind |-> "launch", session |-> s, seed |-> seed, by |-> w]
  <2>3. new.session = s /\ new.by = w
    OBVIOUS
  <2>4. jobs' \subseteq jobs \cup {new}
    BY <1>1, CallAdds
  <2> HIDE DEF new
  <2>5. \A j \in jobs : j.session \in Session /\ j.session # s
    BY <1>0, <1>5, <1>10 DEF TypeInv, TypeOK, Job, Solo, JobsHaveRow
  <2>6. JobsHaveRow' /\ EnvHasRow'
    <3>1. \A j \in jobs : Exists(j.session)'
      BY <1>5, <1>10, <2>5 DEF Solo, JobsHaveRow, Exists
    <3>2. \A z \in Session : env[z] # None => Exists(z)'
      BY <1>5, <1>10 DEF Solo, EnvHasRow
    <3>3. env' = env
      BY <1>1
    <3> QED
      BY <1>5, <2>3, <2>4, <3>1, <3>2, <3>3 DEF JobsHaveRow, EnvHasRow, Exists
  <2>7. env[s] = None
    BY <1>5, <1>10 DEF Solo, EnvHasRow
  <2>8. Quiet'
    <3> SUFFICES ASSUME NEW v \in Worker, NEW z \in Session, Launching(v, z)',
                        reply'[v] \in {None, "refused"}
                 PROVE  env'[z] = None /\ \A j \in jobs' : j.session = z => j.by = v
      BY DEF Quiet
    <3>1. CASE v = w
      BY <1>1, <1>4, <2>3, <2>4, <2>5, <2>7, <3>1 DEF Launching
    <3>2. CASE v # w
      <4>1. Launching(v, z) /\ reply[v] \in {None, "refused"}
        BY <1>4, <1>6, <3>2 DEF Launching
      <4>2. z # s
        BY <1>0, <1>5, <4>1 DEF LaunchOwn
      <4> QED
        BY <1>1, <1>10, <2>3, <2>4, <4>1, <4>2 DEF Solo, Quiet
    <3> QED
      BY <3>1, <3>2
  <2> QED
    BY <2>1, <2>2, <2>6, <2>8 DEF Solo
<1> QED
  BY <1>2, <1>7, <1>8, <1>9, <1>10 DEF Inv

\* A request on a session that has a row, and no other request if they do not overlap.
LEMMA StartKeeps ==
    ASSUME Inv, NEW w \in Worker, NEW s \in Session,
           \/ StartExtend(w, s) \/ StartFinalize(w, s)
           \/ StartReset(w, s) \/ StartDestroy(w, s)
    PROVE  Inv' /\ (Overlap = FALSE /\ Solo => Solo')
<1>0. TypeInv /\ LaunchOwn /\ RowsUsed /\ JobsAwaited
  BY DEF Inv
<1>1. PICK kind \in {"extend", "finalize", "reset", "destroy"}, seed \in Seed \cup {None} :
        /\ Load(w, kind, s, seed)
        /\ UNCHANGED <<rows, used, env>>
        /\ \/ pc' = [pc EXCEPT ![w] = "commit"] /\ UNCHANGED <<jobs, reply>>
           \/ kind \in {"launch", "reset", "destroy"} /\ Call(w, kind, s, seed)
  BY DEF StartExtend, StartFinalize, StartReset, StartDestroy, Goto, table, orch
<1>2. TypeInv'
  BY <1>0, StartCommitTypes, StartCallTypes
<1>3. /\ pc[w] = "idle" /\ Exists(s)
      /\ req' = [req EXCEPT ![w] = [NoRequest EXCEPT !.kind = kind, !.session = s,
                                                     !.seed = seed]]
      /\ Overlap \/ \A v \in Worker : req[v].session # s
  BY <1>1 DEF Load
<1>4. /\ req'[w].kind # "launch" /\ req'[w].session = s
      /\ \A v \in Worker \ {w} : req'[v] = req[v]
  <2>1. [NoRequest EXCEPT !.kind = kind, !.session = s, !.seed = seed].kind = kind
        /\ [NoRequest EXCEPT !.kind = kind, !.session = s, !.seed = seed].session = s
    BY DEF NoRequest
  <2> QED
    BY <1>0, <1>3, <2>1 DEF TypeInv, TypeOK
<1>5. \A v \in Worker \ {w} : pc'[v] = pc[v] /\ reply'[v] = reply[v]
  BY <1>0, <1>1, CallTypes DEF TypeInv, TypeOK
<1>6. \A j \in jobs : j.by # w /\ j.by \in Worker \cup {None}
  <2>1. \A j \in jobs : j.by \in Worker \cup {None}
    BY <1>0 DEF TypeInv, TypeOK, Job
  <2>2. w # None
    BY ConstantsOK
  <2> QED
    BY <1>0, <1>3, <2>1, <2>2 DEF JobsAwaited
<1>7. JobsAwaited'
  <2>1. CASE jobs' = jobs
    BY <1>0, <1>4, <1>5, <1>6, <2>1 DEF JobsAwaited
  <2>2. CASE jobs' # jobs
    BY <1>1, <1>2, <1>3, <1>4, <2>2, CallAwaited
  <2> QED
    BY <2>1, <2>2
<1>8. LaunchOwn' /\ RowsUsed'
  BY <1>0, <1>1, <1>4 DEF LaunchOwn, Launching, RowsUsed, Exists
<1>9. ASSUME Overlap = FALSE, Solo
      PROVE  Solo'
  <2>1. \A v \in Worker : req[v].session # s
    BY <1>3, <1>9
  <2>2. Alone' /\ AtWork'
    BY <1>1, <1>3, <1>4, <1>9, <2>1 DEF Solo, Alone, AtWork, Exists
  <2> DEFINE new == [kind |-> kind, session |-> s, seed |-> seed, by |-> w]
  <2>3. new.session = s /\ jobs' \subseteq jobs \cup {new}
    BY <1>1, CallAdds
  <2> HIDE DEF new
  <2>4. JobsHaveRow' /\ EnvHasRow'
    BY <1>1, <1>3, <1>9, <2>3 DEF Solo, JobsHaveRow, EnvHasRow, Exists
  <2>5. Quiet'
    <3> SUFFICES ASSUME NEW v \in Worker, NEW z \in Session, Launching(v, z)',
                        reply'[v] \in {None, "refused"}
                 PROVE  env'[z] = None /\ \A j \in jobs' : j.session = z => j.by = v
      BY DEF Quiet
    <3>1. v # w /\ Launching(v, z) /\ reply[v] \in {None, "refused"}
      BY <1>4, <1>5 DEF Launching
    <3>2. z # s
      BY <2>1, <3>1 DEF Launching
    <3> QED
      BY <1>1, <1>9, <2>3, <3>1, <3>2 DEF Solo, Quiet
  <2> QED
    BY <2>2, <2>4, <2>5 DEF Solo
<1> QED
  BY <1>2, <1>7, <1>8, <1>9 DEF Inv

-----------------------------------------------------------------------------
(* The orchestrator. *)

\* It runs or refuses a call: no one but its caller hears of it.
LEMMA JobKeeps ==
    ASSUME Inv, NEW j \in jobs, Run(j) \/ Refuse(j)
    PROVE  Inv' /\ (Solo => Solo')
<1>0. TypeInv /\ LaunchOwn /\ RowsUsed /\ JobsAwaited
  BY DEF Inv
<1>1. PICK outcome \in {"ok", "refused"} :
        /\ jobs' = jobs \ {j}
        /\ reply' = IF j.by = None THEN reply ELSE [reply EXCEPT ![j.by] = outcome]
        /\ UNCHANGED <<rows, used, drawn, pc, req, loaded>>
        /\ env' = [env EXCEPT ![j.session] = j.seed]
           \/ env' = env
           \/ env' = [env EXCEPT ![j.session] = None]
        /\ outcome = "refused" => env' = env \/ env' = [env EXCEPT ![j.session] = None]
        /\ faults' \in 0..MaxFaults
  <2>1. faults' = faults \/ (faults < MaxFaults /\ faults' = faults + 1)
    BY DEF Run, Refuse, Fault, NoFault
  <2>2. faults' \in 0..MaxFaults
    BY <1>0, <2>1, ConstantsOK DEF TypeInv, TypeOK
  <2> QED
    BY <2>2 DEF Run, Refuse, Answer, table
<1>2. /\ j.session \in Session /\ j.seed \in Seed \cup {None}
      /\ j.by \in Worker \cup {None}
  BY <1>0 DEF TypeInv, TypeOK, Job
<1>3. TypeInv'
  <2>1. /\ reply' \in [Worker -> {"ok", "refused", "lost", None}]
        /\ env' \in [Session -> Seed \cup {None}]
        /\ jobs' \in SUBSET Job
    BY <1>0, <1>1, <1>2 DEF TypeInv, TypeOK
  <2>2. TypeOK'
    BY <1>0, <1>1, <2>1 DEF TypeInv, TypeOK
  <2>3. ExtendsBelow'
    BY <1>0, <1>1 DEF TypeInv, ExtendsBelow
  <2>4. Underway'
    BY <1>0, <1>1, <1>2 DEF TypeInv, TypeOK, Underway, JobsAwaited
  <2> QED
    BY <2>2, <2>3, <2>4 DEF TypeInv
<1>4. LaunchOwn' /\ RowsUsed'
  BY <1>0, <1>1 DEF LaunchOwn, Launching, RowsUsed, Exists
<1>5. JobsAwaited'
  BY <1>0, <1>1, <1>2 DEF JobsAwaited, TypeInv, TypeOK
<1>6. ASSUME Solo
      PROVE  Solo'
  <2>1. Alone' /\ AtWork' /\ JobsHaveRow'
    BY <1>1, <1>6 DEF Solo, Alone, AtWork, JobsHaveRow, Exists
  <2>2. \A z \in Session \ {j.session} : env'[z] = env[z]
    BY <1>0, <1>1 DEF TypeInv, TypeOK
  <2>3. EnvHasRow'
    BY <1>1, <1>6, <2>2 DEF Solo, EnvHasRow, JobsHaveRow, Exists
  <2>4. Quiet'
    <3> SUFFICES ASSUME NEW w \in Worker, NEW z \in Session, Launching(w, z)',
                        reply'[w] \in {None, "refused"}
                 PROVE  env'[z] = None /\ \A k \in jobs' : k.session = z => k.by = w
      BY DEF Quiet
    <3>1. Launching(w, z) /\ w # None
      BY <1>1, ConstantsOK DEF Launching
    <3>2. CASE j.by = w
      <4>1. z = j.session /\ reply[w] = None
        BY <1>0, <3>1, <3>2 DEF JobsAwaited, Launching
      <4>2. env[z] = None /\ \A k \in jobs : k.session = z => k.by = w
        BY <1>6, <3>1, <4>1 DEF Solo, Quiet
      <4>3. outcome = "refused"
        BY <1>0, <1>1, <3>1, <3>2, ConstantsOK DEF TypeInv, TypeOK
      <4>4. env'[z] = None
        BY <1>0, <1>1, <4>1, <4>2, <4>3 DEF TypeInv, TypeOK
      <4> QED
        BY <1>1, <4>2, <4>4
    <3>3. CASE j.by # w
      <4>1. reply'[w] = reply[w]
        BY <1>0, <1>1, <1>2, <3>3 DEF TypeInv, TypeOK
      <4>2. env[z] = None /\ \A k \in jobs : k.session = z => k.by = w
        BY <1>6, <3>1, <4>1 DEF Solo, Quiet
      <4> QED
        BY <1>1, <2>2, <3>3, <4>2
    <3> QED
      BY <3>2, <3>3
  <2> QED
    BY <2>1, <2>3, <2>4 DEF Solo
<1> QED
  BY <1>3, <1>4, <1>5, <1>6 DEF Inv

LEMMA EnvExpiresKeeps ==
    ASSUME Inv, NEW s \in Session, EnvExpires(s)
    PROVE  Inv' /\ (Solo => Solo')
<1>1. /\ env' = [env EXCEPT ![s] = None]
      /\ UNCHANGED <<rows, used, drawn, jobs, pc, req, loaded, reply, faults>>
  BY DEF EnvExpires, table, local
<1>2. TypeInv'
  BY <1>1 DEF Inv, TypeInv, TypeOK, ExtendsBelow, Underway
<1>3. LaunchOwn' /\ RowsUsed' /\ JobsAwaited'
  BY <1>1 DEF Inv, LaunchOwn, Launching, RowsUsed, JobsAwaited, Exists
<1>4. \A z \in Session : env'[z] # None => env'[z] = env[z]
  BY <1>1 DEF Inv, TypeInv, TypeOK
<1>5. Solo => Solo'
  BY <1>1, <1>4
     DEF Solo, Alone, AtWork, JobsHaveRow, EnvHasRow, Quiet, Launching, Exists
<1> QED
  BY <1>2, <1>3, <1>5 DEF Inv

\* A call that nobody waits for any more may still be run; its launch keeps its row.
LEMMA TimeoutKeeps ==
    ASSUME Inv, NEW w \in Worker, Timeout(w)
    PROVE  Inv' /\ (Solo => Solo')
<1> DEFINE left(j) == [j EXCEPT !.by = IF @ = w THEN None ELSE @]
<1>0. TypeInv /\ LaunchOwn /\ RowsUsed /\ JobsAwaited
  BY DEF Inv
<1>1. /\ pc[w] = "wait" /\ faults < MaxFaults /\ faults' = faults + 1
      /\ reply' = [reply EXCEPT ![w] = "lost"]
      /\ jobs' = {left(j) : j \in jobs}
      /\ UNCHANGED <<rows, used, drawn, env, pc, req, loaded>>
  BY DEF Timeout, Fault, table
<1>2. \A j \in jobs :
         /\ left(j) \in Job /\ left(j).session = j.session
         /\ left(j).by = (IF j.by = w THEN None ELSE j.by)
         /\ j.by # w => left(j) = j
  <2> SUFFICES ASSUME NEW j \in jobs
               PROVE  /\ left(j) \in Job /\ left(j).session = j.session
                      /\ left(j).by = (IF j.by = w THEN None ELSE j.by)
                      /\ j.by # w => left(j) = j
    OBVIOUS
  <2>1. j \in Job
    BY <1>0 DEF TypeInv, TypeOK
  <2> QED
    BY <2>1 DEF Job
<1> HIDE DEF left
<1>3. reply'[w] = "lost" /\ \A v \in Worker \ {w} : reply'[v] = reply[v]
  BY <1>0, <1>1 DEF TypeInv, TypeOK
<1>4. TypeInv'
  <2>1. faults' \in 0..MaxFaults
    BY <1>0, <1>1, ConstantsOK DEF TypeInv, TypeOK
  <2>2. TypeOK'
    BY <1>0, <1>1, <1>2, <2>1 DEF TypeInv, TypeOK
  <2>3. ExtendsBelow' /\ Underway'
    BY <1>0, <1>1, <1>3 DEF TypeInv, ExtendsBelow, Underway
  <2> QED
    BY <2>2, <2>3 DEF TypeInv
<1>5. LaunchOwn' /\ RowsUsed'
  BY <1>0, <1>1 DEF LaunchOwn, Launching, RowsUsed, Exists
<1>6. JobsAwaited'
  <2> SUFFICES ASSUME NEW j \in jobs, left(j).by # None
               PROVE  /\ pc[left(j).by] = "wait"
                      /\ reply'[left(j).by] = None
                      /\ req[left(j).by].session = left(j).session
                      /\ \A k \in jobs : left(k).by = left(j).by => left(k) = left(j)
    BY <1>1 DEF JobsAwaited
  <2>1. j.by # w /\ left(j) = j /\ j.by \in Worker
    BY <1>0, <1>2 DEF TypeInv, TypeOK, Job
  <2> QED
    BY <1>0, <1>2, <1>3, <2>1 DEF JobsAwaited
<1>7. ASSUME Solo
      PROVE  Solo'
  <2>1. Alone' /\ AtWork' /\ EnvHasRow'
    BY <1>1, <1>7 DEF Solo, Alone, AtWork, EnvHasRow, Exists
  <2>2. JobsHaveRow'
    BY <1>1, <1>2, <1>7 DEF Solo, JobsHaveRow, Exists
  <2>3. Quiet'
    <3> SUFFICES ASSUME NEW v \in Worker, NEW z \in Session, Launching(v, z),
                        reply'[v] \in {None, "refused"}
                 PROVE  env[z] = None /\ \A j \in jobs' : j.session = z => j.by = v
      BY <1>1 DEF Quiet, Launching
    <3>1. v # w /\ reply'[v] = reply[v]
      <4>1. "lost" \notin {None, "refused"}
        BY ConstantsOK
      <4> QED
        BY <1>3, <4>1
    <3>2. env[z] = None /\ \A j \in jobs : j.session = z => j.by = v
      BY <1>7, <3>1 DEF Solo, Quiet
    <3> QED
      BY <1>1, <1>2, <3>1, <3>2
  <2> QED
    BY <2>1, <2>2, <2>3 DEF Solo
<1> QED
  BY <1>4, <1>5, <1>6, <1>7 DEF Inv

-----------------------------------------------------------------------------
LEMMA InvInit ==
    ASSUME Init
    PROVE  Inv /\ Solo
<1>1. \A s \in Session : s # None
  BY ConstantsOK
<1>2. TypeInv
  <2>1. faults \in 0..MaxFaults
    BY ConstantsOK DEF Init
  <2> QED
    BY <2>1 DEF Init, TypeInv, TypeOK, ExtendsBelow, Underway
<1>3. \A w \in Worker, s \in Session : req[w].session # s
  BY <1>1, NoRequestParts DEF Init
<1>4. LaunchOwn /\ RowsUsed /\ JobsAwaited
  BY <1>3 DEF Init, LaunchOwn, Launching, RowsUsed, JobsAwaited, Exists
<1>5. Solo
  BY <1>3 DEF Init, Solo, Alone, AtWork, JobsHaveRow, EnvHasRow, Quiet, Launching
<1> QED
  BY <1>2, <1>4, <1>5 DEF Inv

LEMMA InvNext ==
    ASSUME Inv, [Next]_vars
    PROVE  Inv' /\ (Overlap = FALSE /\ Solo => Solo')
<1>1. CASE UNCHANGED vars
  BY <1>1 DEF vars, table, orch, local, Inv, TypeInv, TypeOK, ExtendsBelow, Underway,
              LaunchOwn, Launching, RowsUsed, JobsAwaited, Exists,
              Solo, Alone, AtWork, JobsHaveRow, EnvHasRow, Quiet
<1>2. ASSUME NEW w \in Worker, Start(w)
      PROVE  Inv' /\ (Overlap = FALSE /\ Solo => Solo')
  BY <1>2, LaunchingKeeps, StartKeeps DEF Start
<1>3. ASSUME NEW w \in Worker, Serve(w)
      PROVE  Inv' /\ (Overlap = FALSE /\ Solo => Solo')
  BY <1>3, LaunchingKeeps, InsertKeeps, LaunchAnswerKeeps, CommitKeeps DEF Serve
<1>4. ASSUME NEW w \in Worker, Timeout(w)
      PROVE  Inv' /\ (Overlap = FALSE /\ Solo => Solo')
  BY <1>4, TimeoutKeeps
<1>5. ASSUME NEW j \in jobs, Run(j) \/ Refuse(j)
      PROVE  Inv' /\ (Overlap = FALSE /\ Solo => Solo')
  BY <1>5, JobKeeps
<1>6. ASSUME NEW s \in Session, EnvExpires(s)
      PROVE  Inv' /\ (Overlap = FALSE /\ Solo => Solo')
  BY <1>6, EnvExpiresKeeps
<1> QED
  BY <1>1, <1>2, <1>3, <1>4, <1>5, <1>6 DEF Next

\* Every variable has its type, whether or not requests overlap; in particular the
\* answer to a launch finds the row it is about (launch, routers.py:196-228).
THEOREM TypeCorrect == Spec => []TypeOK
<1>1. Init => Inv
  BY InvInit
<1>2. Inv /\ [Next]_vars => Inv'
  BY InvNext
<1>3. Inv => TypeOK
  BY DEF Inv, TypeInv
<1> QED
  BY <1>1, <1>2, <1>3, PTL DEF Spec

\* When a session gets one request at a time, an environment belongs to a session that
\* has a row, however many calls are lost, late or refused and whenever leases end
\* (launch, routers.py:205-223: only a refused launch deletes its row).
THEOREM AlwaysHasRow ==
    ASSUME Overlap = FALSE
    PROVE  Spec => []EnvHasRow
<1>1. Init => Inv /\ Solo
  BY InvInit
<1>2. (Inv /\ Solo) /\ [Next]_vars => (Inv /\ Solo)'
  BY InvNext
<1>3. Inv /\ Solo => EnvHasRow
  BY DEF Solo
<1> QED
  BY <1>1, <1>2, <1>3, PTL DEF Spec

-----------------------------------------------------------------------------
(* One request of a session at a time, and calls that are refused but never lost: *)
(* what the orchestrator has agrees with what the table says.                     *)

Answered == Overlap = FALSE /\ Faults \subseteq {"refuse"}

\* What a handler relies on is still true when its answer comes.
WorkerFits(w) ==
    /\ reply[w] # "lost"
    /\ pc[w] \notin {"wait", "commit"} => req[w].session = None
    /\ pc[w] = "wait" => req[w].kind \in {"launch", "reset", "destroy"}
    /\ req[w].kind = "destroy" => req[w].seed = None
    /\ (pc[w] = "wait" /\ req[w].kind \in {"reset", "destroy"}) =>
          loaded[w] = rows[req[w].session]
    /\ \A s \in Session :
          /\ Launching(w, s) => rows[s].status = "active" /\ rows[s].seed = req[w].seed
          /\ (req[w].session = s /\ req[w].kind \in {"reset", "destroy"} /\ reply[w] = "ok")
                => env[s] \in {None, req[w].seed}

\* Session s has been reset and its row not yet been written.
ResetDone(w, s) == req[w].session = s /\ req[w].kind = "reset" /\ reply[w] = "ok"

\* A session whose launch is answered has targets, and an environment is that of an
\* active session with the seed of the row, or of a reset about to be committed.
SessionFits(s) ==
    /\ (Exists(s) /\ \A w \in Worker : ~Launching(w, s)) => rows[s].targets
    /\ env[s] # None =>
          \/ rows[s].status = "active" /\ env[s] = rows[s].seed
          \/ \E w \in Worker : ResetDone(w, s)

\* A call is for the seed of the request it belongs to.
JobsFit == \A j \in jobs : j.by # None /\ j.seed = req[j.by].seed

Matched ==
    /\ \A w \in Worker : WorkerFits(w)
    /\ \A s \in Session : SessionFits(s)
    /\ JobsFit

\* A step of worker w on session s disturbs no other worker and no other session.
LEMMA Elsewhere ==
    ASSUME Inv, Matched, NEW w \in Worker, NEW s \in Session,
           \A v \in Worker \ {w} : /\ req'[v] = req[v] /\ pc'[v] = pc[v]
                                   /\ reply'[v] = reply[v] /\ loaded'[v] = loaded[v]
                                   /\ req[v].session # s,
           \A z \in Session \ {s} : rows'[z] = rows[z] /\ env'[z] = env[z],
           req[w].session \in {s, None}, req'[w].session \in {s, None}
    PROVE  /\ \A v \in Worker \ {w} : WorkerFits(v)'
           /\ \A z \in Session \ {s} : SessionFits(z)'
<1>0. TypeInv /\ \A z \in Session : z # None
  BY ConstantsOK DEF Inv
<1>1. ASSUME NEW v \in Worker \ {w}
      PROVE  WorkerFits(v)'
  <2>1. WorkerFits(v)
    BY DEF Matched
  <2>2. \A z \in Session : req[v].session = z => rows'[z] = rows[z] /\ env'[z] = env[z]
    OBVIOUS
  <2>3. pc[v] = "wait" => req[v].session \in Session
    BY <1>0 DEF TypeInv, Underway
  <2> QED
    BY <2>1, <2>2, <2>3 DEF WorkerFits, Launching
<1>2. ASSUME NEW z \in Session \ {s}
      PROVE  SessionFits(z)'
  <2>1. SessionFits(z)
    BY DEF Matched
  <2>2. \A v \in Worker : /\ Launching(v, z)' <=> Launching(v, z)
                          /\ ResetDone(v, z)' <=> ResetDone(v, z)
    BY <1>0 DEF Launching, ResetDone
  <2> QED
    BY <2>1, <2>2 DEF SessionFits, Exists
<1> QED
  BY <1>1, <1>2

\* A call that is not refused at once is under way.
LEMMA CallGoes ==
    ASSUME Answered, NEW w, NEW kind, NEW s, NEW seed, Call(w, kind, s, seed)
    PROVE  /\ jobs' = jobs \cup {[kind |-> kind, session |-> s, seed |-> seed, by |-> w]}
           /\ pc' = [pc EXCEPT ![w] = "wait"]
           /\ reply' = reply
BY DEF Answered, Call, Fault, Goto

\* No call belongs to a worker that does not wait.
LEMMA JobsOfOthers ==
    ASSUME Inv, Matched, NEW w \in Worker, pc[w] # "wait" \/ reply[w] # None
    PROVE  \A j \in jobs : j.by # w /\ j.by \in Worker /\ j.session \in Session
<1>1. \A j \in jobs : j.by \in Worker /\ j.session \in Session
  BY DEF Inv, TypeInv, TypeOK, Job, Matched, JobsFit
<1> QED
  BY <1>1, ConstantsOK DEF Inv, JobsAwaited

-----------------------------------------------------------------------------
LEMMA LaunchingMatched ==
    ASSUME Inv, Solo, Matched, NEW w \in Worker,
           \/ \E u \in User, k \in Key \cup {None} : Launch(w, u, k)
           \/ Dedup(w) \/ Quota(w)
    PROVE  Matched'
<1>0. TypeInv /\ \A z \in Session : z # None
  BY ConstantsOK DEF Inv
<1>1. /\ pc[w] \notin {"wait", "commit"} /\ UNCHANGED <<rows, jobs, env>>
      /\ pc'[w] \notin {"wait", "commit"}
      /\ req'[w] = req[w] \/ (req'[w].session = None /\ req'[w].kind # "destroy")
      /\ reply'[w] \in {reply[w], None}
      /\ \A v \in Worker \ {w} : /\ req'[v] = req[v] /\ pc'[v] = pc[v]
                                 /\ reply'[v] = reply[v] /\ loaded'[v] = loaded[v]
  <2>1. CASE \E u \in User, k \in Key \cup {None} : Launch(w, u, k)
    <3>1. PICK u \in User, k \in Key \cup {None} : Launch(w, u, k)
      BY <2>1
    <3>2. /\ [NoRequest EXCEPT !.kind = "launch", !.user = u, !.key = k].session = None
          /\ [NoRequest EXCEPT !.kind = "launch", !.user = u, !.key = k].kind = "launch"
      BY DEF NoRequest
    <3> QED
      BY <1>0, <3>1, <3>2 DEF Launch, Goto, table, orch, TypeInv, TypeOK
  <2>2. CASE (Dedup(w) \/ Quota(w)) /\ Return(w)
    <3>1. /\ pc'[w] = "idle" /\ req'[w] = NoRequest /\ reply'[w] = None
      BY <1>0, <2>2 DEF Return, TypeInv, TypeOK
    <3> QED
      BY <1>0, <2>2, <3>1, ReturnKeeps, NoRequestParts DEF Dedup, Quota, table, orch
  <2>3. CASE (Dedup(w) \/ Quota(w)) /\ ~Return(w)
    BY <1>0, <2>3 DEF Dedup, Quota, Goto, table, orch, TypeInv, TypeOK
  <2> QED
    BY <2>1, <2>2, <2>3
<1>2. WorkerFits(w) /\ req[w].session = None /\ reply[w] = None
  BY <1>0, <1>1 DEF Matched, WorkerFits, TypeInv, Underway
<1>3. req'[w].session = None /\ reply'[w] = None
  BY <1>1, <1>2
<1>4. "lost" # None
  BY ConstantsOK
<1>5. \A v \in Worker : WorkerFits(v)'
  <2>1. WorkerFits(w)'
    BY <1>0, <1>1, <1>2, <1>3, <1>4 DEF WorkerFits, Launching
  <2>2. ASSUME NEW v \in Worker \ {w}
        PROVE  WorkerFits(v)'
    BY <1>1 DEF Matched, WorkerFits, Launching
  <2> QED
    BY <2>1, <2>2
<1>6. ASSUME NEW z \in Session
      PROVE  SessionFits(z)'
  <2>1. \A v \in Worker : /\ Launching(v, z)' <=> Launching(v, z)
                          /\ ResetDone(v, z)' <=> ResetDone(v, z)
    BY <1>0, <1>1, <1>2, <1>3 DEF Launching, ResetDone
  <2> QED
    BY <1>1, <2>1 DEF Matched, SessionFits, Exists
<1>7. JobsFit'
  BY <1>1, JobsOfOthers DEF Matched, JobsFit
<1> QED
  BY <1>5, <1>6, <1>7 DEF Matched

LEMMA InsertMatched ==
    ASSUME Inv, Solo, Matched, Answered, NEW w \in Worker, Insert(w)
    PROVE  Matched'
<1>0. TypeInv /\ RowsUsed /\ \A z \in Session : z # None
  BY ConstantsOK DEF Inv
<1>1. PICK s \in Session \ used, seed \in Seed \ drawn :
        /\ pc[w] = "insert"
        /\ rows'  = [rows EXCEPT ![s] = NewRow(req[w].user, req[w].key, seed)]
        /\ req'   = [req EXCEPT ![w] = [req[w] EXCEPT !.session = s, !.seed = seed]]
        /\ Call(w, "launch", s, seed)
        /\ UNCHANGED <<env, loaded>>
  BY <1>0 DEF Insert, TypeInv, TypeOK
<1> DEFINE new == [kind |-> "launch", session |-> s, seed |-> seed, by |-> w]
<1>2. jobs' = jobs \cup {new} /\ pc' = [pc EXCEPT ![w] = "wait"] /\ reply' = reply
  BY <1>1, CallGoes
<1>3. req[w].kind = "launch" /\ req[w] \in Request /\ req[w].session = None /\ reply[w] = None
  <2>1. req[w].kind = "launch" /\ reply[w] = None
    BY <1>0, <1>1 DEF TypeInv, Underway
  <2>2. req[w].session = None
    BY <1>1 DEF Matched, WorkerFits
  <2> QED
    BY <1>0, <2>1, <2>2, NoRequestParts DEF TypeInv, TypeOK
<1>4. /\ req'[w].session = s /\ req'[w].kind = "launch" /\ req'[w].seed = seed
      /\ pc'[w] = "wait"
      /\ \A v \in Worker \ {w} : req'[v] = req[v] /\ pc'[v] = pc[v]
  BY <1>0, <1>1, <1>2, <1>3 DEF TypeInv, TypeOK, Request
<1>5. ~Exists(s) /\ env[s] = None /\ \A v \in Worker : req[v].session # s
  BY <1>0, <1>1 DEF RowsUsed, Solo, EnvHasRow, AtWork
<1>6. /\ rows'[s].status = "active" /\ rows'[s].seed = seed
      /\ \A z \in Session \ {s} : rows'[z] = rows[z]
  BY <1>0, <1>1 DEF TypeInv, TypeOK, NewRow
<1>7. /\ \A v \in Worker \ {w} : WorkerFits(v)'
      /\ \A z \in Session \ {s} : SessionFits(z)'
  BY <1>1, <1>2, <1>3, <1>4, <1>5, <1>6, Elsewhere
<1>8. WorkerFits(w)'
  <2>1. "lost" # None
    BY ConstantsOK
  <2> QED
    BY <1>2, <1>3, <1>4, <1>6, <2>1 DEF WorkerFits, Launching
<1>9. SessionFits(s)'
  BY <1>1, <1>4, <1>5 DEF SessionFits, Launching
<1>10. JobsFit'
  <2>1. new.by = w /\ new.seed = seed /\ w # None
    BY ConstantsOK
  <2>2. \A j \in jobs : j.by # w /\ j.by \in Worker
    BY <1>1, JobsOfOthers
  <2> HIDE DEF new
  <2> QED
    BY <1>2, <1>4, <2>1, <2>2 DEF Matched, JobsFit
<1> QED
  BY <1>7, <1>8, <1>9, <1>10 DEF Matched

LEMMA StartMatched ==
    ASSUME Inv, Solo, Matched, Answered, NEW w \in Worker, NEW s \in Session,
           \/ StartExtend(w, s) \/ StartFinalize(w, s)
           \/ StartReset(w, s) \/ StartDestroy(w, s)
    PROVE  Matched'
<1>0. TypeInv /\ \A z \in Session : z # None
  BY ConstantsOK DEF Inv
<1>1. PICK kind \in {"extend", "finalize", "reset", "destroy"}, seed \in Seed \cup {None} :
        /\ Load(w, kind, s, seed)
        /\ kind = "destroy" => seed = None
        /\ UNCHANGED <<rows, env>>
        /\ \/ /\ pc' = [pc EXCEPT ![w] = "commit"] /\ UNCHANGED <<jobs, reply>>
              /\ kind \in {"extend", "finalize"}
           \/ kind \in {"reset", "destroy"} /\ Call(w, kind, s, seed)
  BY DEF StartExtend, StartFinalize, StartReset, StartDestroy, Goto, table, orch
<1> DEFINE new == [kind |-> kind, session |-> s, seed |-> seed, by |-> w]
<1>2. /\ reply' = reply
      /\ \/ jobs' = jobs /\ pc' = [pc EXCEPT ![w] = "commit"] /\ kind \in {"extend", "finalize"}
         \/ /\ jobs' = jobs \cup {new} /\ pc' = [pc EXCEPT ![w] = "wait"]
            /\ kind \in {"reset", "destroy"}
  BY <1>1, CallGoes
<1>3. /\ pc[w] = "idle" /\ Exists(s) /\ \A v \in Worker : req[v].session # s
      /\ req' = [req EXCEPT ![w] = [NoRequest EXCEPT !.kind = kind, !.session = s,
                                                     !.seed = seed]]
      /\ loaded' = [loaded EXCEPT ![w] = rows[s]]
  BY <1>1 DEF Load, Answered
<1>4. /\ req'[w].session = s /\ req'[w].kind = kind /\ req'[w].seed = seed
      /\ loaded'[w] = rows[s]
      /\ pc'[w] = "commit" \/ (pc'[w] = "wait" /\ kind \in {"reset", "destroy"})
      /\ \A v \in Worker \ {w} : req'[v] = req[v] /\ pc'[v] = pc[v] /\ loaded'[v] = loaded[v]
  <2>1. /\ [NoRequest EXCEPT !.kind = kind, !.session = s, !.seed = seed].kind = kind
        /\ [NoRequest EXCEPT !.kind = kind, !.session = s, !.seed = seed].session = s
        /\ [NoRequest EXCEPT !.kind = kind, !.session = s, !.seed = seed].seed = seed
    BY DEF NoRequest
  <2> HIDE DEF new
  <2> QED
    BY <1>0, <1>2, <1>3, <2>1 DEF TypeInv, TypeOK
<1>5. req[w].session = None /\ reply[w] = None
  BY <1>0, <1>3 DEF Matched, WorkerFits, TypeInv, Underway
<1>6. /\ \A v \in Worker \ {w} : WorkerFits(v)'
      /\ \A z \in Session \ {s} : SessionFits(z)'
  BY <1>1, <1>2, <1>3, <1>4, <1>5, Elsewhere
<1>7. WorkerFits(w)'
  <2>1. "lost" # None /\ "ok" # None
    BY ConstantsOK
  <2>2. reply'[w] = None /\ rows' = rows
    BY <1>1, <1>2, <1>5
  <2> QED
    BY <1>1, <1>4, <2>1, <2>2 DEF WorkerFits, Launching
<1>8. SessionFits(s)'
  <2>1. \A v \in Worker : ~Launching(v, s) /\ ~ResetDone(v, s)
    BY <1>3 DEF Launching, ResetDone
  <2> QED
    BY <1>1, <2>1 DEF Matched, SessionFits, Exists
<1>9. JobsFit'
  <2>1. new.by = w /\ new.seed = seed /\ w # None
    BY ConstantsOK
  <2>2. \A j \in jobs : j.by # w /\ j.by \in Worker
    BY <1>3, JobsOfOthers
  <2> HIDE DEF new
  <2> QED
    BY <1>2, <1>4, <2>1, <2>2 DEF Matched, JobsFit
<1> QED
  BY <1>6, <1>7, <1>8, <1>9 DEF Matched

-----------------------------------------------------------------------------
\* What is common to handlers that answer: w leaves its session s, of which no other
\* worker knows, and nothing but the row changes.
LEMMA AnswerMatched ==
    ASSUME Inv, Solo, Matched, NEW w \in Worker, NEW s \in Session, Return(w),
           req[w].session = s, UNCHANGED orch, pc[w] # "wait" \/ reply[w] # None,
           \A z \in Session \ {s} : rows'[z] = rows[z],
           Exists(s)' => rows'[s].targets,
           env[s] # None => rows'[s].status = "active" /\ env[s] = rows'[s].seed
    PROVE  Matched'
<1>0. TypeInv /\ \A z \in Session : z # None
  BY ConstantsOK DEF Inv
<1>1. /\ pc'[w] = "idle" /\ req'[w] = NoRequest /\ reply'[w] = None
      /\ \A v \in Worker \ {w} : /\ req'[v] = req[v] /\ pc'[v] = pc[v]
                                 /\ reply'[v] = reply[v] /\ loaded'[v] = loaded[v]
  BY <1>0 DEF Return, TypeInv, TypeOK
<1>2. \A v \in Worker \ {w} : req[v].session # s
  BY DEF Solo, Alone
<1>3. jobs' = jobs /\ env' = env
  BY DEF orch
<1>4. /\ \A v \in Worker \ {w} : WorkerFits(v)'
      /\ \A z \in Session \ {s} : SessionFits(z)'
  BY <1>1, <1>2, <1>3, NoRequestParts, Elsewhere
<1>5. WorkerFits(w)'
  <2>1. "lost" # None
    BY ConstantsOK
  <2> QED
    BY <1>0, <1>1, <2>1, NoRequestParts DEF WorkerFits, Launching
<1>6. SessionFits(s)'
  BY <1>3 DEF SessionFits
<1>7. JobsFit'
  BY <1>1, <1>3, JobsOfOthers DEF Matched, JobsFit
<1> QED
  BY <1>4, <1>5, <1>6, <1>7 DEF Matched

LEMMA LaunchAnswerMatched ==
    ASSUME Inv, Solo, Solo', Matched, NEW w \in Worker, LaunchAnswer(w)
    PROVE  Matched'
<1>0. TypeInv /\ LaunchOwn
  BY DEF Inv
<1>1. PICK s \in Session :
        /\ pc[w] = "wait" /\ req[w].kind = "launch" /\ req[w].session = s /\ reply[w] # None
        /\ rows' = [rows EXCEPT ![s] = AfterLaunch(s, reply[w])]
        /\ Return(w) /\ UNCHANGED orch
  BY <1>0 DEF LaunchAnswer, TypeInv, Underway
<1>2. Launching(w, s) /\ Exists(s) /\ rows[s] \in Row
  BY <1>0, <1>1 DEF TypeInv, TypeOK, LaunchOwn, Launching, Exists
<1>3. reply[w] \in {"ok", "refused"}
  BY <1>0, <1>1 DEF TypeInv, TypeOK, Matched, WorkerFits
<1>4. /\ rows'[s] = AfterLaunch(s, reply[w])
      /\ \A z \in Session \ {s} : rows'[z] = rows[z]
  BY <1>0, <1>1 DEF TypeInv, TypeOK
<1>5. reply[w] = "refused" => ~Exists(s)'
  BY <1>4 DEF AfterLaunch, Exists
<1>6. reply[w] = "ok" => /\ rows'[s].targets
                         /\ rows'[s].status = rows[s].status
                         /\ rows'[s].seed = rows[s].seed
  <2>1. reply[w] = "ok" => rows'[s] = [rows[s] EXCEPT !.targets = TRUE]
    BY <1>4 DEF AfterLaunch
  <2> QED
    BY <1>2, <2>1 DEF Row
<1>7. env[s] # None => rows'[s].status = "active" /\ env[s] = rows'[s].seed
  <2> SUFFICES ASSUME env[s] # None
               PROVE  rows'[s].status = "active" /\ env[s] = rows'[s].seed
    OBVIOUS
  <2>1. ~(\E v \in Worker : ResetDone(v, s))
    BY <1>1, <1>2 DEF ResetDone, Solo, Alone
  <2>2. rows[s].status = "active" /\ env[s] = rows[s].seed
    BY <1>2, <2>1 DEF Matched, SessionFits
  <2>3. reply[w] # "refused"
    BY <1>1, <1>5 DEF Solo, EnvHasRow, orch
  <2> QED
    BY <1>3, <1>6, <2>2, <2>3
<1> QED
  BY <1>1, <1>3, <1>4, <1>5, <1>6, <1>7, AnswerMatched

LEMMA CommitMatched ==
    ASSUME Inv, Solo, Matched, NEW w \in Worker,
           CommitExtend(w) \/ CommitFinalize(w) \/ ResetAnswer(w) \/ DestroyAnswer(w)
    PROVE  Matched'
<1> DEFINE s == req[w].session
<1>0. TypeInv
  BY DEF Inv
<1>1. /\ Return(w) /\ UNCHANGED orch
      /\ pc[w] \in {"wait", "commit"} /\ (pc[w] # "wait" \/ reply[w] # None)
      /\ req[w].kind \in {"extend", "finalize", "reset", "destroy"}
  BY DEF CommitExtend, CommitFinalize, ResetAnswer, DestroyAnswer
<1>2. s \in Session /\ Exists(s) /\ rows[s] \in Row
  <2>1. s \in Session
    BY <1>0, <1>1 DEF TypeInv, Underway
  <2> QED
    BY <1>0, <2>1 DEF Solo, AtWork, TypeInv, TypeOK, Exists
<1>3. \A v \in Worker : v # w => ~(req[v].session = s)
  BY <1>2 DEF Solo, Alone
<1>4. /\ rows[s].targets
      /\ env[s] # None => \/ rows[s].status = "active" /\ env[s] = rows[s].seed
                          \/ ResetDone(w, s)
  <2>1. \A v \in Worker : ~Launching(v, s)
    BY <1>1, <1>3 DEF Launching
  <2>2. \A v \in Worker : ResetDone(v, s) => v = w
    BY <1>3 DEF ResetDone
  <2> QED
    BY <1>2, <2>1, <2>2 DEF Matched, SessionFits
<1>5. \A z \in Session \ {s} : rows'[z] = rows[z]
  BY <1>0 DEF CommitExtend, CommitFinalize, ResetAnswer, DestroyAnswer, TypeInv, TypeOK
<1>6. rows' \in [Session -> Row \cup {None}]
  BY <1>0, CommitRows
<1>7. /\ rows'[s].targets
      /\ env[s] # None => rows'[s].status = "active" /\ env[s] = rows'[s].seed
  <2>1. CASE CommitExtend(w)
    <3>1. rows'[s] = [rows[s] EXCEPT !.extra = loaded[w].extra + 1] /\ ~ResetDone(w, s)
      BY <1>0, <1>2, <2>1 DEF CommitExtend, ResetDone, TypeInv, TypeOK
    <3> QED
      BY <1>2, <1>4, <3>1 DEF Row
  <2>2. CASE CommitFinalize(w)
    <3>1. rows'[s] = [rows[s] EXCEPT !.finalized = TRUE] /\ ~ResetDone(w, s)
      BY <1>0, <1>2, <2>2 DEF CommitFinalize, ResetDone, TypeInv, TypeOK
    <3> QED
      BY <1>2, <1>4, <3>1 DEF Row
  <2>3. CASE ResetAnswer(w)
    <3>1. pc[w] = "wait" /\ req[w].kind = "reset" /\ reply[w] \in {"ok", "refused"}
      BY <1>0, <2>3 DEF ResetAnswer, Matched, WorkerFits, TypeInv, TypeOK
    <3>2. loaded[w] = rows[s]
      BY <3>1 DEF Matched, WorkerFits
    <3>3. CASE reply[w] = "refused"
      <4>1. rows' = rows /\ ~ResetDone(w, s)
        BY <2>3, <3>3 DEF ResetAnswer, ResetDone
      <4> QED
        BY <1>4, <4>1
    <3>4. CASE reply[w] = "ok"
      <4>1. rows'[s] = [Rotated(w, s) EXCEPT !.targets = TRUE]
        <5>1. rows' = [rows EXCEPT ![s] =
                          [Rotated(w, s) EXCEPT !.targets = @ \/ reply[w] = "ok"]]
          BY <1>2, <2>3, <3>4 DEF ResetAnswer
        <5>2. (Rotated(w, s).targets \/ reply[w] = "ok") = TRUE
          BY <3>4
        <5> QED
          BY <1>0, <1>2, <5>1, <5>2 DEF TypeInv, TypeOK
      <4>2. Written(w, s, "active") = "active"
        BY <1>2, <3>2 DEF Written
      <4>3. Rotated(w, s) = [rows[s] EXCEPT !.seed = req[w].seed, !.status = "active"]
        BY <4>2 DEF Rotated
      <4>4. rows'[s].targets /\ rows'[s].status = "active" /\ rows'[s].seed = req[w].seed
        BY <1>2, <4>1, <4>3 DEF Row
      <4> QED
        <5>1. env[s] \in {None, req[w].seed}
          BY <1>2, <3>1, <3>4 DEF Matched, WorkerFits
        <5> QED
          BY <4>4, <5>1
    <3> QED
      BY <3>1, <3>3, <3>4
  <2>4. CASE DestroyAnswer(w)
    <3>1. pc[w] = "wait" /\ req[w].kind = "destroy" /\ reply[w] \in {"ok", "refused"}
      BY <1>0, <2>4 DEF DestroyAnswer, Matched, WorkerFits, TypeInv, TypeOK
    <3>2. loaded[w] = rows[s] /\ (reply[w] = "ok" => env[s] = None)
      BY <1>2, <3>1 DEF Matched, WorkerFits
    <3>3. CASE reply[w] = "refused"
      <4>1. ~MayDestroy(w) /\ ~ResetDone(w, s)
        BY <1>4, <3>1, <3>2, <3>3 DEF MayDestroy, ResetDone
      <4>2. rows' = rows
        BY <2>4, <4>1 DEF DestroyAnswer
      <4> QED
        BY <1>4, <4>1, <4>2
    <3>4. CASE reply[w] = "ok"
      <4>1. rows'[s] = [rows[s] EXCEPT !.status = Written(w, s, "destroyed")]
        BY <1>0, <1>2, <2>4, <3>4 DEF DestroyAnswer, MayDestroy, TypeInv, TypeOK
      <4> QED
        BY <1>2, <1>4, <3>2, <3>4, <4>1 DEF Row
    <3> QED
      BY <3>1, <3>3, <3>4
  <2> QED
    BY <2>1, <2>2, <2>3, <2>4
<1> QED
  BY <1>1, <1>2, <1>5, <1>7, AnswerMatched

-----------------------------------------------------------------------------
\* A call that is run makes the environment of its request, or removes it.
LEMMA JobMatched ==
    ASSUME Inv, Solo, Matched, NEW j \in jobs, Run(j) \/ Refuse(j)
    PROVE  Matched'
<1> DEFINE w == j.by
           s == j.session
<1>0. TypeInv /\ \A z \in Session : z # None
  BY ConstantsOK DEF Inv
<1>1. /\ w \in Worker /\ s \in Session /\ j.seed = req[w].seed
      /\ pc[w] = "wait" /\ reply[w] = None /\ req[w].session = s
      /\ \A k \in jobs : k.by = w => k = j
  BY <1>0 DEF TypeInv, TypeOK, Job, Inv, JobsAwaited, Matched, JobsFit
<1>2. PICK outcome \in {"ok", "refused"} :
        /\ jobs' = jobs \ {j}
        /\ reply' = [reply EXCEPT ![w] = outcome]
        /\ UNCHANGED <<rows, pc, req, loaded>>
        /\ \/ outcome = "ok" /\ env' = [env EXCEPT ![s] = j.seed]
           \/ outcome = "refused" /\ env' \in {env, [env EXCEPT ![s] = None]}
  BY <1>1, ConstantsOK DEF Run, Refuse, Answer, table
<1>3. /\ reply'[w] = outcome
      /\ \A v \in Worker \ {w} : reply'[v] = reply[v] /\ req[v].session # s
      /\ \A z \in Session \ {s} : env'[z] = env[z]
      /\ \/ outcome = "ok" /\ env'[s] = j.seed
         \/ outcome = "refused" /\ env'[s] \in {env[s], None}
  BY <1>0, <1>1, <1>2 DEF TypeInv, TypeOK, Solo, Alone
<1>4. /\ \A v \in Worker \ {w} : WorkerFits(v)'
      /\ \A z \in Session \ {s} : SessionFits(z)'
  BY <1>1, <1>2, <1>3, Elsewhere
<1>5. WorkerFits(w)
  BY <1>1 DEF Matched
<1>6. WorkerFits(w)'
  BY <1>1, <1>2, <1>3, <1>5 DEF WorkerFits, Launching
<1>7. SessionFits(s)'
  <2>1. \A v \in Worker : Launching(v, s)' <=> Launching(v, s)
    BY <1>2 DEF Launching
  <2>2. SessionFits(s) /\ ~(\E v \in Worker : ResetDone(v, s))
    BY <1>1, <1>3, ConstantsOK DEF Matched, ResetDone
  <2>3. CASE outcome = "refused"
    BY <1>2, <1>3, <2>1, <2>2, <2>3 DEF SessionFits, Exists
  <2>4. CASE outcome = "ok"
    <3>1. CASE req[w].kind = "destroy"
      BY <1>1, <1>2, <1>3, <1>5, <2>1, <2>2, <2>4, <3>1 DEF SessionFits, Exists, WorkerFits
    <3>2. CASE req[w].kind = "launch"
      BY <1>1, <1>2, <1>3, <1>5, <2>1, <2>2, <2>4, <3>2
         DEF SessionFits, Exists, WorkerFits, Launching
    <3>3. CASE req[w].kind = "reset"
      <4>1. ResetDone(w, s)'
        BY <1>1, <1>2, <1>3, <2>4, <3>3 DEF ResetDone
      <4> QED
        BY <1>1, <1>2, <2>1, <2>2, <4>1 DEF SessionFits, Exists
    <3>4. req[w].kind \in {"launch", "reset", "destroy"}
      BY <1>1, <1>5 DEF WorkerFits
    <3> QED
      BY <3>1, <3>2, <3>3, <3>4
  <2> QED
    BY <2>3, <2>4
<1>8. JobsFit'
  BY <1>2 DEF Matched, JobsFit
<1> QED
  BY <1>4, <1>6, <1>7, <1>8 DEF Matched

LEMMA EnvExpiresMatched ==
    ASSUME Inv, Matched, NEW s \in Session, EnvExpires(s)
    PROVE  Matched'
<1>1. /\ \A z \in Session : env'[z] \in {env[z], None}
      /\ UNCHANGED <<rows, jobs, pc, req, loaded, reply>>
  BY DEF EnvExpires, table, local, Inv, TypeInv, TypeOK
<1>2. ASSUME NEW w \in Worker
      PROVE  WorkerFits(w)'
  BY <1>1 DEF Matched, WorkerFits, Launching
<1>3. ASSUME NEW z \in Session
      PROVE  SessionFits(z)'
  BY <1>1 DEF Matched, SessionFits, Launching, ResetDone, Exists
<1> QED
  BY <1>1, <1>2, <1>3 DEF Matched, JobsFit

LEMMA MatchedInit ==
    ASSUME Init
    PROVE  Matched
<1>1. "lost" # None /\ \A s \in Session : s # None
  BY ConstantsOK
<1> QED
  BY <1>1, NoRequestParts
     DEF Init, Matched, WorkerFits, SessionFits, JobsFit, Launching, Exists

LEMMA MatchedNext ==
    ASSUME Answered, Inv, Solo, Solo', Matched, [Next]_vars
    PROVE  Matched'
<1>1. CASE UNCHANGED vars
  BY <1>1 DEF vars, table, orch, local, Matched, WorkerFits, SessionFits, JobsFit,
              Launching, ResetDone, Exists
<1>2. ASSUME NEW w \in Worker, Start(w)
      PROVE  Matched'
  BY <1>2, LaunchingMatched, StartMatched DEF Start
<1>3. ASSUME NEW w \in Worker, Serve(w)
      PROVE  Matched'
  BY <1>3, LaunchingMatched, InsertMatched, LaunchAnswerMatched, CommitMatched DEF Serve
<1>4. ASSUME NEW w \in Worker, Timeout(w)
      PROVE  FALSE
  BY <1>4 DEF Timeout, Fault, Answered
<1>5. ASSUME NEW j \in jobs, Run(j) \/ Refuse(j)
      PROVE  Matched'
  BY <1>5, JobMatched
<1>6. ASSUME NEW s \in Session, EnvExpires(s)
      PROVE  Matched'
  BY <1>6, EnvExpiresMatched
<1> QED
  BY <1>1, <1>2, <1>3, <1>4, <1>5, <1>6 DEF Next

LEMMA AlwaysMatched ==
    ASSUME Answered
    PROVE  Spec => []Matched
<1>1. Init => Inv /\ Solo /\ Matched
  BY InvInit, MatchedInit
<1>2. (Inv /\ Solo /\ Matched) /\ [Next]_vars => (Inv /\ Solo /\ Matched)'
  BY InvNext, MatchedNext DEF Answered
<1> QED
  BY <1>1, <1>2, PTL DEF Spec

\* When a session gets one request at a time and every call is answered, be it by a
\* refusal, a session in the table as destroyed, with nothing under way, has no
\* environment (destroy, routers.py:284-298: "never report destroyed while containers
\* may live").
THEOREM AlwaysGone ==
    ASSUME Answered
    PROVE  Spec => []DestroyedGone
<1>1. Matched => DestroyedGone
  BY DEF Matched, SessionFits, DestroyedGone, ResetDone, Pending
<1> QED
  BY <1>1, AlwaysMatched, PTL

\* Under the same conditions, and with nothing under way, the environment of an active
\* session has the seed in its row, so that its flags are accepted (reset,
\* routers.py:263-279, which writes the seed only after the environment has it).
THEOREM FlagsAlwaysMatch ==
    ASSUME Answered
    PROVE  Spec => []FlagsMatch
<1>1. Matched => FlagsMatch
  BY DEF Matched, SessionFits, FlagsMatch, ResetDone, Pending
<1> QED
  BY <1>1, AlwaysMatched, PTL

-----------------------------------------------------------------------------
(* One request at a time, of whatever session: what Dedup saw still holds when the *)
(* row is inserted.                                                              *)

OneWorker == \A v, w \in Worker : v = w

\* Nobody has got a session for the key of a launch that is past Dedup.
Fresh ==
    \A w \in Worker :
        pc[w] \in {"quota", "insert"} => Duplicates(req[w].user, req[w].key) = {}

Keyed == OneSessionPerKey /\ Fresh

\* No session is added, and none changes hands.
KeysStay ==
    \A s \in Session :
        Exists(s)' => /\ Exists(s)
                      /\ rows'[s].owner = rows[s].owner
                      /\ rows'[s].key = rows[s].key

\* A step that adds no session and takes no launch past Dedup.
LEMMA KeysStayKeyed ==
    ASSUME Keyed, KeysStay,
           \A w \in Worker :
               pc'[w] \in {"quota", "insert"} => pc[w] = pc'[w] /\ req'[w] = req[w]
    PROVE  Keyed'
<1>1. OneSessionPerKey'
  BY DEF Keyed, OneSessionPerKey, KeysStay
<1>2. \A u, k : Duplicates(u, k) = {} => Duplicates(u, k)' = {}
  BY DEF Duplicates, KeysStay
<1>3. Fresh'
  BY <1>2 DEF Keyed, Fresh, Duplicates
<1> QED
  BY <1>1, <1>3 DEF Keyed

\* Handlers that answer change no key and no owner.
LEMMA AnswerKeys ==
    ASSUME Inv, NEW w \in Worker,
           \/ LaunchAnswer(w)
           \/ CommitExtend(w) \/ CommitFinalize(w) \/ ResetAnswer(w) \/ DestroyAnswer(w)
    PROVE  KeysStay /\ Return(w)
<1> DEFINE s == req[w].session
<1>0. TypeInv
  BY DEF Inv
<1>1. Return(w) /\ pc[w] \in {"wait", "commit"}
  BY DEF LaunchAnswer, CommitExtend, CommitFinalize, ResetAnswer, DestroyAnswer
<1>2. s \in Session
  BY <1>0, <1>1 DEF TypeInv, Underway
<1>3. Exists(s) => rows[s] \in Row
  BY <1>0, <1>2 DEF TypeInv, TypeOK, Exists
<1>4. \/ rows' = rows
      \/ /\ Exists(s)
         /\ \E row : /\ rows' = [rows EXCEPT ![s] = row]
                     /\ row # None => row.owner = rows[s].owner /\ row.key = rows[s].key
  <2>1. CASE LaunchAnswer(w)
    <3>1. Exists(s)
      BY <1>0, <1>2, <2>1 DEF Inv, LaunchOwn, Launching, LaunchAnswer
    <3>2. rows' = [rows EXCEPT ![s] = AfterLaunch(s, reply[w])]
      BY <2>1 DEF LaunchAnswer
    <3>3. reply[w] \in {"ok", "refused", "lost"}
      BY <1>0, <2>1 DEF LaunchAnswer, TypeInv, TypeOK
    <3>4. AfterLaunch(s, reply[w]) # None =>
              /\ AfterLaunch(s, reply[w]).owner = rows[s].owner
              /\ AfterLaunch(s, reply[w]).key = rows[s].key
      BY <1>3, <3>1, <3>3 DEF AfterLaunch, Row
    <3> QED
      BY <3>1, <3>2, <3>4
  <2>2. CASE CommitExtend(w) /\ Exists(s)
    <3> DEFINE row == [rows[s] EXCEPT !.extra = loaded[w].extra + 1]
    <3>1. rows' = [rows EXCEPT ![s] = row]
      BY <2>2 DEF CommitExtend
    <3>2. row.owner = rows[s].owner /\ row.key = rows[s].key
      BY <1>3, <2>2 DEF Row
    <3> QED
      BY <2>2, <3>1, <3>2
  <2>3. CASE CommitFinalize(w) /\ Exists(s)
    <3> DEFINE row == [rows[s] EXCEPT !.finalized = TRUE]
    <3>1. rows' = [rows EXCEPT ![s] = row]
      BY <2>3 DEF CommitFinalize
    <3>2. row.owner = rows[s].owner /\ row.key = rows[s].key
      BY <1>3, <2>3 DEF Row
    <3> QED
      BY <2>3, <3>1, <3>2
  <2>4. CASE ResetAnswer(w) /\ Exists(s) /\ reply[w] # "refused"
    <3> DEFINE row == [Rotated(w, s) EXCEPT !.targets = @ \/ reply[w] = "ok"]
    <3>1. rows' = [rows EXCEPT ![s] = row]
      BY <2>4 DEF ResetAnswer
    <3>2. row.owner = rows[s].owner /\ row.key = rows[s].key
      BY <1>3, <2>4 DEF Rotated, Row
    <3> QED
      BY <2>4, <3>1, <3>2
  <2>5. CASE DestroyAnswer(w) /\ Exists(s) /\ MayDestroy(w)
    <3> DEFINE row == [rows[s] EXCEPT !.status = Written(w, s, "destroyed")]
    <3>1. rows' = [rows EXCEPT ![s] = row]
      BY <2>5 DEF DestroyAnswer
    <3>2. row.owner = rows[s].owner /\ row.key = rows[s].key
      BY <1>3, <2>5 DEF Row
    <3> QED
      BY <2>5, <3>1, <3>2
  <2> QED
    BY <2>1, <2>2, <2>3, <2>4, <2>5
       DEF CommitExtend, CommitFinalize, ResetAnswer, DestroyAnswer
<1>5. KeysStay
  BY <1>2, <1>4, <1>0 DEF KeysStay, Exists, TypeInv, TypeOK
<1> QED
  BY <1>1, <1>5

\* The row a launch inserts is the first of its key.
LEMMA InsertKeyed ==
    ASSUME Inv, OneWorker, Keyed, NEW w \in Worker, Insert(w)
    PROVE  Keyed'
<1>0. TypeInv /\ RowsUsed
  BY DEF Inv
<1>1. PICK s \in Session \ used, seed \in Seed \ drawn :
        /\ pc[w] = "insert"
        /\ rows' = [rows EXCEPT ![s] = NewRow(req[w].user, req[w].key, seed)]
        /\ Call(w, "launch", s, seed)
  BY DEF Insert
<1>2. /\ ~Exists(s)
      /\ \A z \in Session \ {s} : rows'[z] = rows[z]
      /\ rows'[s].owner = req[w].user /\ rows'[s].key = req[w].key
  BY <1>0, <1>1 DEF RowsUsed, TypeInv, TypeOK, NewRow
<1>3. Duplicates(req[w].user, req[w].key) = {}
  BY <1>1 DEF Keyed, Fresh
<1>4. OneSessionPerKey'
  <2> SUFFICES ASSUME NEW y \in Session, NEW z \in Session,
                      Exists(y)', Exists(z)', rows'[y].key # None,
                      rows'[y].key = rows'[z].key, rows'[y].owner = rows'[z].owner
               PROVE  y = z
    BY DEF OneSessionPerKey
  <2>1. CASE y # s /\ z # s
    BY <1>2, <2>1 DEF Keyed, OneSessionPerKey, Exists
  <2>2. ASSUME NEW x \in Session \ {s}, Exists(x)', rows'[x].key # None,
               rows'[x].key = rows'[s].key, rows'[x].owner = rows'[s].owner
        PROVE  FALSE
    BY <1>2, <1>3, <2>2 DEF Duplicates, Exists
  <2> QED
    BY <2>1, <2>2
<1>5. Fresh'
  <2>1. pc'[w] = "wait"
    BY <1>0, <1>1 DEF Call, Goto, TypeInv, TypeOK
  <2> QED
    BY <2>1 DEF OneWorker, Fresh
<1> QED
  BY <1>4, <1>5 DEF Keyed

\* Where the handler of a new request stands after its first step.
LEMMA StartGoes ==
    ASSUME NEW w \in Worker, Start(w)
    PROVE  rows' = rows /\ (Goto(w, "dedup") \/ Goto(w, "commit") \/ Goto(w, "wait"))
<1>1. ASSUME NEW u \in User, NEW k \in Key \cup {None}, Launch(w, u, k)
      PROVE  rows' = rows /\ Goto(w, "dedup")
  BY <1>1 DEF Launch, table
<1>2. ASSUME NEW s \in Session, StartExtend(w, s) \/ StartFinalize(w, s)
      PROVE  rows' = rows /\ Goto(w, "commit")
  BY <1>2 DEF StartExtend, StartFinalize, table
<1>3. ASSUME NEW s \in Session, StartReset(w, s) \/ StartDestroy(w, s)
      PROVE  rows' = rows /\ Goto(w, "wait")
  BY <1>3 DEF StartReset, StartDestroy, Call, table
<1> QED
  BY <1>1, <1>2, <1>3 DEF Start

LEMMA KeyedNext ==
    ASSUME Inv, OneWorker, Keyed, [Next]_vars
    PROVE  Keyed'
<1>0. TypeInv
  BY DEF Inv
<1>a. ASSUME rows' = rows PROVE KeysStay
  BY <1>a DEF KeysStay, Exists
<1>1. CASE UNCHANGED vars
  BY <1>1, <1>a, KeysStayKeyed DEF vars, table, local
<1>2. ASSUME NEW w \in Worker, Timeout(w) PROVE Keyed'
  <2>1. rows' = rows /\ pc'[w] = "wait"
    BY <1>2 DEF Timeout, table
  <2> QED
    BY <1>a, <2>1, KeysStayKeyed DEF OneWorker
<1>S. ASSUME NEW w \in Worker, Start(w) PROVE Keyed'
  <2>1. rows' = rows /\ (Goto(w, "dedup") \/ Goto(w, "commit") \/ Goto(w, "wait"))
    BY <1>S, StartGoes
  <2>2. pc'[w] \in {"dedup", "commit", "wait"}
    BY <1>0, <2>1 DEF Goto, TypeInv, TypeOK
  <2> QED
    BY <1>a, <2>1, <2>2, KeysStayKeyed DEF OneWorker
<1>3. ASSUME NEW w \in Worker, Dedup(w) PROVE Keyed'
  <2>1. rows' = rows
    BY <1>3 DEF Dedup, table
  <2>2. CASE Duplicates(req[w].user, req[w].key) # {}
    <3>1. pc'[w] = "idle"
      BY <1>0, <1>3, <2>2 DEF Dedup, Return, TypeInv, TypeOK
    <3> QED
      BY <1>a, <2>1, <3>1, KeysStayKeyed DEF OneWorker
  <2>3. CASE Duplicates(req[w].user, req[w].key) = {}
    <3>1. req' = req
      BY <1>3, <2>3 DEF Dedup
    <3>2. Fresh'
      BY <2>1, <2>3, <3>1 DEF OneWorker, Fresh, Duplicates, Exists
    <3> QED
      BY <2>1, <3>2 DEF Keyed, OneSessionPerKey, Exists
  <2> QED
    BY <2>2, <2>3
<1>4. ASSUME NEW w \in Worker, Quota(w) PROVE Keyed'
  <2>1. pc[w] = "quota" /\ rows' = rows
    BY <1>4 DEF Quota, table
  <2>2. CASE WithinQuota(req[w].user)
    <3>1. req' = req
      BY <1>4, <2>2 DEF Quota
    <3>2. Fresh'
      BY <2>1, <3>1 DEF OneWorker, Keyed, Fresh, Duplicates, Exists
    <3> QED
      BY <2>1, <3>2 DEF Keyed, OneSessionPerKey, Exists
  <2>3. CASE ~WithinQuota(req[w].user)
    <3>1. pc'[w] = "idle"
      BY <1>0, <1>4, <2>3 DEF Quota, Return, TypeInv, TypeOK
    <3> QED
      BY <1>a, <2>1, <3>1, KeysStayKeyed DEF OneWorker
  <2> QED
    BY <2>2, <2>3
<1>5. ASSUME NEW w \in Worker,
             \/ LaunchAnswer(w)
             \/ CommitExtend(w) \/ CommitFinalize(w) \/ ResetAnswer(w) \/ DestroyAnswer(w)
      PROVE  Keyed'
  <2>1. KeysStay /\ Return(w)
    BY <1>5, AnswerKeys
  <2>2. pc'[w] = "idle"
    BY <1>0, <2>1 DEF Return, TypeInv, TypeOK
  <2> QED
    BY <2>1, <2>2, KeysStayKeyed DEF OneWorker
<1>6. ASSUME NEW w \in Worker, Serve(w) PROVE Keyed'
  BY <1>3, <1>4, <1>5, <1>6, InsertKeyed DEF Serve
<1>7. ASSUME NEW j \in jobs, Run(j) \/ Refuse(j) PROVE Keyed'
  BY <1>7, <1>a, KeysStayKeyed DEF Run, Refuse, Answer, table
<1>8. ASSUME NEW s \in Session, EnvExpires(s) PROVE Keyed'
  BY <1>8, <1>a, KeysStayKeyed DEF EnvExpires, table, local
<1> QED
  BY <1>1, <1>2, <1>6, <1>7, <1>8, <1>S DEF Next

\* When requests come one at a time, however many calls are lost, late or refused, a key
\* launches one session: a retry gets the session its first attempt has made, also if
\* that has been destroyed meanwhile (launch, routers.py:184-188).
THEOREM KeyLaunchesOnce ==
    ASSUME OneWorker
    PROVE  Spec => []OneSessionPerKey
<1>1. Init => Inv /\ Keyed
  <2>1. Init => Keyed
    BY DEF Init, Keyed, OneSessionPerKey, Fresh, Exists
  <2> QED
    BY <2>1, InvInit
<1>2. (Inv /\ Keyed) /\ [Next]_vars => (Inv /\ Keyed)'
  BY InvNext, KeyedNext
<1>3. Keyed => OneSessionPerKey
  BY DEF Keyed
<1> QED
  BY <1>1, <1>2, <1>3, PTL DEF Spec

=============================================================================
