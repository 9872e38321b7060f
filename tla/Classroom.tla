------------------------------ MODULE Classroom ------------------------------
(***************************************************************************)
(* What surrounds sessions in the API service: teams and assignments,      *)
(* competitions, certificates, and the notes and findings kept with a      *)
(* session.                                                                *)
(*                                                                         *)
(* Most handlers look whether a row is there and, if not, insert it and    *)
(* commit.  They run in threads, no table but `certificates' has a key     *)
(* that would refuse a second row, and no column is a foreign key: what a  *)
(* handler saw may have changed when it writes.  A handler is therefore a  *)
(* look, which decides on a write, and the write.  Handlers whose look is  *)
(* only at rows that are never removed are a single step.                  *)
(*                                                                         *)
(* Sessions come and go as SessionApi says, points as Learning does; here  *)
(* both are the environment.                                               *)
(***************************************************************************)
EXTENDS Naturals, FiniteSets, Sequences, FiniteSetsExt

CONSTANTS
    User, Worker,
    Team, Assignment, Contest,  \* ids, drawn at random and never twice
    Code,           \* certificate codes, likewise
    Session, Lab,
    Body,           \* what notes may say
    RoleOf,         \* per user, the role
    OwnerOf, LabOf, \* per session, its owner and its lab
    Worth,          \* points a solve may bring
    MaxEarned,      \* bound on the points of a session
    MaxFindings,    \* bound on the findings of a session
    Overlap,        \* whether two requests for the same row may overlap
    None

Roles == {"learner", "instructor", "content-author", "platform-admin"}

ASSUME ConstantsOK ==
    /\ RoleOf  \in [User -> Roles]
    /\ OwnerOf \in [Session -> User]
    /\ LabOf   \in [Session -> Lab]
    /\ Worth \subseteq Nat \ {0}
    /\ MaxEarned \in Nat /\ MaxFindings \in Nat
    /\ Overlap \in BOOLEAN
    /\ None \notin User \cup Team \cup Assignment \cup Lab \cup Session \cup Body

VARIABLES
    status,      \* per session, what its row says
    earned,      \* per session, the points of its correct submissions
    teams,       \* teams that exist
    members,     \* per team and user, the number of membership rows
    assignments, \* per assignment, its row, or None
    submits,     \* per assignment, user and session, the number of rows
    contests,    \* competitions that exist
    enrolled,    \* per competition and user, the number of enrollment rows
    certs,       \* per code, its certificate, or None
    notes,       \* per session, the bodies of its notes rows
    saved,       \* per session, the body saved last, or None (history)
    findings,    \* per session, the number of findings
    todo         \* per worker, the write its handler has decided on, or None

sessions  == <<status, earned>>
classes   == <<teams, members, assignments, submits>>
contested == <<contests, enrolled>>
evidence  == <<notes, saved, findings>>
vars      == <<sessions, classes, contested, certs, evidence, todo>>

Row == [team : Team, labs : SUBSET Lab]

\* The code and the row of a certificate; `session' is not stored.
Certificate == [user : User, assignment : Assignment \cup {None},
                session : Session \cup {None}, lab : Lab \cup {None}, points : Nat]

Writes ==
    [kind : {"join"}, team : Team, user : User]
      \cup [kind : {"enroll"}, contest : Contest, user : User]
      \cup [kind : {"submit"}, assignment : Assignment, user : User, session : Session]
      \cup [kind : {"issue"}, cert : Certificate]
      \cup [kind : {"note"}, session : Session, body : Body, row : Nat,
            loaded : Body \cup {None}]
      \cup [kind : {"find", "unfind"}, session : Session]

Exists(s) == status[s] # "gone"

\* Two writes for the same row: the same user joining or submitting twice, or two
\* saves of one session's notes.
SameRow(p, q) ==
    /\ p.kind = q.kind
    /\ IF p.kind = "note" THEN p.session = q.session ELSE p = q

\* Worker w is free, looks and decides on write r.
Decide(w, r) ==
    /\ todo[w] = None
    /\ Overlap \/ \A v \in Worker : todo[v] # None => ~SameRow(todo[v], r)
    /\ todo' = [todo EXCEPT ![w] = r]
    /\ UNCHANGED <<sessions, classes, contested, certs, evidence>>

\* Worker w carries out its write, of this kind, and answers.
Write(w, kind) ==
    /\ todo[w] # None
    /\ todo[w].kind = kind
    /\ todo' = [todo EXCEPT ![w] = None]

Init ==
    /\ status      = [s \in Session |-> "launching"]
    /\ earned      = [s \in Session |-> 0]
    /\ teams       = {}
    /\ members     = [t \in Team |-> [u \in User |-> 0]]
    /\ assignments = [a \in Assignment |-> None]
    /\ submits     = [a \in Assignment |-> [u \in User |-> [s \in Session |-> 0]]]
    /\ contests    = {}
    /\ enrolled    = [c \in Contest |-> [u \in User |-> 0]]
    /\ certs       = [k \in Code |-> None]
    /\ notes       = [s \in Session |-> <<>>]
    /\ saved       = [s \in Session |-> None]
    /\ findings    = [s \in Session |-> 0]
    /\ todo        = [w \in Worker |-> None]

-----------------------------------------------------------------------------
(* Access. *)

\* require_roles("instructor", "platform-admin").
Teaches(u) == RoleOf[u] \in {"instructor", "platform-admin"}

\* _member_or_403.
Member(t, u) == t \in teams /\ members[t][u] > 0

\* Mutant: whose session it is does not matter.
MayUseAny(u, s) == Exists(s) /\ u \in User

\* own_session: the row is there, and its owner or an administrator asks.
MayUse(u, s) ==
    /\ Exists(s)
    /\ OwnerOf[s] = u \/ RoleOf[u] = "platform-admin"
    /\ Overlap \/ status[s] # "launching"   \* Nobody uses it before the answer.

-----------------------------------------------------------------------------
(* Sessions and submissions, as far as they matter here. *)

\* A launch is answered, or refused and its row deleted.
Launched(s) ==
    /\ status[s] = "launching"
    /\ status' \in {[status EXCEPT ![s] = "active"], [status EXCEPT ![s] = "gone"]}
    /\ UNCHANGED <<earned, classes, contested, certs, evidence, todo>>

\* A destroy, or a reset that revives.
Toggled(s) ==
    /\ status[s] \in {"active", "destroyed"}
    /\ status' = [status EXCEPT ![s] = IF @ = "active" THEN "destroyed" ELSE "active"]
    /\ UNCHANGED <<earned, classes, contested, certs, evidence, todo>>

\* A correct submission.
Solve(s) ==
    \E p \in Worth :
        /\ MayUse(OwnerOf[s], s)
        /\ status[s] # "destroyed"
        /\ earned[s] + p <= MaxEarned    \* Bound.
        /\ earned' = [earned EXCEPT ![s] = @ + p]
        /\ UNCHANGED <<status, classes, contested, certs, evidence, todo>>

\* The points of these sessions.
Points(S) == MapThenSumSet(LAMBDA s : earned[s], S)

-----------------------------------------------------------------------------
(* Teams. *)

\* The team and the membership of its owner are one transaction.
CreateTeam(u, t) ==
    /\ t \notin teams
    /\ teams' = teams \cup {t}
    /\ members' = [members EXCEPT ![t][u] = @ + 1]
    /\ UNCHANGED <<sessions, assignments, submits, contested, certs, evidence, todo>>

\* Mutant: the membership is not looked for.
MayJoinAgain(t, u) == t \in teams

MayJoin(t, u) == t \in teams /\ members[t][u] = 0

LookJoin(w, u, t) ==
    /\ MayJoin(t, u)
    /\ Decide(w, [kind |-> "join", team |-> t, user |-> u])

Join(w) ==
    /\ Write(w, "join")
    /\ members' = [members EXCEPT ![todo[w].team][todo[w].user] = @ + 1]
    /\ UNCHANGED <<sessions, teams, assignments, submits, contested, certs, evidence>>

-----------------------------------------------------------------------------
(* Assignments. *)

\* Every lab must be in the catalogue; whether there are any is not asked.
CreateAssignment(u, a, t, labs) ==
    /\ Teaches(u)
    /\ Member(t, u)
    /\ assignments[a] = None
    /\ assignments' = [assignments EXCEPT ![a] = [team |-> t, labs |-> labs]]
    /\ UNCHANGED <<sessions, teams, members, submits, contested, certs, evidence, todo>>

\* Mutants: the lab is not compared; anyone may submit.
MaySubmitAny(a, u, s) ==
    /\ assignments[a] # None
    /\ Member(assignments[a].team, u)
    /\ MayUse(u, s)
MaySubmitOutside(a, u, s) ==
    /\ assignments[a] # None
    /\ MayUse(u, s)
    /\ LabOf[s] \in assignments[a].labs

MaySubmit(a, u, s) ==
    /\ assignments[a] # None
    /\ Member(assignments[a].team, u)
    /\ MayUse(u, s)
    /\ LabOf[s] \in assignments[a].labs

\* Neither the due date nor the state of the session is looked at.
LookSubmit(w, u, a, s) ==
    /\ MaySubmit(a, u, s)
    /\ submits[a][u][s] = 0
    /\ Decide(w, [kind |-> "submit", assignment |-> a, user |-> u, session |-> s])

Submit(w) ==
    LET r == todo[w]
    IN  /\ Write(w, "submit")
        /\ submits' = [submits EXCEPT ![r.assignment][r.user][r.session] = @ + 1]
        /\ UNCHANGED <<sessions, teams, members, assignments, contested, certs, evidence>>

-----------------------------------------------------------------------------
(* Certificates. *)

\* Mutant: all the learner's solves count.
AssignedPointsAll(s) == Points({z \in Session : OwnerOf[z] = OwnerOf[s]})

\* Mutant: a hint is charged once more.
AssignedPointsNet(s) == earned[s] - 1

AssignedPoints(s) == earned[s]

\* Mutant: everybody's.
SolvedByAll(learner) == {s \in Session : Exists(s) /\ learner \in User}

\* Sessions that still have a row, which the join needs.
SolvedBy(learner) == {s \in Session : Exists(s) /\ OwnerOf[s] = learner}

\* For an assignment: of the learner's submissions the one the query finds first,
\* with the points of its session as they are now, and its lab if the row of the
\* session is still there.
LookIssueFor(w, u, learner, a, s) ==
    /\ Teaches(u)
    /\ assignments[a] # None
    /\ Member(assignments[a].team, u)
    /\ submits[a][learner][s] > 0
    /\ Decide(w, [kind |-> "issue",
                  cert |-> [user |-> learner, assignment |-> a, session |-> s,
                            lab |-> IF Exists(s) THEN LabOf[s] ELSE None,
                            points |-> AssignedPoints(s)]])

\* In general: all solves of all the learner's sessions, one at least.  The lab is
\* whatever the request says.
LookIssue(w, u, learner) ==
    LET pts == Points(SolvedBy(learner))
    IN  /\ Teaches(u)
        /\ pts > 0
        /\ Decide(w, [kind |-> "issue",
                      cert |-> [user |-> learner, assignment |-> None, session |-> None,
                                lab |-> None, points |-> pts]])

Issue(w) ==
    \E k \in Code :
        /\ certs[k] = None
        /\ Write(w, "issue")
        /\ certs' = [certs EXCEPT ![k] = todo[w].cert]
        /\ UNCHANGED <<sessions, classes, contested, evidence>>

-----------------------------------------------------------------------------
(* Competitions. *)

CreateContest(u, c) ==
    /\ Teaches(u)
    /\ c \notin contests
    /\ contests' = contests \cup {c}
    /\ UNCHANGED <<sessions, classes, enrolled, certs, evidence, todo>>

LookEnroll(w, u, c) ==
    /\ c \in contests
    /\ enrolled[c][u] = 0
    /\ Decide(w, [kind |-> "enroll", contest |-> c, user |-> u])

Enroll(w) ==
    /\ Write(w, "enroll")
    /\ enrolled' = [enrolled EXCEPT ![todo[w].contest][todo[w].user] = @ + 1]
    /\ UNCHANGED <<sessions, classes, contests, certs, evidence>>

-----------------------------------------------------------------------------
(* Notes and findings. *)

\* Both are refused for a destroyed session, when it is looked at.
Writable(u, s) == MayUse(u, s) /\ status[s] # "destroyed"

\* The first notes row the query finds, if there is one, is the one to change.
LookNote(w, u, s, b) ==
    /\ Writable(u, s)
    /\ \E i \in (IF notes[s] = <<>> THEN {0} ELSE DOMAIN notes[s]) :
          Decide(w, [kind |-> "note", session |-> s, body |-> b, row |-> i,
                     loaded |-> IF i = 0 THEN None ELSE notes[s][i]])

\* Mutant: a row is added each time.
AfterNoteAppends(rows, r) == Append(rows, r.body)

\* A row is inserted or changed; the mapper writes nothing when the new body is
\* the one it loaded.
AfterNote(rows, r) ==
    IF r.row = 0 THEN Append(rows, r.body)
    ELSE IF r.body = r.loaded THEN rows
    ELSE [rows EXCEPT ![r.row] = r.body]

Note(w) ==
    LET r == todo[w]
    IN  /\ Write(w, "note")
        /\ notes' = [notes EXCEPT ![r.session] = AfterNote(@, r)]
        /\ saved' = [saved EXCEPT ![r.session] = r.body]
        /\ UNCHANGED <<sessions, classes, contested, certs, findings>>

\* A complete finding; others are refused.
LookFind(w, u, s) ==
    /\ Writable(u, s)
    /\ Decide(w, [kind |-> "find", session |-> s])

\* A finding may also be deleted from a destroyed session.
LookUnfind(w, u, s) ==
    /\ MayUse(u, s)
    /\ findings[s] > 0
    /\ Decide(w, [kind |-> "unfind", session |-> s])

Find(w) ==
    LET s == todo[w].session
    IN  /\ Write(w, "find")
        /\ findings' = [findings EXCEPT ![s] = IF @ < MaxFindings THEN @ + 1 ELSE @]
        /\ UNCHANGED <<sessions, classes, contested, certs, notes, saved>>

\* One deleted meanwhile is gone already.
Unfind(w) ==
    LET s == todo[w].session
    IN  /\ Write(w, "unfind")
        /\ findings' = [findings EXCEPT ![s] = IF @ > 0 THEN @ - 1 ELSE 0]
        /\ UNCHANGED <<sessions, classes, contested, certs, notes, saved>>

-----------------------------------------------------------------------------
Next ==
    \/ \E s \in Session : Launched(s) \/ Toggled(s) \/ Solve(s)
    \/ \E u \in User, t \in Team : CreateTeam(u, t)
    \/ \E u \in User, a \in Assignment, t \in Team, labs \in SUBSET Lab :
          CreateAssignment(u, a, t, labs)
    \/ \E u \in User, c \in Contest : CreateContest(u, c)
    \/ \E w \in Worker, u \in User :
          \/ \E t \in Team : LookJoin(w, u, t)
          \/ \E c \in Contest : LookEnroll(w, u, c)
          \/ \E a \in Assignment, s \in Session : LookSubmit(w, u, a, s)
          \/ \E l \in User : LookIssue(w, u, l)
          \/ \E l \in User, a \in Assignment, s \in Session : LookIssueFor(w, u, l, a, s)
          \/ \E s \in Session, b \in Body : LookNote(w, u, s, b)
          \/ \E s \in Session : LookFind(w, u, s) \/ LookUnfind(w, u, s)
    \/ \E w \in Worker :
          \/ Join(w) \/ Enroll(w) \/ Submit(w) \/ Issue(w)
          \/ Note(w) \/ Find(w) \/ Unfind(w)

Spec == Init /\ [][Next]_vars

-----------------------------------------------------------------------------
(* Properties. *)

\* Every table holds rows of its kind, and every worker a write it can make.
TypeOK ==
    /\ status      \in [Session -> {"launching", "active", "destroyed", "gone"}]
    /\ earned      \in [Session -> Nat]
    /\ teams       \subseteq Team
    /\ members     \in [Team -> [User -> Nat]]
    /\ assignments \in [Assignment -> Row \cup {None}]
    /\ submits     \in [Assignment -> [User -> [Session -> Nat]]]
    /\ contests    \subseteq Contest
    /\ enrolled    \in [Contest -> [User -> Nat]]
    /\ certs       \in [Code -> Certificate \cup {None}]
    /\ notes       \in [Session -> Seq(Body)]
    /\ saved       \in [Session -> Body \cup {None}]
    /\ findings    \in [Session -> Nat]
    /\ todo        \in [Worker -> Writes \cup {None}]

\* A row of assignment_submits is a team member's, for a session of its own (or, for
\* an administrator, anybody's), of a lab of the assignment.
GoodSubmit(a, u, s) ==
    /\ assignments[a] # None
    /\ Member(assignments[a].team, u)
    /\ OwnerOf[s] = u \/ RoleOf[u] = "platform-admin"
    /\ LabOf[s] \in assignments[a].labs

\* What the look of submit_assignment saw holds for good, also for the rows that a
\* second request has added meanwhile: membership, assignment and session keep.
OwnSubmissions ==
    \A a \in Assignment, u \in User, s \in Session :
        submits[a][u][s] > 0 => GoodSubmit(a, u, s)

\* What certificate c for an assignment claims.
Backed(c) ==
    /\ c.session # None
    /\ submits[c.assignment][c.user][c.session] > 0
    /\ GoodSubmit(c.assignment, c.user, c.session)
    /\ c.lab \in {LabOf[c.session], None}
    /\ c.points <= earned[c.session]

\* A certificate for an assignment that anybody may verify names a learner who is in
\* the team and has submitted a session of one of the assignment's labs, whatever
\* has become of that session since, and claims no more points than that session
\* earned (routers.py:722: the code, once issued, is never withdrawn).
CertificatesBacked ==
    \A k \in Code :
        (certs[k] # None /\ certs[k].assignment # None) => Backed(certs[k])

\* A certificate without an assignment is for one solve at least, and claims no more
\* than the learner's own sessions have earned.
TotalsEarned ==
    \A k \in Code :
        (certs[k] # None /\ certs[k].assignment = None) =>
            /\ certs[k].points > 0
            /\ certs[k].points <= Points({s \in Session : OwnerOf[s] = certs[k].user})

\* A learner whose requests do not overlap is in a team or a competition once, and
\* has submitted a session once: team_progress, which has a line for every row,
\* does not repeat it.
OneRowEach ==
    /\ \A t \in Team, u \in User : members[t][u] <= 1
    /\ \A c \in Contest, u \in User : enrolled[c][u] <= 1
    /\ \A a \in Assignment, u \in User, s \in Session : submits[a][u][s] <= 1

\* Whoever reads the notes of a session gets what was saved last (read_notes and the
\* report take the first row of the session, so there must be one only).
NotesReadBack ==
    \A s \in Session : saved[s] # None => notes[s] = <<saved[s]>>

=============================================================================
