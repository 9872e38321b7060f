--------------------------- MODULE ClassroomProofs ---------------------------
(***************************************************************************)
(* Proofs about Classroom, for any users, teams, sessions and workers, and  *)
(* whether or not requests for one row overlap.  The argument: what the look *)
(* of a handler saw only grows, so it still holds at the write.             *)
(***************************************************************************)
EXTENDS Classroom, TLAPS

\* The types the argument needs.
TypeInv ==
    /\ earned      \in [Session -> Nat]
    /\ teams       \in SUBSET Team
    /\ members     \in [Team -> [User -> Nat]]
    /\ assignments \in [Assignment -> Row \cup {None}]
    /\ submits     \in [Assignment -> [User -> [Session -> Nat]]]
    /\ certs = [k \in Code |-> certs[k]]
    /\ todo  = [w \in Worker |-> todo[w]]

\* A certificate, issued or about to be, is backed.
Well(c) ==
    c.assignment # None =>
        /\ c.assignment \in Assignment
        /\ c.user \in User
        /\ c.session \in Session
        /\ c.points \in Nat
        /\ Backed(c)

\* What a handler has decided to write may still be written.
Fine(r) ==
    /\ r.kind = "join"   => r.team \in Team /\ r.user \in User
    /\ r.kind = "submit" => /\ r.assignment \in Assignment
                            /\ r.user \in User
                            /\ r.session \in Session
                            /\ GoodSubmit(r.assignment, r.user, r.session)
    /\ r.kind = "issue"  => Well(r.cert)

TodoFine == \A w \in Worker : todo[w] # None => Fine(todo[w])

CertsWell == \A k \in Code : certs[k] # None => Well(certs[k])

Inv == TypeInv /\ OwnSubmissions /\ TodoFine /\ CertsWell

\* No row the others rely on is removed or changed, and no points are lost.
Grows ==
    /\ teams \subseteq teams'
    /\ \A t \in Team, u \in User : members[t][u] > 0 => members'[t][u] > 0
    /\ \A a \in Assignment : assignments[a] # None => assignments'[a] = assignments[a]
    /\ \A a \in Assignment, u \in User, s \in Session :
          submits[a][u][s] > 0 => submits'[a][u][s] > 0
    /\ \A s \in Session : earned[s] <= earned'[s]

-----------------------------------------------------------------------------
(* What growth keeps. *)

\* A row of assignment_submits that was in order stays so.
LEMMA GoodStays ==
    ASSUME TypeInv, Grows, NEW CONSTANT a \in Assignment, NEW CONSTANT u \in User,
           NEW CONSTANT s \in Session, GoodSubmit(a, u, s)
    PROVE  GoodSubmit(a, u, s)'
<1>1. assignments[a] \in Row
  BY DEF GoodSubmit, TypeInv
<1>2. assignments[a].team \in Team
  BY <1>1 DEF Row
<1>3. assignments'[a] = assignments[a]
  BY DEF GoodSubmit, Grows
<1>4. Member(assignments[a].team, u)'
  BY <1>2, <1>3 DEF GoodSubmit, Grows, Member
<1> QED
  BY <1>3, <1>4 DEF GoodSubmit

\* A backed certificate stays backed.
LEMMA WellStays ==
    ASSUME TypeInv, TypeInv', Grows, NEW CONSTANT c, Well(c)
    PROVE  Well(c)'
<1> SUFFICES ASSUME c.assignment # None
             PROVE  /\ c.assignment \in Assignment
                    /\ c.user \in User
                    /\ c.session \in Session
                    /\ c.points \in Nat
                    /\ Backed(c)'
  BY DEF Well
<1>1. /\ c.assignment \in Assignment
      /\ c.user \in User
      /\ c.session \in Session
      /\ c.points \in Nat
      /\ Backed(c)
  BY DEF Well
<1>2. GoodSubmit(c.assignment, c.user, c.session)'
  BY <1>1, GoodStays DEF Backed
<1>3. submits'[c.assignment][c.user][c.session] > 0
  BY <1>1 DEF Grows, Backed
<1>4. c.points <= earned'[c.session]
  <2>1. c.points <= earned[c.session]
    BY <1>1 DEF Backed
  <2>2. earned[c.session] <= earned'[c.session]
    BY <1>1 DEF Grows
  <2> QED
    BY <1>1, <2>1, <2>2 DEF TypeInv
<1> QED
  BY <1>1, <1>2, <1>3, <1>4 DEF Backed

\* A write decided on stays fine.
LEMMA FineStays ==
    ASSUME TypeInv, TypeInv', Grows, NEW CONSTANT r, Fine(r)
    PROVE  Fine(r)'
<1>1. CASE r.kind = "submit"
  BY <1>1, GoodStays DEF Fine
<1>2. CASE r.kind = "issue"
  <2>1. Well(r.cert)'
    BY <1>2, WellStays DEF Fine
  <2> QED
    BY <1>2, <2>1 DEF Fine
<1> QED
  BY <1>1, <1>2 DEF Fine

-----------------------------------------------------------------------------
(* Steps, as far as the invariant tells them apart. *)

\* Worker w is done with a write that touches nothing of the invariant.
Aside(w) ==
    /\ todo' = [todo EXCEPT ![w] = None]
    /\ UNCHANGED <<earned, classes, certs>>

\* The handlers' looks decide on writes that are fine.
LEMMA LooksAreFine ==
    ASSUME TypeInv,
           NEW w \in Worker, NEW u \in User,
           \/ \E t \in Team : LookJoin(w, u, t)
           \/ \E c \in Contest : LookEnroll(w, u, c)
           \/ \E a \in Assignment, s \in Session : LookSubmit(w, u, a, s)
           \/ \E l \in User : LookIssue(w, u, l)
           \/ \E l \in User, a \in Assignment, s \in Session : LookIssueFor(w, u, l, a, s)
           \/ \E s \in Session, b \in Body : LookNote(w, u, s, b)
           \/ \E s \in Session : LookFind(w, u, s) \/ LookUnfind(w, u, s),
           OwnSubmissions
    PROVE  \E r : Fine(r) /\ Decide(w, r)
<1>1. CASE \E t \in Team : LookJoin(w, u, t)
  <2>1. PICK t \in Team : LookJoin(w, u, t)
    BY <1>1
  <2> DEFINE r == [kind |-> "join", team |-> t, user |-> u]
  <2>2. Fine(r)
    BY DEF Fine
  <2> QED
    BY <2>1, <2>2 DEF LookJoin
<1>2. CASE \E c \in Contest : LookEnroll(w, u, c)
  <2>1. PICK c \in Contest : LookEnroll(w, u, c)
    BY <1>2
  <2> DEFINE r == [kind |-> "enroll", contest |-> c, user |-> u]
  <2>2. Fine(r)
    BY DEF Fine
  <2> QED
    BY <2>1, <2>2 DEF LookEnroll
<1>3. CASE \E a \in Assignment, s \in Session : LookSubmit(w, u, a, s)
  <2>1. PICK a \in Assignment, s \in Session : LookSubmit(w, u, a, s)
    BY <1>3
  <2> DEFINE r == [kind |-> "submit", assignment |-> a, user |-> u, session |-> s]
  <2>2. GoodSubmit(a, u, s)
    BY <2>1 DEF LookSubmit, MaySubmit, MayUse, GoodSubmit
  <2>3. Fine(r)
    BY <2>2 DEF Fine
  <2> QED
    BY <2>1, <2>3 DEF LookSubmit
<1>4. CASE \E l \in User : LookIssue(w, u, l)
  <2>1. PICK l \in User : LookIssue(w, u, l)
    BY <1>4
  <2> DEFINE pts == Points(SolvedBy(l))
             r == [kind |-> "issue",
                   cert |-> [user |-> l, assignment |-> None, session |-> None,
                             lab |-> None, points |-> pts]]
  <2>2. Decide(w, r)
    BY <2>1 DEF LookIssue
  <2> HIDE DEF pts
  <2>3. Fine(r)
    BY DEF Fine, Well
  <2> QED
    BY <2>2, <2>3
<1>5. CASE \E l \in User, a \in Assignment, s \in Session : LookIssueFor(w, u, l, a, s)
  <2>1. PICK l \in User, a \in Assignment, s \in Session : LookIssueFor(w, u, l, a, s)
    BY <1>5
  <2> DEFINE lab == IF Exists(s) THEN LabOf[s] ELSE None
             c == [user |-> l, assignment |-> a, session |-> s, lab |-> lab,
                   points |-> AssignedPoints(s)]
             r == [kind |-> "issue", cert |-> c]
  <2>2. Decide(w, r) /\ submits[a][l][s] > 0
    BY <2>1 DEF LookIssueFor
  <2>3. GoodSubmit(a, l, s)
    BY <2>2 DEF OwnSubmissions
  <2>4. lab \in {LabOf[s], None}
    OBVIOUS
  <2>5. AssignedPoints(s) \in Nat /\ AssignedPoints(s) <= earned[s]
    BY DEF AssignedPoints, TypeInv
  <2>6. s # None
    BY ConstantsOK
  <2> HIDE DEF lab
  <2>7. Backed(c)
    BY <2>2, <2>3, <2>4, <2>5, <2>6 DEF Backed
  <2>8. Well(c)
    BY <2>5, <2>7 DEF Well
  <2> HIDE DEF c
  <2>9. Fine(r)
    BY <2>8 DEF Fine
  <2> QED
    BY <2>2, <2>9
<1>6. CASE \E s \in Session, b \in Body : LookNote(w, u, s, b)
  <2>1. PICK s \in Session, b \in Body : LookNote(w, u, s, b)
    BY <1>6
  <2>2. PICK i : Decide(w, [kind |-> "note", session |-> s, body |-> b, row |-> i,
                            loaded |-> IF i = 0 THEN None ELSE notes[s][i]])
    BY <2>1 DEF LookNote
  <2> DEFINE old == IF i = 0 THEN None ELSE notes[s][i]
             r == [kind |-> "note", session |-> s, body |-> b, row |-> i, loaded |-> old]
  <2> HIDE DEF old
  <2>3. Fine(r)
    BY DEF Fine
  <2> QED
    BY <2>2, <2>3 DEF old
<1>7. CASE \E s \in Session : LookFind(w, u, s) \/ LookUnfind(w, u, s)
  <2>1. PICK s \in Session : LookFind(w, u, s) \/ LookUnfind(w, u, s)
    BY <1>7
  <2>2. /\ Fine([kind |-> "find", session |-> s])
        /\ Fine([kind |-> "unfind", session |-> s])
    BY DEF Fine
  <2> QED
    BY <2>1, <2>2 DEF LookFind, LookUnfind
<1> QED
  BY <1>1, <1>2, <1>3, <1>4, <1>5, <1>6, <1>7

\* Every step is one of these.
LEMMA Steps ==
    ASSUME TypeInv, OwnSubmissions, [Next]_vars
    PROVE  \/ UNCHANGED <<earned, classes, certs, todo>>
           \/ \E s \in Session : Solve(s)
           \/ \E u \in User, t \in Team : CreateTeam(u, t)
           \/ \E u \in User, a \in Assignment, t \in Team, labs \in SUBSET Lab :
                 CreateAssignment(u, a, t, labs)
           \/ \E w \in Worker : \E r : Fine(r) /\ Decide(w, r)
           \/ \E w \in Worker : Join(w) \/ Submit(w) \/ Issue(w) \/ Aside(w)
<1>1. CASE UNCHANGED vars
  BY <1>1 DEF vars, sessions
<1>2. CASE \E s \in Session : Launched(s) \/ Toggled(s) \/ Solve(s)
  BY <1>2 DEF Launched, Toggled
<1>3. CASE \E u \in User, c \in Contest : CreateContest(u, c)
  BY <1>3 DEF CreateContest, sessions
<1>4. ASSUME NEW w \in Worker,
             Enroll(w) \/ Note(w) \/ Find(w) \/ Unfind(w)
      PROVE  Aside(w)
  BY <1>4 DEF Enroll, Note, Find, Unfind, Write, Aside, sessions
<1> QED
  BY <1>1, <1>2, <1>3, <1>4, LooksAreFine DEF Next

-----------------------------------------------------------------------------
(* The invariant is kept. *)

\* A function changed at one place still has its domain.
LEMMA StillAFunction ==
    ASSUME NEW S, NEW f, f = [x \in S |-> f[x]], NEW a, NEW b,
           NEW g, g = [f EXCEPT ![a] = b]
    PROVE  g = [x \in S |-> g[x]]
OBVIOUS

\* A write decided on names rows and users that there are.
LEMMA WriteTypes ==
    ASSUME TodoFine, NEW w \in Worker, todo[w] # None
    PROVE  /\ todo[w].kind = "join"   => todo[w].team \in Team /\ todo[w].user \in User
           /\ todo[w].kind = "submit" => /\ todo[w].assignment \in Assignment
                                         /\ todo[w].user \in User
                                         /\ todo[w].session \in Session
                                         /\ GoodSubmit(todo[w].assignment, todo[w].user,
                                                       todo[w].session)
           /\ todo[w].kind = "issue"  => Well(todo[w].cert)
BY DEF TodoFine, Fine

\* Types are kept and nothing the others rely on shrinks.
LEMMA TypesAndGrowth ==
    ASSUME Inv, [Next]_vars
    PROVE  TypeInv' /\ Grows
<1>0. TypeInv /\ OwnSubmissions /\ TodoFine
  BY DEF Inv
<1>1. CASE UNCHANGED <<earned, classes, certs, todo>>
  BY <1>0, <1>1 DEF TypeInv, Grows, classes
<1>2. ASSUME NEW s \in Session, Solve(s)
      PROVE  TypeInv' /\ Grows
  <2>1. PICK p \in Worth : earned' = [earned EXCEPT ![s] = @ + p]
    BY <1>2 DEF Solve
  <2>2. p \in Nat
    BY ConstantsOK
  <2>3. UNCHANGED <<classes, certs, todo>>
    BY <1>2 DEF Solve
  <2>4. earned' \in [Session -> Nat]
    BY <1>0, <2>1, <2>2 DEF TypeInv
  <2>5. \A z \in Session : earned[z] <= earned'[z]
    BY <1>0, <2>1, <2>2 DEF TypeInv
  <2> QED
    BY <1>0, <2>3, <2>4, <2>5 DEF TypeInv, Grows, classes
<1>3. ASSUME NEW u \in User, NEW t \in Team, CreateTeam(u, t)
      PROVE  TypeInv' /\ Grows
  <2>1. /\ teams' = teams \cup {t}
        /\ members' = [members EXCEPT ![t][u] = @ + 1]
        /\ UNCHANGED <<earned, assignments, submits, certs, todo>>
    BY <1>3 DEF CreateTeam, sessions
  <2> QED
    BY <1>0, <2>1 DEF TypeInv, Grows
<1>4. ASSUME NEW u \in User, NEW a \in Assignment, NEW t \in Team, NEW labs \in SUBSET Lab,
             CreateAssignment(u, a, t, labs)
      PROVE  TypeInv' /\ Grows
  <2>1. /\ assignments[a] = None
        /\ assignments' = [assignments EXCEPT ![a] = [team |-> t, labs |-> labs]]
        /\ UNCHANGED <<earned, teams, members, submits, certs, todo>>
    BY <1>4 DEF CreateAssignment, sessions
  <2>2. [team |-> t, labs |-> labs] \in Row
    BY DEF Row
  <2>3. assignments' \in [Assignment -> Row \cup {None}]
    BY <1>0, <2>1, <2>2 DEF TypeInv
  <2> QED
    BY <1>0, <2>1, <2>3 DEF TypeInv, Grows
<1>5. ASSUME NEW w \in Worker, NEW r, Decide(w, r)
      PROVE  TypeInv' /\ Grows
  <2>1. /\ UNCHANGED <<earned, classes, certs>>
        /\ todo' = [todo EXCEPT ![w] = r]
    BY <1>5 DEF Decide, sessions
  <2>2. todo' = [v \in Worker |-> todo'[v]]
    BY <1>0, <2>1, StillAFunction DEF TypeInv
  <2> QED
    BY <1>0, <2>1, <2>2 DEF TypeInv, Grows, classes
<1>6. ASSUME NEW w \in Worker, Join(w)
      PROVE  TypeInv' /\ Grows
  <2> DEFINE t == todo[w].team
             u == todo[w].user
  <2>1. t \in Team /\ u \in User
    BY <1>0, <1>6, WriteTypes DEF Join, Write
  <2>2. /\ members' = [members EXCEPT ![t][u] = @ + 1]
        /\ todo' = [todo EXCEPT ![w] = None]
        /\ UNCHANGED <<earned, teams, assignments, submits, certs>>
    BY <1>6 DEF Join, Write, sessions
  <2>3. todo' = [v \in Worker |-> todo'[v]]
    BY <1>0, <2>2, StillAFunction DEF TypeInv
  <2> HIDE DEF t, u
  <2>4. /\ members' \in [Team -> [User -> Nat]]
        /\ \A x \in Team, y \in User : members[x][y] > 0 => members'[x][y] > 0
    BY <1>0, <2>1, <2>2 DEF TypeInv
  <2> QED
    BY <1>0, <2>2, <2>3, <2>4 DEF TypeInv, Grows
<1>7. ASSUME NEW w \in Worker, Submit(w)
      PROVE  TypeInv' /\ Grows
  <2> DEFINE a == todo[w].assignment
             u == todo[w].user
             s == todo[w].session
  <2>1. a \in Assignment /\ u \in User /\ s \in Session
    BY <1>0, <1>7, WriteTypes DEF Submit, Write
  <2>2. /\ submits' = [submits EXCEPT ![a][u][s] = @ + 1]
        /\ todo' = [todo EXCEPT ![w] = None]
        /\ UNCHANGED <<earned, teams, members, assignments, certs>>
    BY <1>7 DEF Submit, Write, sessions
  <2>3. todo' = [v \in Worker |-> todo'[v]]
    BY <1>0, <2>2, StillAFunction DEF TypeInv
  <2> HIDE DEF a, u, s
  <2>4. /\ submits' \in [Assignment -> [User -> [Session -> Nat]]]
        /\ \A x \in Assignment, y \in User, z \in Session :
              submits[x][y][z] > 0 => submits'[x][y][z] > 0
    BY <1>0, <2>1, <2>2 DEF TypeInv
  <2> QED
    BY <1>0, <2>2, <2>3, <2>4 DEF TypeInv, Grows
<1>8. ASSUME NEW w \in Worker, Issue(w)
      PROVE  TypeInv' /\ Grows
  <2>1. PICK k \in Code : certs' = [certs EXCEPT ![k] = todo[w].cert]
    BY <1>8 DEF Issue
  <2>2. /\ todo' = [todo EXCEPT ![w] = None]
        /\ UNCHANGED <<earned, classes>>
    BY <1>8 DEF Issue, Write, sessions
  <2>3. todo' = [v \in Worker |-> todo'[v]]
    BY <1>0, <2>2, StillAFunction DEF TypeInv
  <2>4. certs' = [x \in Code |-> certs'[x]]
    BY <1>0, <2>1, StillAFunction DEF TypeInv
  <2> QED
    BY <1>0, <2>2, <2>3, <2>4 DEF TypeInv, Grows, classes
<1>9. ASSUME NEW w \in Worker, Aside(w)
      PROVE  TypeInv' /\ Grows
  <2>1. /\ todo' = [todo EXCEPT ![w] = None]
        /\ UNCHANGED <<earned, classes, certs>>
    BY <1>9 DEF Aside
  <2>2. todo' = [v \in Worker |-> todo'[v]]
    BY <1>0, <2>1, StillAFunction DEF TypeInv
  <2> QED
    BY <1>0, <2>1, <2>2 DEF TypeInv, Grows, classes
<1> QED
  BY <1>0, <1>1, <1>2, <1>3, <1>4, <1>5, <1>6, <1>7, <1>8, <1>9, Steps

\* Only Submit adds rows, and its write is fine.
LEMMA OwnSubmissionsKept ==
    ASSUME Inv, [Next]_vars
    PROVE  OwnSubmissions'
<1>0. TypeInv /\ OwnSubmissions /\ TodoFine
  BY DEF Inv
<1>1. TypeInv' /\ Grows
  BY TypesAndGrowth
<1> SUFFICES ASSUME NEW a \in Assignment, NEW u \in User, NEW s \in Session,
                    submits'[a][u][s] > 0
             PROVE  GoodSubmit(a, u, s)'
  BY <1>0 DEF OwnSubmissions
<1>2. CASE submits[a][u][s] > 0
  BY <1>0, <1>1, <1>2, GoodStays DEF OwnSubmissions
<1>3. CASE ~(submits[a][u][s] > 0)
  <2>1. submits' # submits
    BY <1>3
  <2>2. PICK w \in Worker : Submit(w)
    BY <1>0, <2>1, Steps DEF Solve, CreateTeam, CreateAssignment, Decide, Join, Issue, Aside, classes
  <2> DEFINE r == todo[w]
  <2>3. /\ r.assignment \in Assignment /\ r.user \in User /\ r.session \in Session
        /\ GoodSubmit(r.assignment, r.user, r.session)
    BY <1>0, <2>2, WriteTypes DEF Submit, Write
  <2>4. submits' = [submits EXCEPT ![r.assignment][r.user][r.session] = @ + 1]
    BY <2>2 DEF Submit
  <2> HIDE DEF r
  <2>5. a = r.assignment /\ u = r.user /\ s = r.session
    BY <1>0, <1>3, <2>3, <2>4 DEF TypeInv
  <2> QED
    BY <1>0, <1>1, <2>3, <2>5, GoodStays
<1> QED
  BY <1>2, <1>3

\* Decisions that stand stay fine, and a new one is.
LEMMA TodoFineKept ==
    ASSUME Inv, [Next]_vars
    PROVE  TodoFine'
<1>0. TypeInv /\ OwnSubmissions /\ TodoFine
  BY DEF Inv
<1>1. TypeInv' /\ Grows
  BY TypesAndGrowth
<1> SUFFICES ASSUME NEW CONSTANT w \in Worker, NEW CONSTANT r, r = todo'[w], r # None
             PROVE  Fine(r)'
  BY DEF TodoFine, Fine, Well, Backed, GoodSubmit, Member
<1>2. todo'[w] = todo[w] \/ \E x : Fine(x) /\ todo'[w] = x
  <2>1. CASE UNCHANGED todo
    BY <2>1
  <2>2. ASSUME NEW v \in Worker, NEW x, Fine(x), Decide(v, x)
        PROVE  todo'[w] = todo[w] \/ todo'[w] = x
    BY <1>0, <2>2 DEF Decide, TypeInv
  <2>3. ASSUME NEW v \in Worker, Join(v) \/ Submit(v) \/ Issue(v) \/ Aside(v)
        PROVE  todo'[w] = todo[w]
    <3>1. todo' = [todo EXCEPT ![v] = None]
      BY <2>3 DEF Join, Submit, Issue, Aside, Write
    <3> QED
      BY <1>0, <3>1 DEF TypeInv
  <2> QED
    BY <1>0, <2>1, <2>2, <2>3, Steps DEF Solve, CreateTeam, CreateAssignment
<1>3. Fine(r)
  BY <1>0, <1>2 DEF TodoFine
<1> QED
  BY <1>0, <1>1, <1>3, FineStays

\* A certificate issued is one that was decided on.
LEMMA CertsWellKept ==
    ASSUME Inv, [Next]_vars
    PROVE  CertsWell'
<1>0. TypeInv /\ OwnSubmissions /\ TodoFine /\ CertsWell
  BY DEF Inv
<1>1. TypeInv' /\ Grows
  BY TypesAndGrowth
<1> SUFFICES ASSUME NEW CONSTANT k \in Code, NEW CONSTANT c, c = certs'[k], c # None
             PROVE  Well(c)'
  BY DEF CertsWell, Well, Backed, GoodSubmit, Member
<1>2. Well(c)
  <2>1. CASE UNCHANGED certs
    BY <1>0, <2>1 DEF CertsWell
  <2>2. ASSUME NEW w \in Worker, Issue(w)
        PROVE  Well(c)
    <3>1. PICK j \in Code : certs' = [certs EXCEPT ![j] = todo[w].cert]
      BY <2>2 DEF Issue
    <3>2. Well(todo[w].cert)
      BY <1>0, <2>2, WriteTypes DEF Issue, Write
    <3> QED
      BY <1>0, <3>1, <3>2 DEF TypeInv, CertsWell
  <2> QED
    BY <1>0, <2>1, <2>2, Steps
       DEF Solve, CreateTeam, CreateAssignment, Decide, Join, Submit, Aside
<1> QED
  BY <1>0, <1>1, <1>2, WellStays

\* At the start there is no row, no certificate and no decision.
LEMMA InitInv == Init => Inv
<1> SUFFICES ASSUME Init
             PROVE  Inv
  OBVIOUS
<1>1. TypeInv
  BY DEF Init, TypeInv
<1>2. OwnSubmissions
  BY DEF Init, OwnSubmissions
<1>3. TodoFine
  BY DEF Init, TodoFine
<1>4. CertsWell
  BY DEF Init, CertsWell
<1> QED
  BY <1>1, <1>2, <1>3, <1>4 DEF Inv

LEMMA InvHolds == Spec => []Inv
<1>1. Inv /\ [Next]_vars => Inv'
  BY TypesAndGrowth, OwnSubmissionsKept, TodoFineKept, CertsWellKept DEF Inv
<1> QED
  BY InitInv, <1>1, PTL DEF Spec

-----------------------------------------------------------------------------
(* The results. *)

\* Every row of assignment_submits is a team member's and for a session that is its
\* own and of a lab of the assignment, although submit_assignment checks all that one
\* transaction before it writes (routers.py:668-685).
THEOREM SubmissionsOwn == Spec => []OwnSubmissions
<1>1. Inv => OwnSubmissions
  BY DEF Inv
<1> QED
  BY InvHolds, <1>1, PTL

\* A certificate for an assignment that verify_certificate shows (routers.py:728-737)
\* stays backed by a submission and its points, whatever happens after it was issued,
\* and whether or not requests for one row overlap.
THEOREM AlwaysBacked == Spec => []CertificatesBacked
<1>1. Inv => CertificatesBacked
  BY DEF Inv, CertsWell, Well, CertificatesBacked
<1> QED
  BY InvHolds, <1>1, PTL

=============================================================================
