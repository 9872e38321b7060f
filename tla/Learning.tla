------------------------------ MODULE Learning ------------------------------
(***************************************************************************)
(* What a learner does inside a session of the API service: submit flags,  *)
(* unlock hints, finalize.  Every handler loads the session's row, queries *)
(* the tables, computes and commits, in a thread of its own; queries see   *)
(* what is committed, nothing is locked and no table has a unique          *)
(* constraint, so the commit may rest on counts that are no longer true.   *)
(*                                                                         *)
(* The attempts of the last minute are kept in a dictionary of the         *)
(* process, read and written back without a lock.                          *)
(***************************************************************************)
EXTENDS Integers, Sequences, FiniteSets, SequencesExt

CONSTANTS
    Session,        \* active sessions
    Objective,      \* scored objectives of their lab
    Worker,         \* threads that serve requests
    Modes,          \* launch modes in play, a subset of ModeNames
    HintCosts,      \* cost of each hint of the lab, by level
    Limit,          \* submissions a session may make in a minute (5 in the code)
    MaxSubmissions, \* bound on the submissions kept
    MaxMinutes,     \* bound on the minutes that pass
    Overlap,        \* whether a session may get a request while one is served
    None

ModeNames == {"guided", "challenge", "assessment", "demo"}

ASSUME ConstantsOK ==
    /\ Modes \subseteq ModeNames
    /\ HintCosts \in Seq(Nat)
    /\ Limit \in Nat \ {0} /\ MaxSubmissions \in Nat /\ MaxMinutes \in Nat
    /\ Overlap \in BOOLEAN
    /\ None \notin Session \cup Objective \cup Worker

VARIABLES
    mode,       \* per session, the mode it was launched in
    finalized,  \* per session, whether it is finalized
    tally,      \* per session, the score its finalize answered, or None
    subs,       \* the submissions table
    unlocks,    \* the hint_unlocks table
    attempts,   \* _attempts: per session, submissions of the last minute
    accepted,   \* per session, those of them that passed the check (history)
    minutes,    \* minutes passed
    pc,         \* per worker, what it does next
    req,        \* per worker, the request it serves
    seen        \* per worker, the numbers it has read for its next write

tables == <<subs, unlocks>>
rate   == <<attempts, accepted, minutes>>
local  == <<pc, req, seen>>
vars   == <<mode, finalized, tally, tables, rate, local>>

Request == [session : Session, objective : Objective \cup {None},
            right : BOOLEAN, fixed : BOOLEAN]

NoRequest == [session |-> None, objective |-> None, right |-> FALSE, fixed |-> FALSE]

\* Worker w takes a request on session s.  Nothing makes it wait for another one
\* of the same session; with Overlap = FALSE the clients do.
Accept(w, s) ==
    /\ pc[w] = "idle"
    /\ Overlap \/ \A v \in Worker : req[v].session # s

Goto(w, l) == pc' = [pc EXCEPT ![w] = l]

See(w, v) == seen' = [seen EXCEPT ![w] = v]

Return(w) ==
    /\ Goto(w, "idle")
    /\ req' = [req EXCEPT ![w] = NoRequest]
    /\ See(w, <<>>)

Init ==
    /\ mode      \in [Session -> Modes]
    /\ finalized = [s \in Session |-> FALSE]
    /\ tally     = [s \in Session |-> None]
    /\ subs      = <<>>
    /\ unlocks   = <<>>
    /\ attempts  = [s \in Session |-> 0]
    /\ accepted  = [s \in Session |-> 0]
    /\ minutes   = 0
    /\ pc        = [w \in Worker |-> "idle"]
    /\ req       = [w \in Worker |-> NoRequest]
    /\ seen      = [w \in Worker |-> <<>>]

-----------------------------------------------------------------------------
(* Scoring. *)

BasePoints == 400
Floor      == 100

\* 0.9^n of the base, rounded down; the decay stops at the floor.
Decayed(n) ==
    LET p == (BasePoints * 9^n) \div 10^n
    IN  IF p < Floor THEN Floor ELSE p

AtLeast(low, n) == IF n < low THEN low ELSE n

\* Mutant: hints are free.
ScoreHintFree(solvesBefore, hintCost, tried, first, fixed) ==
    LET p == Decayed(solvesBefore)
    IN  AtLeast(Floor \div 2,
                (IF first THEN (p * 11) \div 10 ELSE p)
                  - 2 * AtLeast(0, tried - 1) + (IF fixed THEN 25 ELSE 0))

\* score_solve.
Score(solvesBefore, hintCost, tried, first, fixed) ==
    LET p == Decayed(solvesBefore)
    IN  AtLeast(Floor \div 2,
                (IF first THEN (p * 11) \div 10 ELSE p) - hintCost
                  - 2 * AtLeast(0, tried - 1) + (IF fixed THEN 25 ELSE 0))

\* The rows of a table that concern session s.
Of(table, s) == SelectSeq(table, LAMBDA r : r.session = s)

Costs(s) == LET mine == Of(unlocks, s)
            IN  SumFunction([i \in DOMAIN mine |-> mine[i].cost])

\* Points of the session's submissions.
Gross(s) == LET mine == Of(subs, s)
            IN  SumFunction([i \in DOMAIN mine |-> mine[i].points])

-----------------------------------------------------------------------------
(* Submissions. *)

\* Mutant: the lock is not looked at.
OpenLocked(s) == s \in Session

\* own_session, and the check that the session is not finalized.
Open(s) == ~finalized[s]

\* Bound: a place is kept for every submission under way.
PlacesLeft ==
    Len(subs) + Cardinality({w \in Worker : req[w].objective # None}) < MaxSubmissions

Submit(w, s, o, right, fixed) ==
    /\ Accept(w, s)
    /\ Open(s)
    /\ PlacesLeft
    /\ req' = [req EXCEPT ![w] = [session |-> s, objective |-> o,
                                 right |-> right, fixed |-> fixed]]
    /\ Goto(w, "rate")
    /\ UNCHANGED <<mode, finalized, tally, tables, rate, seen>>

\* Mutant: one submission too many.
OverLimitLate(n) == n > Limit

OverLimit(n) == n >= Limit

\* Read the attempts of the last minute; too many are refused.
CheckRate(w) ==
    LET n == attempts[req[w].session]
    IN  /\ pc[w] = "rate"
        /\ IF OverLimit(n)
             THEN Return(w)
             ELSE Goto(w, "remember") /\ See(w, <<n + 1>>) /\ UNCHANGED req
        /\ UNCHANGED <<mode, finalized, tally, tables, rate>>

\* Write them back with this one; a flag for an unknown objective, or for one that
\* is not scored, is refused only now.
Remember(w) ==
    LET s == req[w].session
    IN  /\ pc[w] = "remember"
        /\ attempts' = [attempts EXCEPT ![s] = seen[w][1]]
        /\ accepted' = [accepted EXCEPT ![s] = @ + 1]
        /\ \/ Goto(w, "count") /\ See(w, <<>>) /\ UNCHANGED req
           \/ Return(w)
        /\ UNCHANGED <<mode, finalized, tally, tables, minutes>>

\* The correct submissions for an objective, in any session.
Solves(s, o) == SelectSeq(subs, LAMBDA r : r.objective = o /\ r.correct)

\* Count the tries and the cost of the hints so far, and the solves before.
Count(w) ==
    LET s == req[w].session
        o == req[w].objective
    IN  /\ pc[w] = "count"
        /\ See(w, <<1 + Len(SelectSeq(Of(subs, s), LAMBDA r : r.objective = o)),
                    Costs(s),
                    Len(Solves(s, o))>>)
        /\ Goto(w, "record")
        /\ UNCHANGED <<mode, finalized, tally, tables, rate, req>>

\* Commit the submission with its points; `unhinted' is what they would be had no
\* hint been deducted.
Record(w) ==
    LET tried  == seen[w][1]
        costs  == seen[w][2]
        solves == seen[w][3]
        r      == req[w]
        first  == solves = 0
        Points(cost) ==
            IF r.right THEN Score(solves, cost, tried, first, r.fixed) ELSE 0
    IN  /\ pc[w] = "record"
        /\ subs' = Append(subs, [session |-> r.session, objective |-> r.objective,
                                 correct |-> r.right, points |-> Points(costs),
                                 unhinted |-> Points(0)])
        /\ Return(w)
        /\ UNCHANGED <<mode, finalized, tally, unlocks, rate>>

\* A minute without submissions passes.
Minute ==
    /\ minutes < MaxMinutes
    /\ \A w \in Worker : pc[w] \notin {"rate", "remember"}
    /\ minutes'  = minutes + 1
    /\ attempts' = [s \in Session |-> 0]
    /\ accepted' = [s \in Session |-> 0]
    /\ UNCHANGED <<mode, finalized, tally, tables, local>>

-----------------------------------------------------------------------------
(* Hints. *)

\* In demo mode hints are shown and nothing is recorded: not a step.
Unlock(w, s) ==
    /\ Accept(w, s)
    /\ Open(s)
    /\ mode[s] # "demo"
    /\ req' = [req EXCEPT ![w] = [NoRequest EXCEPT !.session = s]]
    /\ Goto(w, "hints")
    /\ UNCHANGED <<mode, finalized, tally, tables, rate, seen>>

\* Mutants: no cap in an assessment; the next level is one too high.
MayUnlockAny(s, done) == done < Len(HintCosts)
NextLevelSkips(done)  == done + 2

\* An assessment has one hint, and the lab no more than it lists.
MayUnlock(s, done) ==
    /\ mode[s] = "assessment" => done = 0
    /\ done < Len(HintCosts)

NextLevel(done) == done + 1

CountHints(w) ==
    LET s    == req[w].session
        done == Len(Of(unlocks, s))
    IN  /\ pc[w] = "hints"
        /\ IF MayUnlock(s, done)
             THEN Goto(w, "unlock") /\ See(w, <<done>>) /\ UNCHANGED req
             ELSE Return(w)
        /\ UNCHANGED <<mode, finalized, tally, tables, rate>>

RecordHint(w) ==
    /\ pc[w] = "unlock"
    /\ unlocks' = Append(unlocks, [session |-> req[w].session,
                                   level |-> NextLevel(seen[w][1]),
                                   cost |-> HintCosts[seen[w][1] + 1]])
    /\ Return(w)
    /\ UNCHANGED <<mode, finalized, tally, subs, rate>>

-----------------------------------------------------------------------------
(* Finalize. *)

Finalize(w, s) ==
    /\ Accept(w, s)
    /\ Open(s)
    /\ req' = [req EXCEPT ![w] = [NoRequest EXCEPT !.session = s]]
    /\ Goto(w, "tally")
    /\ UNCHANGED <<mode, finalized, tally, tables, rate, seen>>

TallyUp(w) ==
    /\ pc[w] = "tally"
    /\ See(w, <<Gross(req[w].session)>>)
    /\ Goto(w, "lock")
    /\ UNCHANGED <<mode, finalized, tally, tables, rate, req>>

\* The row is locked, and the score answered as immutable.  (The time bonus of an
\* assessment is added to the answer only.)
Lock(w) ==
    LET s == req[w].session
    IN  /\ pc[w] = "lock"
        /\ finalized' = [finalized EXCEPT ![s] = TRUE]
        /\ tally' = [tally EXCEPT ![s] = seen[w][1]]
        /\ Return(w)
        /\ UNCHANGED <<mode, tables, rate>>

-----------------------------------------------------------------------------

Start(w) ==
    \E s \in Session :
        \/ \E o \in Objective, right, fixed \in BOOLEAN : Submit(w, s, o, right, fixed)
        \/ Unlock(w, s)
        \/ Finalize(w, s)

Serve(w) ==
    \/ CheckRate(w) \/ Remember(w) \/ Count(w) \/ Record(w)
    \/ CountHints(w) \/ RecordHint(w) \/ TallyUp(w) \/ Lock(w)

Next == Minute \/ \E w \in Worker : Start(w) \/ Serve(w)

Spec == Init /\ [][Next]_vars

-----------------------------------------------------------------------------
(* Properties. *)

Submission == [session : Session, objective : Objective, correct : BOOLEAN,
               points : Nat, unhinted : Nat]

HintUnlock == [session : Session, level : 1..Len(HintCosts), cost : Nat]

\* Every variable has its type; in particular points are never negative and a
\* level exists in the lab.
TypeOK ==
    /\ mode      \in [Session -> Modes]
    /\ finalized \in [Session -> BOOLEAN]
    /\ tally     \in [Session -> Nat \cup {None}]
    /\ subs      \in Seq(Submission)
    /\ unlocks   \in Seq(HintUnlock)
    /\ attempts  \in [Session -> 0..Limit]
    /\ accepted  \in [Session -> Nat]
    /\ minutes   \in 0..MaxMinutes
    /\ pc        \in [Worker -> {"idle", "rate", "remember", "count", "record",
                                "hints", "unlock", "tally", "lock"}]
    /\ req       \in [Worker -> Request \cup {NoRequest} \cup
                                [session : Session, objective : {None},
                                 right : {FALSE}, fixed : {FALSE}]]
    /\ seen      \in [Worker -> Seq(Nat)]

\* "submissions and unlocks rejected (409), score immutable": the score a
\* finalize answered is the session's score ever after.
FinalScoreStands == \A s \in Session : finalized[s] => tally[s] = Gross(s)

\* "Hint unlocks are sequential per session": the levels unlocked are 1, 2, ...,
\* each paid once; in an assessment, "max 1 unlock, then 403".
HintsInOrder ==
    \A s \in Session :
        LET mine == Of(unlocks, s)
        IN  /\ \A i \in DOMAIN mine : mine[i].level = i
            /\ mode[s] = "assessment" => Len(mine) <= 1

\* "rate-limited (5/min)": no more submissions pass in a minute.
RateKept == \A s \in Session : accepted[s] <= Limit

\* A solve is charged for every hint its session has unlocked when the solve is
\* committed, unless that brings it to the floor.
SolvesCharged ==
    [][Len(subs') > Len(subs) =>
          LET r == Last(subs')
          IN  r.correct => \/ r.unhinted - r.points = Costs(r.session)
                           \/ r.points = Floor \div 2]_vars

=============================================================================
