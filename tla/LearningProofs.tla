--------------------------- MODULE LearningProofs ---------------------------
(***************************************************************************)
(* Proofs about Learning, for any sessions, workers, objectives, hints and *)
(* limit: the rate of submissions is kept by sessions that make one        *)
(* request at a time.                                                      *)
(*                                                                         *)
(* The dictionary of attempts is read in one step and written back in      *)
(* another, so that what a worker has read must still be there.            *)
(***************************************************************************)
EXTENDS Learning, TLAPS

Labels == {"idle", "rate", "remember", "count", "record", "hints", "unlock",
           "tally", "lock"}

\* Any request, or none.
SomeRequest == [session : Session \cup {None}, objective : Objective \cup {None},
                right : BOOLEAN, fixed : BOOLEAN]

\* The variables the rate depends on have their types.
RateType ==
    /\ attempts \in [Session -> 0..Limit]
    /\ pc       \in [Worker -> Labels]
    /\ req      \in [Worker -> SomeRequest]
    /\ DOMAIN seen = Worker

\* A session is worked on by one worker at most, and a busy worker has a session.
Alone ==
    /\ \A w \in Worker : pc[w] # "idle" => req[w].session \in Session
    /\ \A v, w \in Worker :
          req[v].session \in Session /\ req[v].session = req[w].session => v = w

\* What a worker is about to write back counts its own submission and no other.
Remembered(w) ==
    LET n == attempts[req[w].session]
    IN  pc[w] = "remember" => seen[w] = <<n + 1>> /\ n < Limit

RateInv ==
    /\ RateType
    /\ accepted = attempts
    /\ Alone
    /\ \A w \in Worker : Remembered(w)

-----------------------------------------------------------------------------
(* The operators. *)

\* No request is one of the requests.
LEMMA NoRequestType ==
    /\ NoRequest \in SomeRequest
    /\ NoRequest.session \notin Session
    /\ \A s \in Session : /\ [NoRequest EXCEPT !.session = s] \in SomeRequest
                          /\ [NoRequest EXCEPT !.session = s].session = s
  BY ConstantsOK DEF NoRequest, SomeRequest

\* A worker that returns leaves the session to others.
LEMMA ReturnStep ==
    ASSUME RateInv, NEW w \in Worker, Return(w), UNCHANGED rate
    PROVE  RateInv'
<1>1. /\ pc' = [pc EXCEPT ![w] = "idle"]
      /\ req' = [req EXCEPT ![w] = NoRequest]
      /\ seen' = [seen EXCEPT ![w] = <<>>]
      /\ attempts' = attempts /\ accepted' = accepted
  BY DEF Return, Goto, See, rate
<1>2. RateType'
  BY <1>1, NoRequestType DEF RateInv, RateType, Labels
<1>3. Alone'
  BY <1>1, NoRequestType DEF RateInv, RateType, Alone
<1>4. \A v \in Worker : Remembered(v)'
  BY <1>1 DEF RateInv, RateType, Remembered
<1> QED
  BY <1>1, <1>2, <1>3, <1>4 DEF RateInv

\* So does one that goes on without touching the attempts.
LEMMA GoOnStep ==
    ASSUME RateInv, NEW w \in Worker, NEW l \in Labels \ {"idle", "remember"},
           pc[w] # "idle", Goto(w, l), UNCHANGED <<req, rate>>,
           DOMAIN seen' = Worker, \A v \in Worker : v # w => seen'[v] = seen[v]
    PROVE  RateInv'
<1>1. /\ pc' = [pc EXCEPT ![w] = l] /\ req' = req
      /\ attempts' = attempts /\ accepted' = accepted
  BY DEF Goto, rate
<1>2. RateType' /\ Alone'
  BY <1>1 DEF RateInv, RateType, Alone
<1>3. ASSUME NEW v \in Worker PROVE Remembered(v)'
  BY <1>1 DEF RateInv, RateType, Remembered
<1> QED
  BY <1>1, <1>2, <1>3 DEF RateInv

\* A worker takes a request on a session only if no other one has it.
LEMMA AcceptStep ==
    ASSUME RateInv, Overlap = FALSE, NEW w \in Worker, NEW s \in Session,
           NEW r \in SomeRequest, r.session = s, Accept(w, s),
           NEW l \in Labels \ {"idle", "remember"}, Goto(w, l),
           req' = [req EXCEPT ![w] = r], UNCHANGED <<rate, seen>>
    PROVE  RateInv'
<1>1. /\ pc' = [pc EXCEPT ![w] = l]
      /\ req' = [req EXCEPT ![w] = r]
      /\ attempts' = attempts /\ accepted' = accepted /\ seen' = seen
      /\ \A v \in Worker : req[v].session # s
  BY DEF Goto, Accept, rate
<1>2. RateType'
  BY <1>1 DEF RateInv, RateType
<1>3. Alone'
  BY <1>1 DEF RateInv, RateType, Alone
<1>4. \A v \in Worker : Remembered(v)'
  BY <1>1 DEF RateInv, RateType, Remembered
<1> QED
  BY <1>1, <1>2, <1>3, <1>4 DEF RateInv

-----------------------------------------------------------------------------
(* The steps. *)

\* Before the first request nothing is counted.
LEMMA InitRate == Init => RateInv
<1> SUFFICES ASSUME Init PROVE RateInv
  OBVIOUS
<1>1. RateType
  BY NoRequestType, ConstantsOK DEF Init, RateType, Labels
<1>2. Alone /\ \A w \in Worker : Remembered(w)
  BY NoRequestType DEF Init, Alone, Remembered
<1> QED
  BY <1>1, <1>2 DEF Init, RateInv

\* A request is taken.
LEMMA StartRate ==
    ASSUME RateInv, Overlap = FALSE, NEW w \in Worker, Start(w)
    PROVE  RateInv'
<1>1. ASSUME NEW s \in Session, NEW o \in Objective, NEW right \in BOOLEAN,
             NEW fixed \in BOOLEAN, Submit(w, s, o, right, fixed)
      PROVE  RateInv'
  <2> DEFINE r == [session |-> s, objective |-> o, right |-> right, fixed |-> fixed]
  <2>1. r \in SomeRequest /\ r.session = s
    BY DEF SomeRequest
  <2>2. /\ req' = [req EXCEPT ![w] = r] /\ Accept(w, s) /\ Goto(w, "rate")
        /\ UNCHANGED <<rate, seen>>
    BY <1>1 DEF Submit
  <2>3. "rate" \in Labels \ {"idle", "remember"}
    BY DEF Labels
  <2> HIDE DEF r
  <2> QED
    BY <2>1, <2>2, <2>3, AcceptStep
<1>2. ASSUME NEW s \in Session, Unlock(w, s) \/ Finalize(w, s) PROVE RateInv'
  <2> DEFINE r == [NoRequest EXCEPT !.session = s]
  <2>1. r \in SomeRequest /\ r.session = s
    BY NoRequestType
  <2>2. PICK l \in {"hints", "tally"} :
           /\ req' = [req EXCEPT ![w] = r] /\ Accept(w, s) /\ Goto(w, l)
           /\ UNCHANGED <<rate, seen>>
    BY <1>2 DEF Unlock, Finalize
  <2>3. l \in Labels \ {"idle", "remember"}
    BY DEF Labels
  <2> HIDE DEF r
  <2> QED
    BY <2>1, <2>2, <2>3, AcceptStep
<1> QED
  BY <1>1, <1>2 DEF Start

\* The attempts are read: the worker goes on only if they are below the limit.
LEMMA CheckRateStep ==
    ASSUME RateInv, NEW w \in Worker, CheckRate(w)
    PROVE  RateInv'
<1> DEFINE s == req[w].session
           n == attempts[s]
<1>1. pc[w] = "rate" /\ UNCHANGED rate
  BY DEF CheckRate
<1>2. s \in Session /\ n \in 0..Limit /\ Limit \in Nat
  BY <1>1, ConstantsOK DEF RateInv, RateType, Alone
<1>3. CASE OverLimit(n)
  BY <1>1, <1>3, ReturnStep DEF CheckRate
<1>4. CASE ~OverLimit(n)
  <2>1. n < Limit
    BY <1>2, <1>4 DEF OverLimit
  <2>2. /\ pc' = [pc EXCEPT ![w] = "remember"] /\ seen' = [seen EXCEPT ![w] = <<n + 1>>]
        /\ req' = req /\ attempts' = attempts /\ accepted' = accepted
    BY <1>1, <1>4 DEF CheckRate, Goto, See, rate
  <2>3. RateType'
    BY <2>2 DEF RateInv, RateType, Labels
  <2>4. Alone'
    BY <1>2, <2>2 DEF RateInv, RateType, Alone
  <2>5. ASSUME NEW v \in Worker PROVE Remembered(v)'
    <3>1. CASE v = w
      BY <2>1, <2>2, <3>1 DEF RateInv, RateType, Remembered
    <3>2. CASE v # w
      BY <2>2, <3>2 DEF RateInv, RateType, Remembered
    <3> QED
      BY <3>1, <3>2
  <2> QED
    BY <2>2, <2>3, <2>4, <2>5 DEF RateInv
<1> QED
  BY <1>3, <1>4

\* They are written back: what the worker read is still what is there.
LEMMA RememberStep ==
    ASSUME RateInv, NEW w \in Worker, Remember(w)
    PROVE  RateInv'
<1> DEFINE s == req[w].session
           n == attempts[s]
<1>1. /\ pc[w] = "remember" /\ s \in Session /\ n \in 0..Limit /\ Limit \in Nat
      /\ seen[w] = <<n + 1>> /\ n < Limit
  BY ConstantsOK DEF Remember, RateInv, RateType, Alone, Remembered
<1>2. /\ n + 1 \in 0..Limit
      /\ attempts' = [attempts EXCEPT ![s] = n + 1]
      /\ accepted' = [attempts EXCEPT ![s] = n + 1]
  BY <1>1 DEF Remember, RateInv, RateType
<1>3. PICK l \in {"idle", "count"} :
         /\ pc' = [pc EXCEPT ![w] = l]
         /\ seen' = [seen EXCEPT ![w] = <<>>]
         /\ \/ l = "count" /\ req' = req
            \/ l = "idle" /\ req' = [req EXCEPT ![w] = NoRequest]
  BY DEF Remember, Goto, See, Return
<1>4. RateType'
  BY <1>1, <1>2, <1>3, NoRequestType DEF RateInv, RateType, Labels
<1>5. Alone'
  BY <1>1, <1>3, NoRequestType DEF RateInv, RateType, Alone
<1>6. ASSUME NEW v \in Worker PROVE Remembered(v)'
  <2>1. CASE v = w
    BY <1>3, <2>1 DEF RateInv, RateType, Remembered
  <2>2. ASSUME v # w, pc[v] = "remember"
        PROVE  attempts'[req[v].session] = attempts[req[v].session]
    <3>1. req[v].session \in Session /\ req[v].session # s
      BY <1>1, <2>2 DEF RateInv, Alone
    <3> QED
      BY <1>2, <3>1 DEF RateInv, RateType
  <2>3. CASE v # w
    <3>1. pc'[v] = pc[v] /\ req'[v] = req[v] /\ seen'[v] = seen[v]
      BY <1>3, <2>3 DEF RateInv, RateType
    <3> QED
      BY <2>2, <2>3, <3>1 DEF RateInv, Remembered
  <2> QED
    BY <2>1, <2>3
<1> QED
  BY <1>2, <1>4, <1>5, <1>6 DEF RateInv

\* A minute passes when nobody is between reading and writing.
LEMMA MinuteStep ==
    ASSUME RateInv, Minute
    PROVE  RateInv'
<1>1. /\ attempts' = [s \in Session |-> 0] /\ accepted' = attempts'
      /\ pc' = pc /\ req' = req /\ seen' = seen
      /\ \A w \in Worker : pc[w] # "remember"
  BY DEF Minute, local
<1>2. RateType' /\ Alone'
  BY <1>1, ConstantsOK DEF RateInv, RateType, Alone
<1>3. \A w \in Worker : Remembered(w)'
  BY <1>1 DEF Remembered
<1> QED
  BY <1>1, <1>2, <1>3 DEF RateInv

\* The rest of a submission, and hints and finalize, leave the attempts alone.
LEMMA ServeRate ==
    ASSUME RateInv, NEW w \in Worker, Serve(w)
    PROVE  RateInv'
<1>1. CASE CheckRate(w) \/ Remember(w)
  BY <1>1, CheckRateStep, RememberStep
<1>2. CASE Record(w) \/ RecordHint(w) \/ Lock(w)
  BY <1>2, ReturnStep DEF Record, RecordHint, Lock
<1>3. ASSUME NEW l \in {"record", "unlock", "lock"}, NEW v, pc[w] # "idle",
             Goto(w, l), See(w, v), UNCHANGED <<req, rate>>
      PROVE  RateInv'
  <2>1. l \in Labels \ {"idle", "remember"}
    BY DEF Labels
  <2>2. DOMAIN seen' = Worker /\ \A u \in Worker : u # w => seen'[u] = seen[u]
    BY <1>3 DEF See, RateInv, RateType
  <2> QED
    BY <1>3, <2>1, <2>2, GoOnStep
<1>4. CASE Count(w)
  BY <1>3, <1>4 DEF Count
<1>5. CASE TallyUp(w)
  BY <1>3, <1>5 DEF TallyUp
<1>6. CASE CountHints(w)
  BY <1>3, <1>6, ReturnStep DEF CountHints
<1> QED
  BY <1>1, <1>2, <1>4, <1>5, <1>6 DEF Serve

\* If a session makes one request at a time, no more than Limit of its submissions
\* pass in a minute.
THEOREM RateAlwaysKept ==
    ASSUME Overlap = FALSE PROVE Spec => []RateKept
<1>1. ASSUME RateInv, [Next]_vars PROVE RateInv'
  <2>1. CASE Next
    BY <1>1, <2>1, MinuteStep, StartRate, ServeRate DEF Next
  <2>2. CASE UNCHANGED vars
    BY <1>1, <2>2 DEF RateInv, RateType, Alone, Remembered, vars, rate, local
  <2> QED
    BY <1>1, <2>1, <2>2
<1>2. RateInv => RateKept
  BY ConstantsOK DEF RateInv, RateType, RateKept
<1>3. RateInv /\ [Next]_vars => RateInv'
  BY <1>1
<1> QED
  BY <1>2, <1>3, InitRate, PTL DEF Spec

=============================================================================
