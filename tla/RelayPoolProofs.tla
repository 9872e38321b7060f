-------------------------- MODULE RelayPoolProofs ---------------------------
(***************************************************************************)
(* The orchestrator implements RelayPool, for any sessions, workers and    *)
(* ports, and whatever fails.                                              *)
(***************************************************************************)
EXTENDS OrchestratorProofs

Closing == UNION {closing[a] : a \in Actor}

\* A step of the abstract pool, or none: what every step must be.
PoolStep == Pool!Next \/ UNCHANGED Pool!vars

\* Nothing happens in the pool when no relay changes hands.  A worker may change
\* sessions as long as it holds no relay of its own.
LEMMA PoolFrame ==
    ASSUME UNCHANGED <<registered, closing>>,
           \A w \in Worker : Own(w)' = Own(w),
           \A w \in Worker : Own(w) # {} => sid'[w] = sid[w]
    PROVE  PoolStep
<1>1. \A s \in Session : BuildingFor(s)' = BuildingFor(s)
  BY DEF BuildingFor
<1> QED
  BY <1>1 DEF PoolStep, Pool!vars

LEMMA PoolStepHolds ==
    ASSUME Inv, [Next]_vars
    PROVE  PoolStep
<1> USE ConstantsOK DEF Inv, TypeInv, TypeOK
<1>1. ASSUME NEW w \in Worker, NEW s \in Session, Arrive(w, s) PROVE PoolStep
  <2>1. \A v \in Worker : Own(v)' = Own(v)
    BY <1>1 DEF Arrive, Destroying, Own, NoEarlyRelays, ControlType, RequestType,
         At, Goto, Return, Actor, control, request
  <2>2. \A v \in Worker : Own(v) # {} => sid'[v] = sid[v]
    BY <1>1 DEF Arrive, Destroying, Own, NoEarlyRelays, ControlType, RequestType,
         At, Goto, Return, Actor, control, request
  <2>3. UNCHANGED <<registered, closing>>
    BY <1>1 DEF Arrive, store
  <2> QED
    BY <2>1, <2>2, <2>3, PoolFrame
<1>2. ASSUME NEW a \in Actor, RemoveContainers(a) PROVE PoolStep
  <2>1. \A v \in Worker : Own(v)' = Own(v)
    BY <1>2 DEF RemoveContainers, Own, NoEarlyRelays, ControlType, RequestType,
         At, Goto, Return, Actor, control, request
  <2>2. \A v \in Worker : Own(v) # {} => sid'[v] = sid[v]
    BY <1>2 DEF RemoveContainers, Own, NoEarlyRelays, ControlType, RequestType,
         At, Goto, Return, Actor, control, request
  <2>3. UNCHANGED <<registered, closing>>
    BY <1>2 DEF RemoveContainers, store
  <2> QED
    BY <2>1, <2>2, <2>3, PoolFrame
<1>3. ASSUME NEW a \in Actor, RemoveNetwork(a) PROVE PoolStep
  <2>1. \A v \in Worker : Own(v)' = Own(v)
    BY <1>3 DEF RemoveNetwork, Own, NoEarlyRelays, ControlType, RequestType, At,
         Goto, Return, Actor, control, request
  <2>2. \A v \in Worker : Own(v) # {} => sid'[v] = sid[v]
    BY <1>3 DEF RemoveNetwork, Own, NoEarlyRelays, ControlType, RequestType, At,
         Goto, Return, Actor, control, request
  <2>3. UNCHANGED <<registered, closing>>
    BY <1>3 DEF RemoveNetwork, store
  <2> QED
    BY <2>1, <2>2, <2>3, PoolFrame
<1>4. ASSUME NEW a \in Actor, ListFails(a) PROVE PoolStep
  <2>1. \A v \in Worker : Own(v)' = Own(v)
    BY <1>4 DEF ListFails, Own, NoEarlyRelays, ControlType, RequestType, At, Goto,
         Return, Actor, control, request
  <2>2. \A v \in Worker : Own(v) # {} => sid'[v] = sid[v]
    BY <1>4 DEF ListFails, Own, NoEarlyRelays, ControlType, RequestType, At, Goto,
         Return, Actor, control, request
  <2>3. UNCHANGED <<registered, closing>>
    BY <1>4 DEF ListFails, store
  <2> QED
    BY <2>1, <2>2, <2>3, PoolFrame
<1>5. ASSUME NEW a \in Actor, Drop(a) PROVE PoolStep
  <2>1. PICK s \in Session : s = sid[a]
    BY <1>5 DEF Drop, At, WorkOK, Working
  <2>2. /\ registered' = [registered EXCEPT ![s] = {}]
        /\ closing' = [closing EXCEPT ![a] = registered[s]]
        /\ closing[a] = {}
    BY <1>5, <2>1 DEF Drop, Forget, At
  <2>3. \A v \in Worker : Own(v)' = Own(v)
    BY <1>5 DEF Drop, AfterDrop, Own, NoEarlyRelays, ControlType, RequestType, At,
       Goto, Return, Actor, request
  <2>4. \A v \in Worker : Own(v) # {} => sid'[v] = sid[v]
    BY <1>5 DEF Drop, AfterDrop, Own, ControlType, At, Goto, Return, Actor, control
  <2>5. \A z \in Session : BuildingFor(z)' = BuildingFor(z)
    BY <2>3, <2>4 DEF BuildingFor
  <2>6. Closing' = Closing \cup registered[s]
    BY <2>1, <2>2 DEF Closing, RequestType
  <2>7. Pool!Withdraw(s)
    BY <2>2, <2>5, <2>6 DEF Pool!Withdraw, Closing
  <2> QED
    BY <2>7 DEF PoolStep, Pool!Next
<1>6. ASSUME NEW a \in Actor, StopDropped(a) PROVE PoolStep
  <2>1. PICK p \in closing[a] :
            closing' = [closing EXCEPT ![a] = closing[a] \ {p}]
    BY <1>6 DEF StopDropped
  <2>2. UNCHANGED <<registered, pc, sid, exposed>>
    BY <1>6 DEF StopDropped, store, control, request
  <2>3. \A z \in Session : BuildingFor(z)' = BuildingFor(z)
    BY <2>2 DEF BuildingFor, Own
  <2>4. Closing' = Closing \ {p} /\ p \in Closing /\ p \in Port
    BY <2>1 DEF Closing, RequestType, RelayOwnership
  <2>5. Pool!Close(p)
    BY <2>2, <2>3, <2>4 DEF Pool!Close, Closing
  <2> QED
    BY <2>4, <2>5 DEF PoolStep, Pool!Next
<1>7. ASSUME NEW w \in Worker, Reject(w) PROVE PoolStep
  <2>1. \A v \in Worker : Own(v)' = Own(v)
    BY <1>7 DEF Reject, Own, NoEarlyRelays, ControlType, RequestType, At, Goto,
         Return, Actor, control, request
  <2>2. \A v \in Worker : Own(v) # {} => sid'[v] = sid[v]
    BY <1>7 DEF Reject, Own, NoEarlyRelays, ControlType, RequestType, At, Goto,
         Return, Actor, control, request
  <2>3. UNCHANGED <<registered, closing>>
    BY <1>7 DEF Reject, store
  <2> QED
    BY <2>1, <2>2, <2>3, PoolFrame
<1>8. ASSUME NEW w \in Worker, Admit(w) PROVE PoolStep
  <2>1. \A v \in Worker : Own(v)' = Own(v)
    BY <1>8 DEF Admit, Destroying, Own, NoEarlyRelays, ControlType, RequestType,
         At, Goto, Return, Actor, control, request
  <2>2. \A v \in Worker : Own(v) # {} => sid'[v] = sid[v]
    BY <1>8 DEF Admit, Destroying, Own, NoEarlyRelays, ControlType, RequestType,
         At, Goto, Return, Actor, control, request
  <2>3. UNCHANGED <<registered, closing>>
    BY <1>8 DEF Admit, store
  <2> QED
    BY <2>1, <2>2, <2>3, PoolFrame
<1>9. ASSUME NEW w \in Worker, Relet(w) PROVE PoolStep
  <2>1. \A v \in Worker : Own(v)' = Own(v)
    BY <1>9 DEF Relet, Own, NoEarlyRelays, ControlType, RequestType, At, Goto,
         Return, Actor, control, request
  <2>2. \A v \in Worker : Own(v) # {} => sid'[v] = sid[v]
    BY <1>9 DEF Relet, Own, NoEarlyRelays, ControlType, RequestType, At, Goto,
         Return, Actor, control, request
  <2>3. UNCHANGED <<registered, closing>>
    BY <1>9 DEF Relet, store
  <2> QED
    BY <2>1, <2>2, <2>3, PoolFrame
<1>10. ASSUME NEW w \in Worker, CreateNetwork(w) PROVE PoolStep
  <2>1. \A v \in Worker : Own(v)' = Own(v)
    BY <1>10 DEF CreateNetwork, Own, NoEarlyRelays, ControlType, RequestType, At,
         Goto, Return, Actor, control, request
  <2>2. \A v \in Worker : Own(v) # {} => sid'[v] = sid[v]
    BY <1>10 DEF CreateNetwork, Own, NoEarlyRelays, ControlType, RequestType, At,
         Goto, Return, Actor, control, request
  <2>3. UNCHANGED <<registered, closing>>
    BY <1>10 DEF CreateNetwork, store
  <2> QED
    BY <2>1, <2>2, <2>3, PoolFrame
<1>11. ASSUME NEW w \in Worker, CreateContainer(w) PROVE PoolStep
  <2>1. \A v \in Worker : Own(v)' = Own(v)
    BY <1>11 DEF CreateContainer, Own, NoEarlyRelays, ControlType, RequestType, At,
         Goto, Return, Actor, control, request
  <2>2. \A v \in Worker : Own(v) # {} => sid'[v] = sid[v]
    BY <1>11 DEF CreateContainer, Own, NoEarlyRelays, ControlType, RequestType, At,
         Goto, Return, Actor, control, request
  <2>3. UNCHANGED <<registered, closing>>
    BY <1>11 DEF CreateContainer, store
  <2> QED
    BY <2>1, <2>2, <2>3, PoolFrame
<1>12. ASSUME NEW w \in Worker, StartContainer(w) PROVE PoolStep
  <2>1. \A v \in Worker : Own(v)' = Own(v)
    BY <1>12 DEF StartContainer, Own, NoEarlyRelays, ControlType, RequestType, At,
         Goto, Return, Actor, control, request
  <2>2. \A v \in Worker : Own(v) # {} => sid'[v] = sid[v]
    BY <1>12 DEF StartContainer, Own, NoEarlyRelays, ControlType, RequestType, At,
         Goto, Return, Actor, control, request
  <2>3. UNCHANGED <<registered, closing>>
    BY <1>12 DEF StartContainer, store
  <2> QED
    BY <2>1, <2>2, <2>3, PoolFrame
<1>13. ASSUME NEW w \in Worker, AwaitReady(w) PROVE PoolStep
  <2>1. \A v \in Worker : Own(v)' = Own(v)
    BY <1>13 DEF AwaitReady, Own, NoEarlyRelays, ControlType, RequestType, At,
         Goto, Return, Actor, control, request
  <2>2. \A v \in Worker : Own(v) # {} => sid'[v] = sid[v]
    BY <1>13 DEF AwaitReady, Own, NoEarlyRelays, ControlType, RequestType, At,
         Goto, Return, Actor, control, request
  <2>3. UNCHANGED <<registered, closing>>
    BY <1>13 DEF AwaitReady, store
  <2> QED
    BY <2>1, <2>2, <2>3, PoolFrame
<1>14. ASSUME NEW w \in Worker, StartRelay(w) PROVE PoolStep
  <2> DEFINE s == sid[w]
  <2>1. s \in Session /\ UNCHANGED <<registered, closing, sid>>
    BY <1>14 DEF StartRelay, store, At, WorkOK, Working, Actor
  <2>2. ASSUME NEW p \in Port \ listening,
               exposed' = [exposed EXCEPT ![w] = exposed[w] \cup {p}]
        PROVE  PoolStep
    <3>1. /\ Own(w)' = Own(w) \cup {p}
          /\ \A v \in Worker : v # w => Own(v)' = Own(v)
      BY <1>14, <2>2 DEF StartRelay, Own, At, Goto, ControlType, RequestType, Actor
    <3>2. /\ BuildingFor(s)' = BuildingFor(s) \cup {p}
          /\ \A z \in Session : z # s => BuildingFor(z)' = BuildingFor(z)
      BY <2>1, <3>1 DEF BuildingFor
    <3>3. p \in Port /\ p \notin listening
      OBVIOUS
    <3>4. /\ \A v \in Worker : p \notin Own(v)
          /\ \A z \in Session : p \notin registered[z]
          /\ \A b \in Actor : p \notin closing[b]
      BY <3>3 DEF RelayOwnership
    <3>5. ~Pool!Open(p)
      BY <3>4 DEF Pool!Open, BuildingFor
    <3>6. Pool!OpenFor(s, p)
      BY <2>1, <3>2, <3>5 DEF Pool!OpenFor
    <3> QED
      BY <2>1, <3>6 DEF PoolStep, Pool!Next
  <2>3. ASSUME UNCHANGED <<listening, request>>, Goto(w, "unwind")
        PROVE  PoolStep
    <3>1. \A v \in Worker : Own(v)' = Own(v)
      BY <1>14, <2>3 DEF StartRelay, Own, At, Goto, ControlType, Actor, request
    <3> QED
      BY <2>1, <3>1, PoolFrame
  <2> QED
    BY <1>14, <2>2, <2>3 DEF StartRelay
<1>15. ASSUME NEW w \in Worker, StopOwn(w) PROVE PoolStep
  <2> DEFINE s == sid[w]
  <2>1. PICK p \in exposed[w] :
            exposed' = [exposed EXCEPT ![w] = exposed[w] \ {p}]
    BY <1>15 DEF StopOwn
  <2>2. /\ pc[w] = "unwind" /\ s \in Session /\ p \in Port
        /\ UNCHANGED <<registered, closing, pc, sid>>
    BY <1>15 DEF StopOwn, At, store, control, WorkOK, Working, Actor, RequestType
  <2>3. /\ p \in Own(w) /\ Own(w)' = Own(w) \ {p}
        /\ \A v \in Worker : v # w => Own(v)' = Own(v) /\ p \notin Own(v)
    BY <2>1, <2>2 DEF Own, RequestType, RelayOwnership
  <2>4. /\ p \in BuildingFor(s) /\ BuildingFor(s)' = BuildingFor(s) \ {p}
        /\ \A z \in Session : z # s => BuildingFor(z)' = BuildingFor(z)
    BY <2>2, <2>3 DEF BuildingFor
  <2>5. Pool!Abandon(s, p)
    BY <2>2, <2>4 DEF Pool!Abandon
  <2> QED
    BY <2>2, <2>5 DEF PoolStep, Pool!Next
<1>16. ASSUME NEW w \in Worker, Unwind(w) PROVE PoolStep
  <2>1. \A v \in Worker : Own(v)' = Own(v)
    BY <1>16 DEF Unwind, Destroying, Own, NoEarlyRelays, ControlType, RequestType,
         At, Goto, Return, Actor, control, request
  <2>2. \A v \in Worker : Own(v) # {} => sid'[v] = sid[v]
    BY <1>16 DEF Unwind, Destroying, Own, NoEarlyRelays, ControlType, RequestType,
         At, Goto, Return, Actor, control, request
  <2>3. UNCHANGED <<registered, closing>>
    BY <1>16 DEF Unwind, store
  <2> QED
    BY <2>1, <2>2, <2>3, PoolFrame
<1>17. ASSUME NEW w \in Worker, AddRelays(w) PROVE PoolStep
  <2> DEFINE s == sid[w]
  <2>1. pc[w] = "register" /\ s \in Session
    BY <1>17 DEF AddRelays, At, WorkOK, Working, Actor
  <2>2. /\ registered' = [registered EXCEPT ![s] = registered[s] \cup exposed[w]]
        /\ UNCHANGED <<closing, exposed, sid>>
        /\ pc' = [pc EXCEPT ![w] = "publish"]
    BY <1>17 DEF AddRelays, Goto, request
  <2>3. /\ Own(w) = exposed[w] /\ Own(w)' = {}
        /\ \A v \in Worker : v # w => Own(v)' = Own(v)
                                    /\ Own(v) \cap exposed[w] = {}
    BY <2>1, <2>2 DEF Own, ControlType, Actor, RelayOwnership
  <2>4. /\ exposed[w] \subseteq BuildingFor(s)
        /\ BuildingFor(s)' = BuildingFor(s) \ exposed[w]
        /\ \A z \in Session : z # s => BuildingFor(z)' = BuildingFor(z)
    BY <2>2, <2>3 DEF BuildingFor
  <2>5. Pool!Offer(s, exposed[w])
    BY <2>2, <2>4 DEF Pool!Offer
  <2>6. \E P \in SUBSET BuildingFor(s) : Pool!Offer(s, P)
    BY <2>4, <2>5
  <2> QED
    BY <2>1, <2>6 DEF PoolStep, Pool!Next
<1>18. ASSUME NEW w \in Worker, Publish(w) PROVE PoolStep
  <2>1. \A v \in Worker : Own(v)' = Own(v)
    BY <1>18 DEF Publish, Own, NoEarlyRelays, ControlType, RequestType, At, Goto,
         Return, Actor, control, request
  <2>2. \A v \in Worker : Own(v) # {} => sid'[v] = sid[v]
    BY <1>18 DEF Publish, Own, NoEarlyRelays, ControlType, RequestType, At, Goto,
         Return, Actor, control, request
  <2>3. UNCHANGED <<registered, closing>>
    BY <1>18 DEF Publish, store
  <2> QED
    BY <2>1, <2>2, <2>3, PoolFrame
<1>19. ASSUME NEW s \in Session, Reap(s) PROVE PoolStep
  <2>1. \A v \in Worker : Own(v)' = Own(v)
    BY <1>19 DEF Reap, Destroying, Own, NoEarlyRelays, ControlType, RequestType,
         At, Goto, Return, Actor, control, request
  <2>2. \A v \in Worker : Own(v) # {} => sid'[v] = sid[v]
    BY <1>19 DEF Reap, Destroying, Own, NoEarlyRelays, ControlType, RequestType,
         At, Goto, Return, Actor, control, request
  <2>3. UNCHANGED <<registered, closing>>
    BY <1>19 DEF Reap, store
  <2> QED
    BY <2>1, <2>2, <2>3, PoolFrame
<1>20. ASSUME Crash PROVE PoolStep
  <2>1. /\ registered' = [s \in Session |-> {}]
        /\ exposed'    = [w \in Worker |-> {}]
        /\ closing'    = [a \in Actor |-> {}]
    BY <1>20 DEF Crash
  <2>2. \A s \in Session : BuildingFor(s)' = {}
    BY <2>1 DEF Own, BuildingFor
  <2>3. Pool!Restart
    BY <2>1, <2>2 DEF Pool!Restart
  <2> QED
    BY <2>3 DEF PoolStep, Pool!Next
<1>21. ASSUME
            \/ Wake \/ StartReconcile \/ ListContainers \/ ListNetworks
            \/ EndReconcile
     PROVE  PoolStep
  <2>1. \A v \in Worker : Own(v)' = Own(v)
    BY <1>21 DEF Wake, StartReconcile, ListContainers, ListNetworks,
         EndReconcile, Destroying, Own, NoEarlyRelays, ControlType,
         RequestType, At, Goto, Return, Actor, control, request
  <2>2. \A v \in Worker : Own(v) # {} => sid'[v] = sid[v]
    BY <1>21 DEF Wake, StartReconcile, ListContainers, ListNetworks,
         EndReconcile, Destroying, Own, NoEarlyRelays, ControlType,
         RequestType, At, Goto, Return, Actor, control, request
  <2>3. UNCHANGED <<registered, closing>>
    BY <1>21 DEF Wake, StartReconcile, ListContainers, ListNetworks,
         EndReconcile, store
  <2> QED
    BY <2>1, <2>2, <2>3, PoolFrame
<1>22. ASSUME NEW s \in Session, NEW t \in Target,
            \/ SweepContainer(s, t) \/ Age(s, t)
     PROVE  PoolStep
  <2>1. \A v \in Worker : Own(v)' = Own(v)
    BY <1>22 DEF SweepContainer, Age, Destroying, Own, NoEarlyRelays,
         ControlType, RequestType, At, Goto, Return, Actor, control, request
  <2>2. \A v \in Worker : Own(v) # {} => sid'[v] = sid[v]
    BY <1>22 DEF SweepContainer, Age, Destroying, Own, NoEarlyRelays,
         ControlType, RequestType, At, Goto, Return, Actor, control, request
  <2>3. UNCHANGED <<registered, closing>>
    BY <1>22 DEF SweepContainer, Age, store
  <2> QED
    BY <2>1, <2>2, <2>3, PoolFrame
<1>23. ASSUME NEW s \in Session,
            \/ SweepNetwork(s) \/ Extend(s) \/ Expire(s)
     PROVE  PoolStep
  <2>1. \A v \in Worker : Own(v)' = Own(v)
    BY <1>23 DEF SweepNetwork, Extend, Expire, Destroying, Own, NoEarlyRelays,
         ControlType, RequestType, At, Goto, Return, Actor, control, request
  <2>2. \A v \in Worker : Own(v) # {} => sid'[v] = sid[v]
    BY <1>23 DEF SweepNetwork, Extend, Expire, Destroying, Own, NoEarlyRelays,
         ControlType, RequestType, At, Goto, Return, Actor, control, request
  <2>3. UNCHANGED <<registered, closing>>
    BY <1>23 DEF SweepNetwork, Extend, Expire, store
  <2> QED
    BY <2>1, <2>2, <2>3, PoolFrame
<1>24. ASSUME UNCHANGED vars PROVE PoolStep
  <2>1. \A v \in Worker : Own(v)' = Own(v)
    BY <1>24 DEF vars, Destroying, Own, NoEarlyRelays, ControlType,
         RequestType, At, Goto, Return, Actor, control, request
  <2>2. \A v \in Worker : Own(v) # {} => sid'[v] = sid[v]
    BY <1>24 DEF vars, Destroying, Own, NoEarlyRelays, ControlType,
         RequestType, At, Goto, Return, Actor, control, request
  <2>3. UNCHANGED <<registered, closing>>
    BY <1>24 DEF vars, store
  <2> QED
    BY <2>1, <2>2, <2>3, PoolFrame
<1> QED
  BY StepCases, <1>1, <1>2, <1>3, <1>4, <1>5, <1>6, <1>7, <1>8, <1>9, <1>10,
       <1>11, <1>12, <1>13, <1>14, <1>15, <1>16, <1>17, <1>18, <1>19, <1>20,
       <1>21, <1>22, <1>23, <1>24

LEMMA PoolInit == Init => Pool!Init
<1> SUFFICES ASSUME Init PROVE Pool!Init
  OBVIOUS
<1>1. /\ registered = [s \in Session |-> {}]
      /\ exposed    = [w \in Worker |-> {}]
      /\ closing    = [a \in Actor |-> {}]
  BY DEF Init
<1>2. \A s \in Session : BuildingFor(s) = {}
  BY <1>1 DEF BuildingFor, Own
<1> QED
  BY <1>1, <1>2 DEF Pool!Init

\* The relays of the orchestrator behave as RelayPool says: every behaviour of
\* Orchestrator is one of RelayPool under the mapping of Pool.
THEOREM ImplementsPool == Spec => KeepsPool
<1>1. Inv /\ [Next]_vars => [Pool!Next]_(Pool!vars)
  BY PoolStepHolds DEF PoolStep
<1> QED
  BY <1>1, PoolInit, InvAlways, PTL DEF Spec, KeepsPool, Pool!Spec

=============================================================================
