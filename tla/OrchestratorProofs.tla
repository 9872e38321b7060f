------------------------- MODULE OrchestratorProofs -------------------------
(***************************************************************************)
(* Proofs about Orchestrator, for any sessions, workers, ports, number of  *)
(* targets and number of passes over the networks, and whatever fails.     *)
(***************************************************************************)
EXTENDS Orchestrator, TLAPS

\* The steps at which an actor is working on a session.
Working == {"admit", "containers", "networks", "drop", "relet", "network",
            "create", "start", "ready", "relay", "unwind", "register",
            "publish"}

\* What type correctness needs to be inductive: an actor that works has a
\* session to work on, and destroy_session has a pass left when it is about to
\* make one.
WorkOK ==
    \A a \in Actor :
        /\ pc[a] \in Working => sid[a] \in Session
        /\ pc[a] = "networks" => tries[a] < NetTries

TypeInv == TypeOK /\ WorkOK

\* Every step of the specification is one of the named actions, for some actor,
\* session or target.
LEMMA StepCases ==
    ASSUME Next
    PROVE  \/ \E w \in Worker, s \in Session : Arrive(w, s)
           \/ \E a \in Actor : \/ RemoveContainers(a) \/ RemoveNetwork(a)
                               \/ ListFails(a) \/ Drop(a) \/ StopDropped(a)
           \/ \E w \in Worker :
                \/ Reject(w) \/ Admit(w) \/ Relet(w) \/ CreateNetwork(w)
                \/ CreateContainer(w) \/ StartContainer(w) \/ AwaitReady(w)
                \/ StartRelay(w) \/ StopOwn(w) \/ Unwind(w) \/ AddRelays(w)
                \/ Publish(w)
           \/ Wake \/ StartReconcile \/ ListContainers
           \/ ListNetworks \/ EndReconcile
           \/ \E s \in Session : \/ Reap(s) \/ SweepNetwork(s)
                                 \/ Extend(s) \/ Expire(s)
           \/ \E s \in Session, t \in Target : SweepContainer(s, t) \/ Age(s, t)
           \/ Crash
<1>1. CASE \E w \in Worker, s \in Session : Arrive(w, s)
  BY <1>1
<1>2. CASE \E w \in Worker : WorkerStep(w)
  <2> Worker \subseteq Actor
    BY DEF Actor
  <2> QED
    BY <1>2 DEF WorkerStep
<1>3. CASE ReaperStep
  <2> Reaper \in Actor
    BY DEF Actor
  <2> QED
    BY <1>3 DEF ReaperStep
<1>4. CASE \E s \in Session : Extend(s) \/ Expire(s)
  BY <1>4
<1>5. CASE \E s \in Session, t \in Target : Age(s, t)
  BY <1>5
<1>6. CASE Crash
  BY <1>6
<1> QED
  BY <1>1, <1>2, <1>3, <1>4, <1>5, <1>6 DEF Next

-----------------------------------------------------------------------------
(* Type correctness. *)

LEMMA TypeInit == Init => TypeInv
<1> SUFFICES ASSUME Init PROVE TypeInv
  OBVIOUS
<1> USE ConstantsOK DEF Init
<1>1. StoreType /\ RequestType /\ ReaperType
  BY DEF StoreType, RequestType, ReaperType, Target
<1>2. DockerType
  BY DEF DockerType, NoContainers, ContainerStates
<1>3. ControlType /\ WorkOK
  BY DEF ControlType, Labels, Reasons, Actor, WorkOK, Working
<1> QED
  BY <1>1, <1>2, <1>3 DEF TypeInv, TypeOK

\* Removing containers keeps what is left well typed.
LEMMA WithoutType ==
    ASSUME DockerType, NEW s \in Session, NEW T \in SUBSET Target
    PROVE  Without(s, T) \in [Target -> ContainerStates]
BY DEF Without, DockerType, ContainerStates

LEMMA StoreTypeStep ==
    ASSUME TypeInv, [Next]_vars
    PROVE  StoreType'
<1> USE ConstantsOK DEF TypeInv, TypeOK
<1>1. ASSUME NEW a \in Actor, Drop(a) PROVE StoreType'
  BY <1>1
     DEF Drop, Forget, store, docker, control, request, sweep, mode, StoreType
<1>2. ASSUME NEW a \in Actor, StopDropped(a) PROVE StoreType'
  BY <1>2
     DEF StopDropped, store, docker, control, request, sweep, mode, StoreType
<1>3. ASSUME NEW w \in Worker, Admit(w) PROVE StoreType'
  BY <1>3
     DEF Admit, Upsert, store, docker, control, request, sweep, mode, StoreType
<1>4. ASSUME NEW w \in Worker, Relet(w) PROVE StoreType'
  BY <1>4
     DEF Relet, Upsert, store, docker, control, request, sweep, mode, StoreType
<1>5. ASSUME NEW w \in Worker, StartRelay(w) PROVE StoreType'
  BY <1>5
     DEF StartRelay, store, docker, control, request, sweep, mode, StoreType
<1>6. ASSUME NEW w \in Worker, StopOwn(w) PROVE StoreType'
  BY <1>6
     DEF StopOwn, store, docker, control, request, sweep, mode, StoreType
<1>7. ASSUME NEW w \in Worker, AddRelays(w) PROVE StoreType'
  BY <1>7
     DEF AddRelays, RequestType, store, docker, control, request, sweep, mode,
          StoreType
<1>8. ASSUME NEW w \in Worker, Publish(w) PROVE StoreType'
  BY <1>8
     DEF Publish, Upsert, RequestType, store, docker, control, request, sweep,
          mode, StoreType
<1>9. ASSUME NEW s \in Session, Extend(s) PROVE StoreType'
  BY <1>9
     DEF Extend, store, docker, control, request, sweep, mode, StoreType
<1>10. ASSUME NEW s \in Session, Expire(s) PROVE StoreType'
  BY <1>10
     DEF Expire, store, docker, control, request, sweep, mode, StoreType
<1>11. ASSUME Crash PROVE StoreType'
  BY <1>11
     DEF Crash, store, docker, control, request, sweep, mode, StoreType
<1>12. ASSUME NEW w \in Worker, NEW s \in Session,
            Arrive(w, s)
     PROVE  StoreType'
  BY <1>12 DEF Arrive, store, docker, control, request, sweep, mode, StoreType
<1>13. ASSUME NEW a \in Actor,
            \/ RemoveContainers(a) \/ RemoveNetwork(a) \/ ListFails(a)
     PROVE  StoreType'
  BY <1>13 DEF RemoveContainers, RemoveNetwork, ListFails, store, docker, control,
       request, sweep, mode, StoreType
<1>14. ASSUME NEW w \in Worker,
            \/ Reject(w) \/ CreateNetwork(w) \/ CreateContainer(w)
            \/ StartContainer(w) \/ AwaitReady(w) \/ Unwind(w)
     PROVE  StoreType'
  BY <1>14 DEF Reject, CreateNetwork, CreateContainer, StartContainer, AwaitReady, Unwind,
       store, docker, control, request, sweep, mode, StoreType
<1>15. ASSUME
            \/ Wake \/ StartReconcile \/ ListContainers \/ ListNetworks
            \/ EndReconcile
     PROVE  StoreType'
  BY <1>15 DEF Wake, StartReconcile, ListContainers, ListNetworks, EndReconcile, store,
       docker, control, request, sweep, mode, StoreType
<1>16. ASSUME NEW s \in Session,
            \/ Reap(s) \/ SweepNetwork(s)
     PROVE  StoreType'
  BY <1>16 DEF Reap, SweepNetwork, store, docker, control, request, sweep, mode, StoreType
<1>17. ASSUME NEW s \in Session, NEW t \in Target,
            \/ SweepContainer(s, t) \/ Age(s, t)
     PROVE  StoreType'
  BY <1>17 DEF SweepContainer, Age, store, docker, control, request, sweep, mode,
       StoreType
<1>18. ASSUME UNCHANGED vars PROVE StoreType'
  BY <1>18 DEF vars, store, docker, control, request, sweep, mode, StoreType
<1> QED
  BY StepCases, <1>1, <1>2, <1>3, <1>4, <1>5, <1>6, <1>7, <1>8, <1>9, <1>10,
       <1>11, <1>12, <1>13, <1>14, <1>15, <1>16, <1>17, <1>18

LEMMA DockerTypeStep ==
    ASSUME TypeInv, [Next]_vars
    PROVE  DockerType'
<1> USE ConstantsOK DEF TypeInv, TypeOK
<1>1. ASSUME NEW a \in Actor, RemoveContainers(a) PROVE DockerType'
  <2>1. sid[a] \in Session
    BY <1>1 DEF RemoveContainers, At, WorkOK, Working
  <2>2. \A T \in SUBSET Target : Without(sid[a], T) \in [Target -> ContainerStates]
    BY <2>1, WithoutType
  <2>3. /\ UNCHANGED networks
        /\ \E T \in SUBSET Target :
              containers' = [containers EXCEPT ![sid[a]] = Without(sid[a], T)]
    BY <1>1 DEF RemoveContainers, Remove
  <2> QED
    BY <2>1, <2>2, <2>3 DEF DockerType
<1>2. ASSUME NEW a \in Actor, RemoveNetwork(a) PROVE DockerType'
  BY <1>2
     DEF RemoveNetwork, store, docker, control, request, sweep, mode,
          DockerType
<1>3. ASSUME NEW w \in Worker, CreateNetwork(w) PROVE DockerType'
  BY <1>3
     DEF CreateNetwork, WorkOK, Working, At, Actor, store, docker, control,
          request, sweep, mode, DockerType
<1>4. ASSUME NEW w \in Worker, CreateContainer(w) PROVE DockerType'
  BY <1>4
     DEF CreateContainer, ContainerStates, store, docker, control, request,
          sweep, mode, DockerType
<1>5. ASSUME NEW w \in Worker, StartContainer(w) PROVE DockerType'
  <2> DEFINE c == containers[sid[w]][next[w]]
  <2>1. sid[w] \in Session /\ next[w] \in Target
    BY <1>5 DEF StartContainer, At, WorkOK, Working, RequestType, Actor
  <2>2. UNCHANGED networks
    BY <1>5 DEF StartContainer
  <2>3. CASE Mine(w) /\ containers' = [containers EXCEPT ![sid[w]][next[w]].state = "young"]
    <3>1. c \in ContainerStates /\ c # Absent
      BY <2>1, <2>3 DEF Mine, DockerType, Absent
    <3>2. [c EXCEPT !.state = "young"] \in ContainerStates
      BY <3>1 DEF ContainerStates
    <3>3. [containers[sid[w]] EXCEPT ![next[w]] = [c EXCEPT !.state = "young"]]
              \in [Target -> ContainerStates]
      BY <3>2, <2>1 DEF DockerType
    <3>4. containers' = [containers EXCEPT ![sid[w]] =
              [containers[sid[w]] EXCEPT ![next[w]] = [c EXCEPT !.state = "young"]]]
      BY <2>1, <2>3 DEF DockerType
    <3> QED
      BY <2>2, <3>3, <3>4 DEF DockerType
  <2>4. CASE \E T \in SUBSET Target :
                containers' = [containers EXCEPT ![sid[w]] = Without(sid[w], T)]
    <3>1. \A T \in SUBSET Target : Without(sid[w], T) \in [Target -> ContainerStates]
      BY <2>1, WithoutType
    <3> QED
      BY <2>2, <2>4, <3>1 DEF DockerType
  <2>5. CASE UNCHANGED containers
    BY <2>2, <2>5 DEF DockerType
  <2> QED
    BY <1>5, <2>1, <2>3, <2>4, <2>5 DEF StartContainer, Remove
<1>6. ASSUME NEW s \in Session, NEW t \in Target, SweepContainer(s, t) PROVE DockerType'
  <2>1. \A T \in SUBSET Target : Without(s, T) \in [Target -> ContainerStates]
    BY WithoutType
  <2>2. /\ UNCHANGED networks
        /\ \/ UNCHANGED containers
           \/ containers' = [containers EXCEPT ![s] = Without(s, {t})]
    BY <1>6 DEF SweepContainer, Remove
  <2> QED
    BY <2>1, <2>2 DEF DockerType
<1>7. ASSUME NEW s \in Session, SweepNetwork(s) PROVE DockerType'
  BY <1>7
     DEF SweepNetwork, store, docker, control, request, sweep, mode, DockerType
<1>8. ASSUME NEW s \in Session, NEW t \in Target, Age(s, t) PROVE DockerType'
  <2>1. containers[s][t] \in ContainerStates /\ containers[s][t].state = "young"
    BY <1>8 DEF Age, DockerType
  <2>2. [containers[s][t] EXCEPT !.state = "old"] \in ContainerStates
    BY <2>1 DEF ContainerStates, Absent
  <2>3. containers' = [containers EXCEPT ![s] =
            [containers[s] EXCEPT ![t] = [containers[s][t] EXCEPT !.state = "old"]]]
    BY <1>8 DEF Age, DockerType
  <2>4. [containers[s] EXCEPT ![t] = [containers[s][t] EXCEPT !.state = "old"]]
            \in [Target -> ContainerStates]
    BY <2>2 DEF DockerType
  <2>5. UNCHANGED networks
    BY <1>8 DEF Age
  <2> QED
    BY <2>3, <2>4, <2>5 DEF DockerType
<1>9. ASSUME NEW w \in Worker, NEW s \in Session,
            Arrive(w, s)
     PROVE  DockerType'
  BY <1>9 DEF Arrive, store, docker, control, request, sweep, mode, DockerType
<1>10. ASSUME NEW a \in Actor,
            \/ ListFails(a) \/ Drop(a) \/ StopDropped(a)
     PROVE  DockerType'
  BY <1>10 DEF ListFails, Drop, StopDropped, store, docker, control, request, sweep, mode,
       DockerType
<1>11. ASSUME NEW w \in Worker,
            \/ Reject(w) \/ Admit(w) \/ Relet(w) \/ AwaitReady(w)
            \/ StartRelay(w) \/ StopOwn(w) \/ Unwind(w) \/ AddRelays(w)
            \/ Publish(w)
     PROVE  DockerType'
  BY <1>11 DEF Reject, Admit, Relet, AwaitReady, StartRelay, StopOwn, Unwind, AddRelays,
       Publish, store, docker, control, request, sweep, mode, DockerType
<1>12. ASSUME
            \/ Wake \/ StartReconcile \/ ListContainers \/ ListNetworks
            \/ EndReconcile \/ Crash
     PROVE  DockerType'
  BY <1>12 DEF Wake, StartReconcile, ListContainers, ListNetworks, EndReconcile, Crash,
       store, docker, control, request, sweep, mode, DockerType
<1>13. ASSUME NEW s \in Session,
            \/ Reap(s) \/ Extend(s) \/ Expire(s)
     PROVE  DockerType'
  BY <1>13 DEF Reap, Extend, Expire, store, docker, control, request, sweep, mode,
       DockerType
<1>14. ASSUME UNCHANGED vars PROVE DockerType'
  BY <1>14 DEF vars, store, docker, control, request, sweep, mode, DockerType
<1> QED
  BY StepCases, <1>1, <1>2, <1>3, <1>4, <1>5, <1>6, <1>7, <1>8, <1>9, <1>10,
       <1>11, <1>12, <1>13, <1>14

LEMMA ControlTypeStep ==
    ASSUME TypeInv, [Next]_vars
    PROVE  (ControlType /\ WorkOK)'
<1> USE ConstantsOK DEF TypeInv, TypeOK
<1>1. ASSUME NEW w \in Worker, NEW s \in Session, Arrive(w, s) PROVE (ControlType /\ WorkOK)'
  BY <1>1
     DEF Arrive, Destroying, ControlType, WorkOK, Working, Actor, Labels,
          Reasons, At, Goto, store, docker, control, request, sweep, mode
<1>2. ASSUME NEW a \in Actor, RemoveContainers(a) PROVE (ControlType /\ WorkOK)'
  <2>1. pc[a] = "containers" /\ UNCHANGED <<sid, why>>
        /\ pc' = [pc EXCEPT ![a] = "networks"] /\ tries' = [tries EXCEPT ![a] = 0]
    BY <1>2 DEF RemoveContainers, At, Goto
  <2>2. 0 \in 0..NetTries /\ 0 < NetTries
    OBVIOUS
  <2> QED
    BY <2>1, <2>2 DEF ControlType, WorkOK, Working, Labels
<1>3. ASSUME NEW a \in Actor, RemoveNetwork(a) PROVE (ControlType /\ WorkOK)'
  <2> DEFINE more == tries[a] + 1
  <2>1. pc[a] = "networks" /\ UNCHANGED <<sid, why>>
    BY <1>3 DEF RemoveNetwork, At
  <2>2. \/ pc' = [pc EXCEPT ![a] = "drop"] /\ UNCHANGED tries
        \/ /\ pc' = [pc EXCEPT ![a] = IF more < NetTries THEN "networks" ELSE "drop"]
           /\ tries' = [tries EXCEPT ![a] = more]
    BY <1>3 DEF RemoveNetwork, Goto
  <2>3. more \in 0..NetTries
    BY <2>1 DEF ControlType, WorkOK
  <2> QED
    BY <2>1, <2>2, <2>3 DEF ControlType, WorkOK, Working, Labels
<1>4. ASSUME NEW a \in Actor, ListFails(a) PROVE (ControlType /\ WorkOK)'
  BY <1>4
     DEF ListFails, Return, ControlType, WorkOK, Working, Actor, Labels,
          Reasons, At, Goto, store, docker, control, request, sweep, mode
<1>5. ASSUME NEW a \in Actor, Drop(a) PROVE (ControlType /\ WorkOK)'
  BY <1>5
     DEF Drop, AfterDrop, Return, ControlType, WorkOK, Working, Actor, Labels,
          Reasons, At, Goto, store, docker, control, request, sweep, mode
<1>6. ASSUME NEW w \in Worker, Reject(w) PROVE (ControlType /\ WorkOK)'
  BY <1>6
     DEF Reject, Return, ControlType, WorkOK, Working, Actor, Labels, Reasons,
          At, Goto, store, docker, control, request, sweep, mode
<1>7. ASSUME NEW w \in Worker, Admit(w) PROVE (ControlType /\ WorkOK)'
  BY <1>7
     DEF Admit, Destroying, ControlType, WorkOK, Working, Actor, Labels,
          Reasons, At, Goto, store, docker, control, request, sweep, mode
<1>8. ASSUME NEW w \in Worker, Publish(w) PROVE (ControlType /\ WorkOK)'
  BY <1>8
     DEF Publish, Return, ControlType, WorkOK, Working, Actor, Labels, Reasons,
          At, Goto, store, docker, control, request, sweep, mode
<1>9. ASSUME NEW w \in Worker, Unwind(w) PROVE (ControlType /\ WorkOK)'
  BY <1>9
     DEF Unwind, Destroying, ControlType, WorkOK, Working, Actor, Labels,
          Reasons, At, Goto, store, docker, control, request, sweep, mode
<1>10. ASSUME NEW s \in Session, Reap(s) PROVE (ControlType /\ WorkOK)'
  BY <1>10
     DEF Reap, Destroying, ControlType, WorkOK, Working, Actor, Labels,
          Reasons, At, Goto, store, docker, control, request, sweep, mode
<1>11. ASSUME NEW w \in Worker, CreateNetwork(w) PROVE (ControlType /\ WorkOK)'
  BY <1>11
     DEF CreateNetwork, ControlType, WorkOK, Working, Actor, Labels, Reasons,
          At, Goto, store, docker, control, request, sweep, mode
<1>12. ASSUME Crash PROVE (ControlType /\ WorkOK)'
  <2>1. /\ pc'    = [a \in Actor |-> IF a = Reaper THEN "list containers" ELSE "idle"]
        /\ sid'   = [a \in Actor |-> None]
        /\ why'   = [a \in Actor |-> None]
        /\ tries' = [a \in Actor |-> 0]
    BY <1>12 DEF Crash
  <2>2. 0 \in 0..NetTries
    OBVIOUS
  <2> QED
    BY <2>1, <2>2 DEF ControlType, WorkOK, Working, Labels
<1>13. ASSUME NEW a \in Actor,
            StopDropped(a)
     PROVE  (ControlType /\ WorkOK)'
  BY <1>13 DEF StopDropped, ControlType, WorkOK, Working, Actor, Labels, At, Goto, store,
       docker, control, request, sweep, mode
<1>14. ASSUME NEW w \in Worker,
            \/ Relet(w) \/ CreateContainer(w) \/ StartContainer(w)
            \/ AwaitReady(w) \/ StartRelay(w) \/ StopOwn(w) \/ AddRelays(w)
     PROVE  (ControlType /\ WorkOK)'
  BY <1>14 DEF Relet, CreateContainer, StartContainer, AwaitReady, StartRelay, StopOwn,
       AddRelays, ControlType, WorkOK, Working, Actor, Labels, At, Goto, store,
       docker, control, request, sweep, mode
<1>15. ASSUME
            \/ Wake \/ StartReconcile \/ ListContainers \/ ListNetworks
            \/ EndReconcile
     PROVE  (ControlType /\ WorkOK)'
  BY <1>15 DEF Wake, StartReconcile, ListContainers, ListNetworks, EndReconcile,
       ControlType, WorkOK, Working, Actor, Labels, At, Goto, store, docker,
       control, request, sweep, mode
<1>16. ASSUME NEW s \in Session, NEW t \in Target,
            \/ SweepContainer(s, t) \/ Age(s, t)
     PROVE  (ControlType /\ WorkOK)'
  BY <1>16 DEF SweepContainer, Age, ControlType, WorkOK, Working, Actor, Labels, At, Goto,
       store, docker, control, request, sweep, mode
<1>17. ASSUME NEW s \in Session,
            \/ SweepNetwork(s) \/ Extend(s) \/ Expire(s)
     PROVE  (ControlType /\ WorkOK)'
  BY <1>17 DEF SweepNetwork, Extend, Expire, ControlType, WorkOK, Working, Actor, Labels,
       At, Goto, store, docker, control, request, sweep, mode
<1>18. ASSUME UNCHANGED vars PROVE (ControlType /\ WorkOK)'
  BY <1>18 DEF vars, ControlType, WorkOK, Working, Actor, Labels, At, Goto,
       store, docker, control, request, sweep, mode
<1> QED
  BY StepCases, <1>1, <1>2, <1>3, <1>4, <1>5, <1>6, <1>7, <1>8, <1>9, <1>10,
       <1>11, <1>12, <1>13, <1>14, <1>15, <1>16, <1>17, <1>18

LEMMA RequestTypeStep ==
    ASSUME TypeInv, [Next]_vars
    PROVE  RequestType'
<1> USE ConstantsOK DEF TypeInv, TypeOK
<1>1. ASSUME NEW a \in Actor, ListFails(a) PROVE RequestType'
  BY <1>1
     DEF ListFails, RequestType, Return, Target, request
<1>2. ASSUME NEW a \in Actor, Drop(a) PROVE RequestType'
  BY <1>2
     DEF Drop, StoreType, Forget, WorkOK, Working, At, RequestType, Return,
          Target, request
<1>3. ASSUME NEW a \in Actor, StopDropped(a) PROVE RequestType'
  BY <1>3
     DEF StopDropped, RequestType, Return, Target, request
<1>4. ASSUME NEW w \in Worker, Reject(w) PROVE RequestType'
  BY <1>4
     DEF Reject, RequestType, Return, Target, request
<1>5. ASSUME NEW w \in Worker, StartRelay(w) PROVE RequestType'
  BY <1>5
     DEF StartRelay, LastTarget, RequestType, Return, Target, request
<1>6. ASSUME NEW w \in Worker, StopOwn(w) PROVE RequestType'
  BY <1>6
     DEF StopOwn, RequestType, Return, Target, request
<1>7. ASSUME NEW w \in Worker, Publish(w) PROVE RequestType'
  BY <1>7
     DEF Publish, RequestType, Return, Target, request
<1>8. ASSUME Crash PROVE RequestType'
  <2>1. /\ next'    = [w \in Worker |-> 1]
        /\ exposed' = [w \in Worker |-> {}]
        /\ closing' = [a \in Actor |-> {}]
    BY <1>8 DEF Crash
  <2>2. 1 \in Target
    BY DEF Target
  <2> QED
    BY <2>1, <2>2 DEF RequestType
<1>9. ASSUME NEW w \in Worker, NEW s \in Session,
            Arrive(w, s)
     PROVE  RequestType'
  BY <1>9 DEF Arrive, RequestType, store, docker, control, request, sweep, mode
<1>10. ASSUME NEW a \in Actor,
            \/ RemoveContainers(a) \/ RemoveNetwork(a)
     PROVE  RequestType'
  BY <1>10 DEF RemoveContainers, RemoveNetwork, RequestType, store, docker, control,
       request, sweep, mode
<1>11. ASSUME NEW w \in Worker,
            \/ Admit(w) \/ Relet(w) \/ CreateNetwork(w) \/ CreateContainer(w)
            \/ StartContainer(w) \/ AwaitReady(w) \/ Unwind(w)
            \/ AddRelays(w)
     PROVE  RequestType'
  BY <1>11 DEF Admit, Relet, CreateNetwork, CreateContainer, StartContainer, AwaitReady,
       Unwind, AddRelays, RequestType, store, docker, control, request, sweep,
       mode
<1>12. ASSUME
            \/ Wake \/ StartReconcile \/ ListContainers \/ ListNetworks
            \/ EndReconcile
     PROVE  RequestType'
  BY <1>12 DEF Wake, StartReconcile, ListContainers, ListNetworks, EndReconcile,
       RequestType, store, docker, control, request, sweep, mode
<1>13. ASSUME NEW s \in Session,
            \/ Reap(s) \/ SweepNetwork(s) \/ Extend(s) \/ Expire(s)
     PROVE  RequestType'
  BY <1>13 DEF Reap, SweepNetwork, Extend, Expire, RequestType, store, docker, control,
       request, sweep, mode
<1>14. ASSUME NEW s \in Session, NEW t \in Target,
            \/ SweepContainer(s, t) \/ Age(s, t)
     PROVE  RequestType'
  BY <1>14 DEF SweepContainer, Age, RequestType, store, docker, control, request, sweep,
       mode
<1>15. ASSUME UNCHANGED vars PROVE RequestType'
  BY <1>15 DEF vars, RequestType, store, docker, control, request, sweep, mode
<1> QED
  BY StepCases, <1>1, <1>2, <1>3, <1>4, <1>5, <1>6, <1>7, <1>8, <1>9, <1>10,
       <1>11, <1>12, <1>13, <1>14, <1>15

\* The failures counted stay within their bound.
LEMMA FaultType ==
    ASSUME ReaperType, NoFault \/ \E kind \in FaultKind : Fault(kind)
    PROVE  faults' \in 0..MaxFaults
BY ConstantsOK DEF ReaperType, NoFault, Fault

LEMMA ReaperTypeStep ==
    ASSUME TypeInv, [Next]_vars
    PROVE  ReaperType'
<1> USE ConstantsOK DEF TypeInv, TypeOK
<1>1. ASSUME NEW a \in Actor, RemoveContainers(a) PROVE ReaperType'
  BY <1>1, FaultType
     DEF RemoveContainers, FaultKind, Remove, ReaperType, ExpiredLeases,
          LeasedSessions, sweep, mode
<1>2. ASSUME NEW a \in Actor, RemoveNetwork(a) PROVE ReaperType'
  BY <1>2, FaultType
     DEF RemoveNetwork, FaultKind, ReaperType, ExpiredLeases, LeasedSessions,
          sweep, mode
<1>3. ASSUME NEW a \in Actor, ListFails(a) PROVE ReaperType'
  BY <1>3, FaultType
     DEF ListFails, FaultKind, ReaperType, ExpiredLeases, LeasedSessions,
          sweep, mode
<1>4. ASSUME NEW w \in Worker, CreateNetwork(w) PROVE ReaperType'
  BY <1>4, FaultType
     DEF CreateNetwork, FaultKind, ReaperType, ExpiredLeases, LeasedSessions,
          sweep, mode
<1>5. ASSUME NEW w \in Worker, CreateContainer(w) PROVE ReaperType'
  BY <1>5, FaultType
     DEF CreateContainer, FaultKind, ReaperType, ExpiredLeases, LeasedSessions,
          sweep, mode
<1>6. ASSUME NEW w \in Worker, StartContainer(w) PROVE ReaperType'
  BY <1>6, FaultType
     DEF StartContainer, FaultKind, Remove, ReaperType, ExpiredLeases,
          LeasedSessions, sweep, mode
<1>7. ASSUME Wake PROVE ReaperType'
  BY <1>7
     DEF Wake, ReaperType, ExpiredLeases, LeasedSessions, sweep, mode
<1>8. ASSUME StartReconcile PROVE ReaperType'
  BY <1>8
     DEF StartReconcile, ReaperType, ExpiredLeases, LeasedSessions, sweep, mode
<1>9. ASSUME ListContainers PROVE ReaperType'
  BY <1>9
     DEF ListContainers, ReaperType, ExpiredLeases, LeasedSessions, sweep, mode
<1>10. ASSUME ListNetworks PROVE ReaperType'
  BY <1>10
     DEF ListNetworks, DockerType, docker, ReaperType, ExpiredLeases,
          LeasedSessions, sweep, mode
<1>11. ASSUME EndReconcile PROVE ReaperType'
  BY <1>11, FaultType
     DEF EndReconcile, FaultKind, ReaperType, ExpiredLeases, LeasedSessions,
          sweep, mode
<1>12. ASSUME NEW s \in Session, Reap(s) PROVE ReaperType'
  BY <1>12
     DEF Reap, ReaperType, ExpiredLeases, LeasedSessions, sweep, mode
<1>13. ASSUME NEW s \in Session, NEW t \in Target, SweepContainer(s, t) PROVE ReaperType'
  BY <1>13, FaultType
     DEF SweepContainer, FaultKind, Remove, ReaperType, ExpiredLeases,
          LeasedSessions, sweep, mode
<1>14. ASSUME NEW s \in Session, SweepNetwork(s) PROVE ReaperType'
  BY <1>14, FaultType
     DEF SweepNetwork, FaultKind, ReaperType, ExpiredLeases, LeasedSessions,
          sweep, mode
<1>15. ASSUME Crash PROVE ReaperType'
  BY <1>15, FaultType
     DEF Crash, FaultKind, ReaperType, ExpiredLeases, LeasedSessions, sweep,
          mode
<1>16. ASSUME NEW w \in Worker, NEW s \in Session,
            Arrive(w, s)
     PROVE  ReaperType'
  BY <1>16 DEF Arrive, ReaperType, store, docker, control, request, sweep, mode
<1>17. ASSUME NEW a \in Actor,
            \/ Drop(a) \/ StopDropped(a)
     PROVE  ReaperType'
  BY <1>17 DEF Drop, StopDropped, ReaperType, store, docker, control, request, sweep, mode
<1>18. ASSUME NEW w \in Worker,
            \/ Reject(w) \/ Admit(w) \/ Relet(w) \/ AwaitReady(w)
            \/ StartRelay(w) \/ StopOwn(w) \/ Unwind(w) \/ AddRelays(w)
            \/ Publish(w)
     PROVE  ReaperType'
  BY <1>18 DEF Reject, Admit, Relet, AwaitReady, StartRelay, StopOwn, Unwind, AddRelays,
       Publish, ReaperType, store, docker, control, request, sweep, mode
<1>19. ASSUME NEW s \in Session,
            \/ Extend(s) \/ Expire(s)
     PROVE  ReaperType'
  BY <1>19 DEF Extend, Expire, ReaperType, store, docker, control, request, sweep, mode
<1>20. ASSUME NEW s \in Session, NEW t \in Target,
            Age(s, t)
     PROVE  ReaperType'
  BY <1>20 DEF Age, ReaperType, store, docker, control, request, sweep, mode
<1>21. ASSUME UNCHANGED vars PROVE ReaperType'
  BY <1>21 DEF vars, ReaperType, store, docker, control, request, sweep, mode
<1> QED
  BY StepCases, <1>1, <1>2, <1>3, <1>4, <1>5, <1>6, <1>7, <1>8, <1>9, <1>10,
       <1>11, <1>12, <1>13, <1>14, <1>15, <1>16, <1>17, <1>18, <1>19, <1>20,
       <1>21

LEMMA TypeStep == TypeInv /\ [Next]_vars => TypeInv'
BY StoreTypeStep, DockerTypeStep, ControlTypeStep, RequestTypeStep,
   ReaperTypeStep DEF TypeInv, TypeOK

\* Every variable keeps its type, whatever fails and however requests, reaper and
\* clocks interleave.
THEOREM TypeCorrect == Spec => []TypeOK
<1>1. TypeInv => TypeOK
  BY DEF TypeInv
<1> QED
  BY <1>1, TypeInit, TypeStep, PTL DEF Spec

-----------------------------------------------------------------------------
(* Relays. *)

\* A request holds no relay before it has a network: the invariant that
\* RelayOwnership needs to be inductive.
NoEarlyRelays ==
    \A w \in Worker :
        pc[w] \in {"idle", "admit", "containers", "networks", "drop", "relet",
                  "network"} => exposed[w] = {}

Inv == TypeInv /\ NoEarlyRelays /\ RelayOwnership /\ RelaysBacked

LEMMA NoEarlyRelaysStep ==
    ASSUME Inv, [Next]_vars
    PROVE  NoEarlyRelays'
<1> USE ConstantsOK DEF Inv, TypeInv, TypeOK
<1>1. ASSUME NEW w \in Worker, NEW s \in Session, Arrive(w, s) PROVE NoEarlyRelays'
  BY <1>1
     DEF Arrive, Destroying, NoEarlyRelays, ControlType, RequestType, At, Goto,
          Return, Actor, control, request
<1>2. ASSUME NEW a \in Actor, RemoveContainers(a) PROVE NoEarlyRelays'
  BY <1>2
     DEF RemoveContainers, NoEarlyRelays, ControlType, RequestType, At, Goto,
          Return, Actor, control, request
<1>3. ASSUME NEW a \in Actor, RemoveNetwork(a) PROVE NoEarlyRelays'
  BY <1>3
     DEF RemoveNetwork, NoEarlyRelays, ControlType, RequestType, At, Goto,
          Return, Actor, control, request
<1>4. ASSUME NEW a \in Actor, ListFails(a) PROVE NoEarlyRelays'
  BY <1>4
     DEF ListFails, NoEarlyRelays, ControlType, RequestType, At, Goto, Return,
          Actor, control, request
<1>5. ASSUME NEW a \in Actor, Drop(a) PROVE NoEarlyRelays'
  BY <1>5
     DEF Drop, AfterDrop, NoEarlyRelays, ControlType, RequestType, At, Goto,
          Return, Actor, control, request
<1>6. ASSUME NEW a \in Actor, StopDropped(a) PROVE NoEarlyRelays'
  BY <1>6
     DEF StopDropped, NoEarlyRelays, ControlType, RequestType, At, Goto,
          Return, Actor, control, request
<1>7. ASSUME NEW w \in Worker, Reject(w) PROVE NoEarlyRelays'
  BY <1>7
     DEF Reject, NoEarlyRelays, ControlType, RequestType, At, Goto, Return,
          Actor, control, request
<1>8. ASSUME NEW w \in Worker, Admit(w) PROVE NoEarlyRelays'
  BY <1>8
     DEF Admit, Destroying, NoEarlyRelays, ControlType, RequestType, At, Goto,
          Return, Actor, control, request
<1>9. ASSUME NEW w \in Worker, Relet(w) PROVE NoEarlyRelays'
  BY <1>9
     DEF Relet, NoEarlyRelays, ControlType, RequestType, At, Goto, Return,
          Actor, control, request
<1>10. ASSUME NEW w \in Worker, CreateNetwork(w) PROVE NoEarlyRelays'
  BY <1>10
     DEF CreateNetwork, NoEarlyRelays, ControlType, RequestType, At, Goto,
          Return, Actor, control, request
<1>11. ASSUME NEW w \in Worker, CreateContainer(w) PROVE NoEarlyRelays'
  BY <1>11
     DEF CreateContainer, NoEarlyRelays, ControlType, RequestType, At, Goto,
          Return, Actor, control, request
<1>12. ASSUME NEW w \in Worker, StartContainer(w) PROVE NoEarlyRelays'
  BY <1>12
     DEF StartContainer, NoEarlyRelays, ControlType, RequestType, At, Goto,
          Return, Actor, control, request
<1>13. ASSUME NEW w \in Worker, AwaitReady(w) PROVE NoEarlyRelays'
  BY <1>13
     DEF AwaitReady, NoEarlyRelays, ControlType, RequestType, At, Goto, Return,
          Actor, control, request
<1>14. ASSUME NEW w \in Worker, StartRelay(w) PROVE NoEarlyRelays'
  BY <1>14
     DEF StartRelay, NoEarlyRelays, ControlType, RequestType, At, Goto, Return,
          Actor, control, request
<1>15. ASSUME NEW w \in Worker, StopOwn(w) PROVE NoEarlyRelays'
  BY <1>15
     DEF StopOwn, NoEarlyRelays, ControlType, RequestType, At, Goto, Return,
          Actor, control, request
<1>16. ASSUME NEW w \in Worker, Unwind(w) PROVE NoEarlyRelays'
  BY <1>16
     DEF Unwind, Destroying, NoEarlyRelays, ControlType, RequestType, At, Goto,
          Return, Actor, control, request
<1>17. ASSUME NEW w \in Worker, AddRelays(w) PROVE NoEarlyRelays'
  BY <1>17
     DEF AddRelays, NoEarlyRelays, ControlType, RequestType, At, Goto, Return,
          Actor, control, request
<1>18. ASSUME NEW w \in Worker, Publish(w) PROVE NoEarlyRelays'
  BY <1>18
     DEF Publish, NoEarlyRelays, ControlType, RequestType, At, Goto, Return,
          Actor, control, request
<1>19. ASSUME NEW s \in Session, Reap(s) PROVE NoEarlyRelays'
  BY <1>19
     DEF Reap, Destroying, NoEarlyRelays, ControlType, RequestType, At, Goto,
          Return, Actor, control, request
<1>20. ASSUME Crash PROVE NoEarlyRelays'
  BY <1>20
     DEF Crash, NoEarlyRelays, ControlType, RequestType, At, Goto, Return,
          Actor, control, request
<1>21. ASSUME
            \/ Wake \/ StartReconcile \/ ListContainers \/ ListNetworks
            \/ EndReconcile
     PROVE  NoEarlyRelays'
  BY <1>21 DEF Wake, StartReconcile, ListContainers, ListNetworks, EndReconcile,
       NoEarlyRelays, ControlType, Actor, Goto, control, request
<1>22. ASSUME NEW s \in Session, NEW t \in Target,
            \/ SweepContainer(s, t) \/ Age(s, t)
     PROVE  NoEarlyRelays'
  BY <1>22 DEF SweepContainer, Age, NoEarlyRelays, ControlType, Actor, Goto, control,
       request
<1>23. ASSUME NEW s \in Session,
            \/ SweepNetwork(s) \/ Extend(s) \/ Expire(s)
     PROVE  NoEarlyRelays'
  BY <1>23 DEF SweepNetwork, Extend, Expire, NoEarlyRelays, ControlType, Actor, Goto,
       control, request
<1>24. ASSUME UNCHANGED vars PROVE NoEarlyRelays'
  BY <1>24 DEF vars, NoEarlyRelays, ControlType, Actor, Goto, control, request
<1> QED
  BY StepCases, <1>1, <1>2, <1>3, <1>4, <1>5, <1>6, <1>7, <1>8, <1>9, <1>10,
       <1>11, <1>12, <1>13, <1>14, <1>15, <1>16, <1>17, <1>18, <1>19, <1>20,
       <1>21, <1>22, <1>23, <1>24

\* RelayOwnership only depends on who holds which relay.
LEMMA OwnershipFrame ==
    ASSUME RelayOwnership, UNCHANGED <<listening, registered, closing>>,
           \A w \in Worker : Own(w)' = Own(w)
    PROVE  RelayOwnership'
BY DEF RelayOwnership

LEMMA RelayOwnershipStep ==
    ASSUME Inv, [Next]_vars
    PROVE  RelayOwnership'
<1> USE ConstantsOK DEF Inv, TypeInv, TypeOK
<1>1. ASSUME NEW w \in Worker, NEW s \in Session, Arrive(w, s) PROVE RelayOwnership'
  <2>1. \A v \in Worker : Own(v)' = Own(v)
    BY <1>1 DEF Arrive, Destroying, Upsert, Own, NoEarlyRelays, ControlType,
         RequestType, At, Goto, Return, Actor, control, request
  <2>2. UNCHANGED <<listening, registered, closing>>
    BY <1>1 DEF Arrive, store
  <2> QED
    BY <2>1, <2>2, OwnershipFrame
<1>2. ASSUME NEW a \in Actor, RemoveContainers(a) PROVE RelayOwnership'
  <2>1. \A v \in Worker : Own(v)' = Own(v)
    BY <1>2 DEF RemoveContainers, Own, NoEarlyRelays, ControlType, RequestType,
         At, Goto, Return, Actor, control, request
  <2>2. UNCHANGED <<listening, registered, closing>>
    BY <1>2 DEF RemoveContainers, store
  <2> QED
    BY <2>1, <2>2, OwnershipFrame
<1>3. ASSUME NEW a \in Actor, RemoveNetwork(a) PROVE RelayOwnership'
  <2>1. \A v \in Worker : Own(v)' = Own(v)
    BY <1>3 DEF RemoveNetwork, Own, NoEarlyRelays, ControlType, RequestType, At,
         Goto, Return, Actor, control, request
  <2>2. UNCHANGED <<listening, registered, closing>>
    BY <1>3 DEF RemoveNetwork, store
  <2> QED
    BY <2>1, <2>2, OwnershipFrame
<1>4. ASSUME NEW a \in Actor, ListFails(a) PROVE RelayOwnership'
  <2>1. \A v \in Worker : Own(v)' = Own(v)
    BY <1>4 DEF ListFails, Own, NoEarlyRelays, ControlType, RequestType, At, Goto,
         Return, Actor, control, request
  <2>2. UNCHANGED <<listening, registered, closing>>
    BY <1>4 DEF ListFails, store
  <2> QED
    BY <2>1, <2>2, OwnershipFrame
<1>5. ASSUME NEW a \in Actor, Drop(a) PROVE RelayOwnership'
  <2> DEFINE s == sid[a]
  <2>1. s \in Session /\ closing[a] = {}
    BY <1>5 DEF Drop, At, WorkOK, Working
  <2>2. /\ registered' = [registered EXCEPT ![s] = {}]
        /\ closing' = [closing EXCEPT ![a] = registered[s]]
        /\ UNCHANGED listening
    BY <1>5 DEF Drop, Forget
  <2>3. \A v \in Worker : Own(v)' = Own(v)
    BY <1>5 DEF Drop, AfterDrop, Own, NoEarlyRelays, ControlType, RequestType, At,
       Goto, Return, Actor, request
  <2> QED
    BY <2>1, <2>2, <2>3 DEF RelayOwnership, StoreType, RequestType
<1>6. ASSUME NEW a \in Actor, StopDropped(a) PROVE RelayOwnership'
  <2>1. PICK p \in closing[a] :
            /\ closing'   = [closing EXCEPT ![a] = closing[a] \ {p}]
            /\ listening' = listening \ {p}
    BY <1>6 DEF StopDropped
  <2>2. UNCHANGED <<registered, pc, exposed>>
    BY <1>6 DEF StopDropped, store, control, request
  <2>3. \A v \in Worker : Own(v)' = Own(v)
    BY <2>2 DEF Own
  <2> QED
    BY <2>1, <2>2, <2>3 DEF RelayOwnership, RequestType
<1>7. ASSUME NEW w \in Worker, Reject(w) PROVE RelayOwnership'
  <2>1. \A v \in Worker : Own(v)' = Own(v)
    BY <1>7 DEF Reject, Own, NoEarlyRelays, ControlType, RequestType, At, Goto,
         Return, Actor, control, request
  <2>2. UNCHANGED <<listening, registered, closing>>
    BY <1>7 DEF Reject, store
  <2> QED
    BY <2>1, <2>2, OwnershipFrame
<1>8. ASSUME NEW w \in Worker, Admit(w) PROVE RelayOwnership'
  <2>1. \A v \in Worker : Own(v)' = Own(v)
    BY <1>8 DEF Admit, Destroying, Upsert, Own, NoEarlyRelays, ControlType,
         RequestType, At, Goto, Return, Actor, control, request
  <2>2. UNCHANGED <<listening, registered, closing>>
    BY <1>8 DEF Admit, store
  <2> QED
    BY <2>1, <2>2, OwnershipFrame
<1>9. ASSUME NEW w \in Worker, Relet(w) PROVE RelayOwnership'
  <2>1. \A v \in Worker : Own(v)' = Own(v)
    BY <1>9 DEF Relet, Destroying, Upsert, Own, NoEarlyRelays, ControlType,
         RequestType, At, Goto, Return, Actor, control, request
  <2>2. UNCHANGED <<listening, registered, closing>>
    BY <1>9 DEF Relet, store
  <2> QED
    BY <2>1, <2>2, OwnershipFrame
<1>10. ASSUME NEW w \in Worker, CreateNetwork(w) PROVE RelayOwnership'
  <2>1. \A v \in Worker : Own(v)' = Own(v)
    BY <1>10 DEF CreateNetwork, Own, NoEarlyRelays, ControlType, RequestType, At,
         Goto, Return, Actor, control, request
  <2>2. UNCHANGED <<listening, registered, closing>>
    BY <1>10 DEF CreateNetwork, store
  <2> QED
    BY <2>1, <2>2, OwnershipFrame
<1>11. ASSUME NEW w \in Worker, CreateContainer(w) PROVE RelayOwnership'
  <2>1. \A v \in Worker : Own(v)' = Own(v)
    BY <1>11 DEF CreateContainer, Own, NoEarlyRelays, ControlType, RequestType, At,
         Goto, Return, Actor, control, request
  <2>2. UNCHANGED <<listening, registered, closing>>
    BY <1>11 DEF CreateContainer, store
  <2> QED
    BY <2>1, <2>2, OwnershipFrame
<1>12. ASSUME NEW w \in Worker, StartContainer(w) PROVE RelayOwnership'
  <2>1. \A v \in Worker : Own(v)' = Own(v)
    BY <1>12 DEF StartContainer, Own, NoEarlyRelays, ControlType, RequestType, At,
         Goto, Return, Actor, control, request
  <2>2. UNCHANGED <<listening, registered, closing>>
    BY <1>12 DEF StartContainer, store
  <2> QED
    BY <2>1, <2>2, OwnershipFrame
<1>13. ASSUME NEW w \in Worker, AwaitReady(w) PROVE RelayOwnership'
  <2>1. \A v \in Worker : Own(v)' = Own(v)
    BY <1>13 DEF AwaitReady, Own, NoEarlyRelays, ControlType, RequestType, At,
         Goto, Return, Actor, control, request
  <2>2. UNCHANGED <<listening, registered, closing>>
    BY <1>13 DEF AwaitReady, store
  <2> QED
    BY <2>1, <2>2, OwnershipFrame
<1>14. ASSUME NEW w \in Worker, StartRelay(w) PROVE RelayOwnership'
  <2>1. UNCHANGED <<registered, closing>>
    BY <1>14 DEF StartRelay, store
  <2>2. ASSUME NEW p \in Port \ listening,
               listening' = listening \cup {p},
               exposed'   = [exposed EXCEPT ![w] = exposed[w] \cup {p}]
        PROVE  RelayOwnership'
    <3>1. /\ Own(w)' = Own(w) \cup {p}
          /\ \A v \in Worker : v # w => Own(v)' = Own(v)
      BY <1>14, <2>2 DEF StartRelay, Own, At, Goto, ControlType, RequestType, Actor
    <3>2. p \in Port /\ p \notin listening
      OBVIOUS
    <3>3. \A v \in Worker : p \notin Own(v)
      BY <3>2 DEF RelayOwnership
    <3>4. \A s \in Session : p \notin registered[s]
      BY <3>2 DEF RelayOwnership
    <3>5. \A a \in Actor : p \notin closing[a]
      BY <3>2 DEF RelayOwnership
    <3> QED
      BY <2>1, <2>2, <3>1, <3>3, <3>4, <3>5 DEF RelayOwnership
  <2>3. ASSUME UNCHANGED <<listening, request>>, Goto(w, "unwind")
        PROVE  RelayOwnership'
    <3>1. \A v \in Worker : Own(v)' = Own(v)
      BY <1>14, <2>3 DEF StartRelay, Own, At, Goto, ControlType, Actor, request
    <3> QED
      BY <2>1, <2>3, <3>1, OwnershipFrame
  <2> QED
    BY <1>14, <2>2, <2>3 DEF StartRelay
<1>15. ASSUME NEW w \in Worker, StopOwn(w) PROVE RelayOwnership'
  <2>1. PICK p \in exposed[w] :
            /\ exposed'   = [exposed EXCEPT ![w] = exposed[w] \ {p}]
            /\ listening' = listening \ {p}
    BY <1>15 DEF StopOwn
  <2>2. pc[w] = "unwind" /\ UNCHANGED <<registered, closing, pc>>
    BY <1>15 DEF StopOwn, At, store, control
  <2>3. /\ p \in Own(w) /\ Own(w)' = Own(w) \ {p}
        /\ \A v \in Worker : v # w => Own(v)' = Own(v)
    BY <2>1, <2>2 DEF Own, RequestType
  <2> QED
    BY <2>1, <2>2, <2>3 DEF RelayOwnership
<1>16. ASSUME NEW w \in Worker, Unwind(w) PROVE RelayOwnership'
  <2>1. \A v \in Worker : Own(v)' = Own(v)
    BY <1>16 DEF Unwind, Destroying, Upsert, Own, NoEarlyRelays, ControlType,
         RequestType, At, Goto, Return, Actor, control, request
  <2>2. UNCHANGED <<listening, registered, closing>>
    BY <1>16 DEF Unwind, store
  <2> QED
    BY <2>1, <2>2, OwnershipFrame
<1>17. ASSUME NEW w \in Worker, AddRelays(w) PROVE RelayOwnership'
  <2> DEFINE s == sid[w]
  <2>1. pc[w] = "register" /\ s \in Session
    BY <1>17 DEF AddRelays, At, WorkOK, Working, Actor
  <2>2. /\ registered' = [registered EXCEPT ![s] = registered[s] \cup exposed[w]]
        /\ UNCHANGED <<listening, closing, exposed>>
        /\ pc' = [pc EXCEPT ![w] = "publish"]
    BY <1>17 DEF AddRelays, Goto, request
  <2>3. /\ Own(w) = exposed[w] /\ Own(w)' = {}
        /\ \A v \in Worker : v # w => Own(v)' = Own(v)
    BY <2>1, <2>2 DEF Own, ControlType, Actor
  <2> QED
    BY <2>1, <2>2, <2>3 DEF RelayOwnership, StoreType
<1>18. ASSUME NEW w \in Worker, Publish(w) PROVE RelayOwnership'
  <2>1. \A v \in Worker : Own(v)' = Own(v)
    BY <1>18 DEF Publish, Destroying, Upsert, Own, NoEarlyRelays, ControlType,
         RequestType, At, Goto, Return, Actor, control, request
  <2>2. UNCHANGED <<listening, registered, closing>>
    BY <1>18 DEF Publish, store
  <2> QED
    BY <2>1, <2>2, OwnershipFrame
<1>19. ASSUME NEW s \in Session, Reap(s) PROVE RelayOwnership'
  <2>1. \A v \in Worker : Own(v)' = Own(v)
    BY <1>19 DEF Reap, Destroying, Upsert, Own, NoEarlyRelays, ControlType,
         RequestType, At, Goto, Return, Actor, control, request
  <2>2. UNCHANGED <<listening, registered, closing>>
    BY <1>19 DEF Reap, store
  <2> QED
    BY <2>1, <2>2, OwnershipFrame
<1>20. ASSUME Crash PROVE RelayOwnership'
  <2>1. /\ listening' = {}
        /\ registered' = [s \in Session |-> {}]
        /\ exposed'    = [w \in Worker |-> {}]
        /\ closing'    = [a \in Actor |-> {}]
    BY <1>20 DEF Crash
  <2>2. \A w \in Worker : Own(w)' = {}
    BY <2>1 DEF Own
  <2> QED
    BY <2>1, <2>2 DEF RelayOwnership
<1>21. ASSUME
            \/ Wake \/ StartReconcile \/ ListContainers \/ ListNetworks
            \/ EndReconcile
     PROVE  RelayOwnership'
  <2>1. \A v \in Worker : Own(v)' = Own(v)
    BY <1>21 DEF Wake, StartReconcile, ListContainers, ListNetworks,
         EndReconcile, Own, ControlType, Actor, At, Goto, control, request,
         Destroying
  <2>2. UNCHANGED <<listening, registered, closing>>
    BY <1>21 DEF Wake, StartReconcile, ListContainers, ListNetworks,
         EndReconcile, store
  <2> QED
    BY <2>1, <2>2, OwnershipFrame
<1>22. ASSUME NEW s \in Session, NEW t \in Target,
            \/ SweepContainer(s, t) \/ Age(s, t)
     PROVE  RelayOwnership'
  <2>1. \A v \in Worker : Own(v)' = Own(v)
    BY <1>22 DEF SweepContainer, Age, Own, ControlType, Actor, At, Goto,
         control, request, Destroying
  <2>2. UNCHANGED <<listening, registered, closing>>
    BY <1>22 DEF SweepContainer, Age, store
  <2> QED
    BY <2>1, <2>2, OwnershipFrame
<1>23. ASSUME NEW s \in Session,
            \/ SweepNetwork(s) \/ Extend(s) \/ Expire(s)
     PROVE  RelayOwnership'
  <2>1. \A v \in Worker : Own(v)' = Own(v)
    BY <1>23 DEF SweepNetwork, Extend, Expire, Own, ControlType, Actor, At,
         Goto, control, request, Destroying
  <2>2. UNCHANGED <<listening, registered, closing>>
    BY <1>23 DEF SweepNetwork, Extend, Expire, store
  <2> QED
    BY <2>1, <2>2, OwnershipFrame
<1>24. ASSUME UNCHANGED vars PROVE RelayOwnership'
  <2>1. \A v \in Worker : Own(v)' = Own(v)
    BY <1>24 DEF vars, Own, ControlType, Actor, At, Goto, control, request,
         Destroying
  <2>2. UNCHANGED <<listening, registered, closing>>
    BY <1>24 DEF vars, store
  <2> QED
    BY <2>1, <2>2, OwnershipFrame
<1> QED
  BY StepCases, <1>1, <1>2, <1>3, <1>4, <1>5, <1>6, <1>7, <1>8, <1>9, <1>10,
       <1>11, <1>12, <1>13, <1>14, <1>15, <1>16, <1>17, <1>18, <1>19, <1>20,
       <1>21, <1>22, <1>23, <1>24

LEMMA RelaysBackedStep ==
    ASSUME Inv, [Next]_vars
    PROVE  RelaysBacked'
<1> USE ConstantsOK DEF Inv, TypeInv, TypeOK
<1>1. ASSUME NEW w \in Worker, NEW s \in Session, Arrive(w, s) PROVE RelaysBacked'
  BY <1>1
     DEF Arrive, Destroying, RelaysBacked, StoreType, ControlType, At, Goto,
          Actor, store, control
<1>2. ASSUME NEW a \in Actor, RemoveContainers(a) PROVE RelaysBacked'
  BY <1>2
     DEF RemoveContainers, RelaysBacked, StoreType, ControlType, At, Goto,
          Actor, store, control
<1>3. ASSUME NEW a \in Actor, RemoveNetwork(a) PROVE RelaysBacked'
  BY <1>3
     DEF RemoveNetwork, RelaysBacked, StoreType, ControlType, At, Goto, Actor,
          store, control
<1>4. ASSUME NEW a \in Actor, ListFails(a) PROVE RelaysBacked'
  BY <1>4
     DEF ListFails, Return, RelaysBacked, StoreType, ControlType, At, Goto,
          Actor, store, control
<1>5. ASSUME NEW a \in Actor, Drop(a) PROVE RelaysBacked'
  BY <1>5
     DEF Drop, Forget, AfterDrop, Return, RelaysBacked, StoreType, ControlType,
          At, Goto, Actor, store, control
<1>6. ASSUME NEW a \in Actor, StopDropped(a) PROVE RelaysBacked'
  BY <1>6
     DEF StopDropped, RelaysBacked, StoreType, ControlType, At, Goto, Actor,
          store, control
<1>7. ASSUME NEW w \in Worker, Reject(w) PROVE RelaysBacked'
  BY <1>7
     DEF Reject, Return, RelaysBacked, StoreType, ControlType, At, Goto, Actor,
          store, control
<1>8. ASSUME NEW w \in Worker, Admit(w) PROVE RelaysBacked'
  BY <1>8
     DEF Admit, Upsert, Destroying, RelaysBacked, StoreType, ControlType, At,
          Goto, Actor, store, control
<1>9. ASSUME NEW w \in Worker, Relet(w) PROVE RelaysBacked'
  BY <1>9
     DEF Relet, Upsert, RelaysBacked, StoreType, ControlType, At, Goto, Actor,
          store, control
<1>10. ASSUME NEW w \in Worker, CreateNetwork(w) PROVE RelaysBacked'
  BY <1>10
     DEF CreateNetwork, RelaysBacked, StoreType, ControlType, At, Goto, Actor,
          store, control
<1>11. ASSUME NEW w \in Worker, CreateContainer(w) PROVE RelaysBacked'
  BY <1>11
     DEF CreateContainer, RelaysBacked, StoreType, ControlType, At, Goto,
          Actor, store, control
<1>12. ASSUME NEW w \in Worker, StartContainer(w) PROVE RelaysBacked'
  BY <1>12
     DEF StartContainer, RelaysBacked, StoreType, ControlType, At, Goto, Actor,
          store, control
<1>13. ASSUME NEW w \in Worker, AwaitReady(w) PROVE RelaysBacked'
  BY <1>13
     DEF AwaitReady, RelaysBacked, StoreType, ControlType, At, Goto, Actor,
          store, control
<1>14. ASSUME NEW w \in Worker, StartRelay(w) PROVE RelaysBacked'
  BY <1>14
     DEF StartRelay, RelaysBacked, StoreType, ControlType, At, Goto, Actor,
          store, control
<1>15. ASSUME NEW w \in Worker, StopOwn(w) PROVE RelaysBacked'
  BY <1>15
     DEF StopOwn, RelaysBacked, StoreType, ControlType, At, Goto, Actor, store,
          control
<1>16. ASSUME NEW w \in Worker, Unwind(w) PROVE RelaysBacked'
  BY <1>16
     DEF Unwind, Destroying, RelaysBacked, StoreType, ControlType, At, Goto,
          Actor, store, control
<1>17. ASSUME NEW w \in Worker, AddRelays(w) PROVE RelaysBacked'
  BY <1>17
     DEF AddRelays, RelaysBacked, StoreType, ControlType, At, Goto, Actor,
          store, control
<1>18. ASSUME NEW w \in Worker, Publish(w) PROVE RelaysBacked'
  BY <1>18
     DEF Publish, Upsert, Return, RelaysBacked, StoreType, ControlType, At,
          Goto, Actor, store, control
<1>19. ASSUME Wake PROVE RelaysBacked'
  BY <1>19
     DEF Wake, RelaysBacked, StoreType, ControlType, At, Goto, Actor, store,
          control
<1>20. ASSUME ListNetworks PROVE RelaysBacked'
  BY <1>20
     DEF ListNetworks, RelaysBacked, StoreType, ControlType, At, Goto, Actor,
          store, control
<1>21. ASSUME EndReconcile PROVE RelaysBacked'
  BY <1>21
     DEF EndReconcile, RelaysBacked, StoreType, ControlType, At, Goto, Actor,
          store, control
<1>22. ASSUME NEW s \in Session, NEW t \in Target, SweepContainer(s, t) PROVE RelaysBacked'
  BY <1>22
     DEF SweepContainer, RelaysBacked, StoreType, ControlType, At, Goto, Actor,
          store, control
<1>23. ASSUME NEW s \in Session, Reap(s) PROVE RelaysBacked'
  BY <1>23
     DEF Reap, Destroying, RelaysBacked, StoreType, ControlType, At, Goto,
          Actor, store, control
<1>24. ASSUME StartReconcile PROVE RelaysBacked'
  BY <1>24
     DEF StartReconcile, RelaysBacked, StoreType, ControlType, At, Goto, Actor,
          store, control
<1>25. ASSUME NEW s \in Session, Extend(s) PROVE RelaysBacked'
  BY <1>25
     DEF Extend, RelaysBacked, StoreType, ControlType, At, Goto, Actor, store,
          control
<1>26. ASSUME NEW s \in Session, Expire(s) PROVE RelaysBacked'
  BY <1>26
     DEF Expire, RelaysBacked, StoreType, ControlType, At, Goto, Actor, store,
          control
<1>27. ASSUME Crash PROVE RelaysBacked'
  BY <1>27
     DEF Crash, RelaysBacked, StoreType, ControlType, At, Goto, Actor, store,
          control
<1>28. ASSUME
            ListContainers
     PROVE  RelaysBacked'
  BY <1>28 DEF ListContainers, RelaysBacked, StoreType, ControlType, Actor, Goto, store,
       control
<1>29. ASSUME NEW s \in Session,
            SweepNetwork(s)
     PROVE  RelaysBacked'
  BY <1>29 DEF SweepNetwork, RelaysBacked, StoreType, ControlType, Actor, Goto, store,
       control
<1>30. ASSUME NEW s \in Session, NEW t \in Target,
            Age(s, t)
     PROVE  RelaysBacked'
  BY <1>30 DEF Age, RelaysBacked, StoreType, ControlType, Actor, Goto, store, control
<1>31. ASSUME UNCHANGED vars PROVE RelaysBacked'
  BY <1>31 DEF vars, RelaysBacked, StoreType, ControlType, Actor, Goto, store,
       control
<1> QED
  BY StepCases, <1>1, <1>2, <1>3, <1>4, <1>5, <1>6, <1>7, <1>8, <1>9, <1>10,
       <1>11, <1>12, <1>13, <1>14, <1>15, <1>16, <1>17, <1>18, <1>19, <1>20,
       <1>21, <1>22, <1>23, <1>24, <1>25, <1>26, <1>27, <1>28, <1>29, <1>30,
       <1>31

LEMMA InvInit == Init => Inv
<1> SUFFICES ASSUME Init PROVE Inv
  OBVIOUS
<1>1. TypeInv
  BY TypeInit
<1>2. /\ listening  = {}
      /\ registered = [s \in Session |-> {}]
      /\ exposed    = [w \in Worker |-> {}]
      /\ closing    = [a \in Actor |-> {}]
  BY DEF Init
<1>3. \A w \in Worker : Own(w) = {}
  BY <1>2 DEF Own
<1>4. NoEarlyRelays /\ RelaysBacked
  BY <1>2 DEF NoEarlyRelays, RelaysBacked
<1>5. RelayOwnership
  BY <1>2, <1>3 DEF RelayOwnership
<1> QED
  BY <1>1, <1>4, <1>5 DEF Inv

LEMMA InvStep == Inv /\ [Next]_vars => Inv'
BY TypeStep, NoEarlyRelaysStep, RelayOwnershipStep, RelaysBackedStep DEF Inv

LEMMA InvAlways == Spec => []Inv
BY InvInit, InvStep, PTL DEF Spec

\* No relay leaks and none is closed twice: at any moment each open relay has
\* exactly one holder that will stop it.
THEOREM RelaysOwned == Spec => []RelayOwnership
<1>1. Inv => RelayOwnership
  BY DEF Inv
<1> QED
  BY <1>1, InvAlways, PTL

\* No relay outlives its session's lease unnoticed: registered relays have a
\* lease that the reaper or a destroy will find, or one about to be written.
THEOREM RelaysAlwaysBacked == Spec => []RelaysBacked
<1>1. Inv => RelaysBacked
  BY DEF Inv
<1> QED
  BY <1>1, InvAlways, PTL

=============================================================================
