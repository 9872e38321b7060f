---------------------------- MODULE AccessProofs ----------------------------
(***************************************************************************)
(* Proofs about Access, for any clients, identities and claims.  The        *)
(* argument: whatever role gets into a row while a request is under way was  *)
(* presented by a request of the same identity meanwhile, and the request    *)
(* has been told so.                                                         *)
(***************************************************************************)
EXTENDS Access, TLAPS

\* The types the argument needs.
TypeInv ==
    /\ users \in [Id -> UserRow \cup {None}]
    /\ todo  \in [Client -> Requests \cup {None}]

\* Requests of one identity that are under way know of each other's roles.
AllTold ==
    \A c, d \in Client :
        (todo[c] # None /\ todo[d] # None /\ todo[c].id = todo[d].id) =>
            todo[d].claim.role \in todo[c].presented

\* A row that was found is there still, with the role found or one presented since.
FoundStill ==
    \A c \in Client :
        (todo[c] # None /\ todo[c].step = "commit" /\ todo[c].found # None) =>
            /\ users[todo[c].id] # None
            /\ users[todo[c].id].role \in {todo[c].found.role} \cup todo[c].presented

\* After its commit the row has a role that was presented.
CommittedPresented ==
    \A c \in Client :
        (todo[c] # None /\ todo[c].step = "refresh") =>
            /\ users[todo[c].id] # None
            /\ users[todo[c].id].role \in todo[c].presented

Inv == TypeInv /\ AllTold /\ FoundStill /\ CommittedPresented /\ RoleIsPresented

-----------------------------------------------------------------------------
(* What the steps do. *)

\* Claims are those of a row.
LEMMA ClaimsAreRows ==
    ASSUME NEW i \in Id, NEW claim \in ClaimsOf(i)
    PROVE  claim \in UserRow
<1>1. CASE i \in Dev
  BY <1>1, AccessOK DEF ClaimsOf, UserRow
<1>2. CASE i \notin Dev
  <2>1. \A r : RoleOfClaim(r) \in Roles
    BY DEF RoleOfClaim, Roles
  <2>2. \A m \in ClaimedMail : (IF m = None THEN MailOf[i] ELSE m) \in Mail
    BY AccessOK
  <2> QED
    BY <1>2, <2>1, <2>2 DEF ClaimsOf, UserRow
<1> QED
  BY <1>1, <1>2

\* Being told adds a role to what a request knows, and changes nothing else.
LEMMA ToldAdds ==
    ASSUME TypeInv, NEW i \in Id, NEW r \in Roles, NEW d \in Client
    PROVE  /\ Told(i, r)[d] \in Requests \cup {None}
           /\ Told(i, r)[d] = None <=> todo[d] = None
           /\ todo[d] # None =>
                 /\ Told(i, r)[d].id    = todo[d].id
                 /\ Told(i, r)[d].claim = todo[d].claim
                 /\ Told(i, r)[d].found = todo[d].found
                 /\ Told(i, r)[d].step  = todo[d].step
                 /\ Told(i, r)[d].role  = todo[d].role
                 /\ Told(i, r)[d].presented =
                       IF todo[d].id = i THEN todo[d].presented \cup {r}
                       ELSE todo[d].presented
<1>1. todo[d] \in Requests \cup {None}
  BY DEF TypeInv
<1>2. None \notin Requests
  BY AccessOK
<1>3. CASE todo[d] # None /\ todo[d].id = i
  <2>1. Told(i, r)[d] = [todo[d] EXCEPT !.presented = @ \cup {r}]
    BY <1>3 DEF Told
  <2> QED
    BY <1>1, <1>2, <1>3, <2>1 DEF Requests
<1>4. CASE ~(todo[d] # None /\ todo[d].id = i)
  BY <1>1, <1>4 DEF Told
<1> QED
  BY <1>3, <1>4

\* A step of one of these kinds, or one that touches neither rows nor requests.
LEMMA Steps ==
    ASSUME [Next]_vars
    PROVE  \/ UNCHANGED <<users, todo>>
           \/ \E c \in Client : \/ \E i \in Id : \E claim \in ClaimsOf(i) : Ask(c, i, claim)
                                \/ Commit(c) \/ Refresh(c) \/ Answer(c)
<1>1. \A c \in Client : IdsOf[c] \subseteq Id
  BY AccessOK
<1> QED
  BY <1>1 DEF Next, vars, tables, TimePasses, Want, AskInVain, TurnedAway, AskWith

-----------------------------------------------------------------------------
(* The invariant is kept, action by action. *)

\* A request that asks knows of all that are under way, and they of it.
LEMMA AskKeeps ==
    ASSUME Inv, NEW c \in Client, NEW i \in Id, NEW claim \in ClaimsOf(i), Ask(c, i, claim)
    PROVE  Inv'
<1> DEFINE dev == i \in Dev /\ users[i] # None
           new == [id |-> i, claim |-> claim, found |-> users[i],
                   step |-> IF dev THEN "granted" ELSE "commit",
                   role |-> IF dev THEN users[i].role ELSE claim.role,
                   presented |-> PresentedNow(i) \cup {claim.role}]
<1>0. TypeInv /\ AllTold /\ FoundStill /\ CommittedPresented /\ RoleIsPresented
  BY DEF Inv
<1>1. claim \in UserRow /\ claim.role \in Roles
  BY ClaimsAreRows DEF UserRow
<1>2. users' = users /\ todo' = [Told(i, claim.role) EXCEPT ![c] = new] /\ todo[c] = None
  BY DEF Ask
<1>3. PresentedNow(i) \subseteq Roles
  BY <1>0 DEF PresentedNow, TypeInv, Requests, UserRow
<1>4. /\ new \in Requests
      /\ new # None
      /\ new.id = i /\ new.claim = claim /\ new.found = users[i]
      /\ new.step = (IF dev THEN "granted" ELSE "commit")
      /\ new.presented = PresentedNow(i) \cup {claim.role}
  <2>1. users[i] \in UserRow \cup {None}
    BY <1>0 DEF TypeInv
  <2>2. dev => users[i].role \in Roles
    BY <2>1 DEF UserRow
  <2>3. new \in Requests
    BY <1>1, <1>3, <2>1, <2>2 DEF Requests
  <2> QED
    BY <2>3, AccessOK
<1> HIDE DEF new
<1>5. /\ todo'[c] = new
      /\ \A d \in Client \ {c} : todo'[d] = Told(i, claim.role)[d]
  BY <1>2 DEF Told
<1>6. \A d \in Client \ {c} :
         /\ todo'[d] \in Requests \cup {None}
         /\ todo'[d] = None <=> todo[d] = None
         /\ todo[d] # None =>
               /\ todo'[d].id    = todo[d].id
               /\ todo'[d].claim = todo[d].claim
               /\ todo'[d].found = todo[d].found
               /\ todo'[d].step  = todo[d].step
               /\ todo'[d].role  = todo[d].role
               /\ todo'[d].presented =
                     IF todo[d].id = i THEN todo[d].presented \cup {claim.role}
                     ELSE todo[d].presented
  BY <1>0, <1>1, <1>5, ToldAdds
<1>7. TypeInv'
  <2>1. todo' = [d \in Client |-> todo'[d]]
    BY <1>2 DEF Told
  <2> QED
    BY <1>0, <1>2, <1>4, <1>5, <1>6, <2>1 DEF TypeInv
<1>8. AllTold'
  <2> SUFFICES ASSUME NEW d \in Client, NEW e \in Client,
                      todo'[d] # None, todo'[e] # None, todo'[d].id = todo'[e].id
               PROVE  todo'[e].claim.role \in todo'[d].presented
    BY DEF AllTold
  <2>1. CASE d = c /\ e = c
    BY <1>4, <1>5, <2>1
  <2>2. CASE d = c /\ e # c
    <3>1. todo[e] # None /\ todo[e].id = i
      BY <1>4, <1>5, <1>6, <2>2
    <3>2. todo[e].claim.role \in PresentedNow(i)
      BY <3>1 DEF PresentedNow
    <3> QED
      BY <1>4, <1>5, <1>6, <2>2, <3>1, <3>2
  <2>3. CASE d # c /\ e = c
    BY <1>4, <1>5, <1>6, <2>3
  <2>4. CASE d # c /\ e # c
    BY <1>0, <1>6, <2>4 DEF AllTold
  <2> QED
    BY <2>1, <2>2, <2>3, <2>4
<1>9. FoundStill'
  <2> SUFFICES ASSUME NEW d \in Client,
                      todo'[d] # None, todo'[d].step = "commit", todo'[d].found # None
               PROVE  /\ users[todo'[d].id] # None
                      /\ users[todo'[d].id].role
                            \in {todo'[d].found.role} \cup todo'[d].presented
    BY <1>2 DEF FoundStill
  <2>1. CASE d = c
    BY <1>4, <1>5, <2>1
  <2>2. CASE d # c
    BY <1>0, <1>6, <2>2 DEF FoundStill
  <2> QED
    BY <2>1, <2>2
<1>10. CommittedPresented'
  <2> SUFFICES ASSUME NEW d \in Client, todo'[d] # None, todo'[d].step = "refresh"
               PROVE  /\ users[todo'[d].id] # None
                      /\ users[todo'[d].id].role \in todo'[d].presented
    BY <1>2 DEF CommittedPresented
  <2>1. d # c
    BY <1>4, <1>5
  <2> QED
    BY <1>0, <1>6, <2>1 DEF CommittedPresented
<1>11. RoleIsPresented'
  BY <1>0, <1>4, <1>5, <1>6 DEF RoleIsPresented
<1> QED
  BY <1>7, <1>8, <1>9, <1>10, <1>11 DEF Inv

\* The role a commit writes is that of its own claim, of which all the others of the
\* identity know.
LEMMA CommitKeeps ==
    ASSUME Inv, NEW c \in Client, Commit(c)
    PROVE  Inv'
<1> DEFINE r == todo[c]
           i == r.id
<1>0. TypeInv /\ AllTold /\ FoundStill /\ CommittedPresented /\ RoleIsPresented
  BY DEF Inv
<1>1. r \in Requests /\ r # None /\ r.step = "commit" /\ i \in Id
  BY <1>0 DEF Commit, TypeInv, Requests
<1>2. CASE ~Accepted(r)
  <2>1. users' = users /\ todo' = [todo EXCEPT ![c] = None]
    BY <1>2 DEF Commit
  <2>2. TypeInv'
    BY <1>0, <2>1 DEF TypeInv
  <2> QED
    BY <1>0, <2>1, <2>2
       DEF Inv, TypeInv, AllTold, FoundStill, CommittedPresented, RoleIsPresented
<1>3. CASE Accepted(r)
  <2> DEFINE row == Written(r)
             new == [r EXCEPT !.step = "refresh", !.found = None]
  <2>1. users' = [users EXCEPT ![i] = row] /\ todo' = [todo EXCEPT ![c] = new]
    BY <1>3 DEF Commit
  <2>2. /\ new \in Requests /\ new # None
        /\ new.id = i /\ new.claim = r.claim /\ new.step = "refresh"
        /\ new.presented = r.presented
    BY <1>1, AccessOK DEF Requests
  <2>3. r.claim \in UserRow /\ r.claim.role \in r.presented
    BY <1>0, <1>1 DEF Requests, AllTold
  <2>4. users[i] \in UserRow \cup {None}
    BY <1>0, <1>1 DEF TypeInv
  <2>5. row \in UserRow /\ row # None
    <3>1. CASE r.found = None
      BY <2>3, <3>1, AccessOK DEF Written
    <3>2. CASE r.found # None
      <4>1. users[i] \in UserRow
        BY <1>0, <1>1, <2>4, <3>2 DEF FoundStill
      <4>2. row \in UserRow
        BY <2>3, <3>2, <4>1 DEF Written, UserRow
      <4> QED
        BY <4>2, AccessOK
    <3> QED
      BY <3>1, <3>2
  <2>6. \/ row.role = r.claim.role
        \/ /\ users[i] # None
           /\ row.role = users[i].role
           /\ r.found # None
           /\ r.claim.role = r.found.role
    <3>1. CASE r.found = None
      <4>1. row = r.claim
        BY <3>1 DEF Written
      <4> QED
        BY <4>1
    <3>2. CASE r.found # None
      <4>1. users[i] # None /\ users[i] \in UserRow
        BY <1>0, <1>1, <2>4, <3>2 DEF FoundStill
      <4>2. row.role = IF r.claim.role # r.found.role THEN r.claim.role ELSE users[i].role
        BY <3>2, <4>1 DEF Written, UserRow
      <4> QED
        BY <3>2, <4>1, <4>2
    <3> QED
      BY <3>1, <3>2
  <2>7. row.role \in r.presented
    BY <1>0, <1>1, <2>3, <2>6 DEF FoundStill
  <2> HIDE DEF row, new
  <2>8. TypeInv'
    BY <1>0, <1>1, <2>1, <2>2, <2>5 DEF TypeInv
  <2>9. /\ todo'[c] = new
        /\ \A d \in Client \ {c} : todo'[d] = todo[d]
        /\ users'[i] = row
        /\ \A j \in Id \ {i} : users'[j] = users[j]
    BY <1>0, <1>1, <2>1 DEF TypeInv
  <2>10. AllTold'
    BY <1>0, <1>1, <2>2, <2>9 DEF AllTold
  <2>11. \A d \in Client : todo[d] # None => todo[d].id \in Id
    BY <1>0 DEF TypeInv, Requests
  <2>12. \A d \in Client :
            (todo[d] # None /\ todo[d].id = i) => r.claim.role \in todo[d].presented
    BY <1>0, <1>1 DEF AllTold
  <2>13. FoundStill'
    BY <1>0, <2>2, <2>5, <2>6, <2>9, <2>11, <2>12 DEF FoundStill
  <2>14. CommittedPresented'
    BY <1>0, <2>2, <2>5, <2>6, <2>7, <2>9, <2>11, <2>12 DEF CommittedPresented
  <2>15. RoleIsPresented'
    BY <1>0, <2>2, <2>9 DEF RoleIsPresented
  <2> QED
    BY <2>8, <2>10, <2>13, <2>14, <2>15 DEF Inv
<1> QED
  BY <1>2, <1>3

\* The row is read after the commit: what it says was presented.
LEMMA RefreshKeeps ==
    ASSUME Inv, NEW c \in Client, Refresh(c)
    PROVE  Inv'
<1> DEFINE r == todo[c]
           new == [r EXCEPT !.step = "granted", !.role = users[r.id].role]
<1>0. TypeInv /\ AllTold /\ FoundStill /\ CommittedPresented /\ RoleIsPresented
  BY DEF Inv
<1>1. r \in Requests /\ r # None /\ r.step = "refresh"
  BY <1>0 DEF Refresh, TypeInv
<1>2. users[r.id] \in UserRow /\ users[r.id].role \in r.presented
  BY <1>0, <1>1 DEF CommittedPresented, TypeInv, Requests
<1>3. users' = users /\ todo' = [todo EXCEPT ![c] = new]
  BY <1>0, <1>1 DEF Refresh, TypeInv
<1>4. /\ new \in Requests /\ new # None
      /\ new.id = r.id /\ new.claim = r.claim /\ new.step = "granted"
      /\ new.presented = r.presented
      /\ new.role \in r.presented
  <2>1. users[r.id].role \in Roles
    BY <1>2 DEF UserRow
  <2>2. new \in Requests
    BY <1>1, <2>1 DEF Requests
  <2>3. new # None
    BY <2>2, AccessOK
  <2>4. r = [id |-> r.id, claim |-> r.claim, found |-> r.found, step |-> r.step,
             role |-> r.role, presented |-> r.presented]
    BY <1>1 DEF Requests
  <2>5. new.role = users[r.id].role
    BY <2>4
  <2> QED
    BY <1>2, <2>2, <2>3, <2>4, <2>5
<1> HIDE DEF new
<1>5. /\ todo'[c] = new
      /\ \A d \in Client \ {c} : todo'[d] = todo[d]
  BY <1>0, <1>3 DEF TypeInv
<1>6. TypeInv'
  BY <1>0, <1>3, <1>4 DEF TypeInv
<1>7. AllTold'
  BY <1>0, <1>1, <1>4, <1>5 DEF AllTold
<1>8. FoundStill' /\ CommittedPresented'
  BY <1>0, <1>3, <1>4, <1>5 DEF FoundStill, CommittedPresented
<1>9. RoleIsPresented'
  BY <1>0, <1>4, <1>5 DEF RoleIsPresented
<1> QED
  BY <1>6, <1>7, <1>8, <1>9 DEF Inv

\* An answered request is gone.
LEMMA AnswerKeeps ==
    ASSUME Inv, NEW c \in Client, Answer(c)
    PROVE  Inv'
<1>1. users' = users /\ todo' = [todo EXCEPT ![c] = None]
  BY DEF Answer
<1>2. TypeInv'
  BY <1>1 DEF Inv, TypeInv
<1> QED
  BY <1>1, <1>2 DEF Inv, TypeInv, AllTold, FoundStill, CommittedPresented, RoleIsPresented

LEMMA InvInit ==
    ASSUME Init
    PROVE  Inv
BY DEF Init, Inv, TypeInv, AllTold, FoundStill, CommittedPresented, RoleIsPresented

LEMMA InvNext ==
    ASSUME Inv, [Next]_vars
    PROVE  Inv'
<1>1. CASE UNCHANGED <<users, todo>>
  BY <1>1 DEF Inv, TypeInv, AllTold, FoundStill, CommittedPresented, RoleIsPresented
<1>2. ASSUME NEW c \in Client, NEW i \in Id, NEW claim \in ClaimsOf(i), Ask(c, i, claim)
      PROVE  Inv'
  BY <1>2, AskKeeps
<1>3. ASSUME NEW c \in Client, Commit(c)
      PROVE  Inv'
  BY <1>3, CommitKeeps
<1>4. ASSUME NEW c \in Client, Refresh(c)
      PROVE  Inv'
  BY <1>4, RefreshKeeps
<1>5. ASSUME NEW c \in Client, Answer(c)
      PROVE  Inv'
  BY <1>5, AnswerKeeps
<1> QED
  BY <1>1, <1>2, <1>3, <1>4, <1>5, Steps

-----------------------------------------------------------------------------
\* A request of an account from the identity provider runs with its own token's role
\* or with that of a token of the same identity presented while it ran, although the
\* role is read from the row, after the commit (get_current_user, auth.py:85-105).
THEOREM RoleAlwaysPresented == Spec => []RoleIsPresented
<1>1. Init => Inv
  BY InvInit
<1>2. Inv /\ [Next]_vars => Inv'
  BY InvNext
<1>3. Inv => RoleIsPresented
  BY DEF Inv
<1> QED
  BY <1>1, <1>2, <1>3, PTL DEF Spec

=============================================================================
