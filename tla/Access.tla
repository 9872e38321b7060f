------------------------------- MODULE Access -------------------------------
(***************************************************************************)
(* Who a request of the API is from: the edge guard, then the identity of   *)
(* the token, whose row in `users' the request inserts or brings up to date. *)
(*                                                                         *)
(* A handler looks for the row, commits its change, and reads the row once  *)
(* more: three steps, between which other requests of the same identity run. *)
(* The table refuses a second row for an id or for an address; the request   *)
(* fails then with a 500 and leaves nothing.  The guard's step and the look  *)
(* that follows it touch different state and are one step here.             *)
(***************************************************************************)
EXTENDS Limits

CONSTANTS
    Id,           \* ids of users; a subject always gives the same one
    DevRole,      \* per development identity, its role; the others come from OIDC
    Mail, MailOf, \* addresses; per id, the seeded one or, for OIDC, the made-up one
    IdsOf,        \* per client, the identities it may ask with
    ClaimedMail,  \* what tokens may claim
    ClaimedRole,
    Stray,        \* clients whose token may be no good
    AllowDevAuth,
    None

Roles == {"learner", "instructor", "content-author", "platform-admin"}
Dev   == DOMAIN DevRole

UserRow == [mail : Mail, role : Roles]

\* A request that has looked: what its token says, what it found, the step it is at,
\* and the roles presented for its id since it looked (history).
Requests == [id : Id, claim : UserRow, found : UserRow \cup {None},
             step : {"commit", "refresh", "granted"}, role : Roles,
             presented : SUBSET Roles]

ASSUME AccessOK ==
    /\ Dev \subseteq Id
    /\ DevRole \in [Dev -> Roles]
    /\ MailOf \in [Id -> Mail]
    /\ \A i, j \in Id : MailOf[i] = MailOf[j] => i = j
    /\ IdsOf \in [Client -> SUBSET Id]
    /\ ClaimedMail \subseteq Mail \cup {None}
    /\ AllowDevAuth \in BOOLEAN
    /\ None \notin Mail \cup UserRow \cup Requests

VARIABLES
    users,   \* per id, its row, or None
    wants,   \* clients that have not got their answer yet
    todo     \* per client, its request on its way through the API, or None

tables == <<users, wants, todo>>
vars   == <<guards, tables>>

Init ==
    /\ GuardInit
    /\ users = [i \in Id |-> None]
    /\ wants = {}
    /\ todo  = [c \in Client |-> None]

-----------------------------------------------------------------------------
\* What a token says of its holder: for a development token the seeded identity, for
\* a verified one its claims, with stand-ins for a missing address or a strange role.
RoleOfClaim(r) == IF r \in Roles THEN r ELSE "learner"

ClaimsOf(i) ==
    IF i \in Dev
    THEN IF AllowDevAuth THEN {[mail |-> MailOf[i], role |-> DevRole[i]]} ELSE {}
    ELSE [mail : {IF m = None THEN MailOf[i] ELSE m : m \in ClaimedMail},
          role : {RoleOfClaim(r) : r \in ClaimedRole}]

\* Somebody opens the page.
Want(c) ==
    /\ c \notin wants
    /\ wants' = wants \cup {c}
    /\ UNCHANGED <<guards, users, todo>>

\* All that is under way for id i learns that role r was presented.
Told(i, r) ==
    [d \in Client |->
        IF todo[d] # None /\ todo[d].id = i
        THEN [todo[d] EXCEPT !.presented = @ \cup {r}]
        ELSE todo[d]]

PresentedNow(i) ==
    {todo[d].claim.role : d \in {e \in Client : todo[e] # None /\ todo[e].id = i}}

\* The guard lets the request through, the token is good, and the handler looks for
\* the row.  A development identity that has one is through: its row stays as it is.
Ask(c, i, claim) ==
    /\ c \in wants
    /\ todo[c] = None
    /\ claim \in ClaimsOf(i)
    /\ LetThrough(c)
    /\ todo' = [Told(i, claim.role) EXCEPT ![c] =
                  [id |-> i, claim |-> claim, found |-> users[i],
                   step |-> IF i \in Dev /\ users[i] # None THEN "granted" ELSE "commit",
                   role |-> IF i \in Dev /\ users[i] # None THEN users[i].role ELSE claim.role,
                   presented |-> PresentedNow(i) \cup {claim.role}]]
    /\ UNCHANGED <<users, wants>>

\* The guard lets it through, the token is not good, or development identities are
\* switched off: 401 (404 for a login).
AskInVain(c) ==
    /\ c \in wants
    /\ c \in Stray
    /\ todo[c] = None
    /\ LetThrough(c)
    /\ UNCHANGED tables

TurnedAway(c) ==
    /\ c \in wants
    /\ todo[c] = None
    /\ Refuse(c)
    /\ UNCHANGED tables

\* Mutant: an account that exists keeps its role.
WrittenOnce(r) ==
    IF r.found = None THEN r.claim
    ELSE [users[r.id] EXCEPT !.mail = IF r.claim.mail # r.found.mail THEN r.claim.mail ELSE @]

\* The row after the commit: the new one, or the old one with the columns that differ
\* from what was found.
Written(r) ==
    IF r.found = None THEN r.claim
    ELSE [users[r.id] EXCEPT
            !.mail = IF r.claim.mail # r.found.mail THEN r.claim.mail ELSE @,
            !.role = IF r.claim.role # r.found.role THEN r.claim.role ELSE @]

\* The table takes the row: no other has its address, and an insert finds no row.
Accepted(r) ==
    /\ r.found = None => users[r.id] = None
    /\ \A i \in Id \ {r.id} : users[i] = None \/ users[i].mail # Written(r).mail

Commit(c) ==
    /\ todo[c] # None
    /\ todo[c].step = "commit"
    /\ IF Accepted(todo[c])
       THEN /\ users' = [users EXCEPT ![todo[c].id] = Written(todo[c])]
            /\ todo'  = [todo EXCEPT ![c].step = "refresh", ![c].found = None]
       ELSE /\ users' = users
            /\ todo'  = [todo EXCEPT ![c] = None]
    /\ UNCHANGED <<guards, wants>>

\* The row is read again, and its role is what require_roles goes by.
Refresh(c) ==
    /\ todo[c] # None
    /\ todo[c].step = "refresh"
    /\ todo' = [todo EXCEPT ![c].step = "granted", ![c].role = users[todo[c].id].role]
    /\ UNCHANGED <<guards, users, wants>>

\* The request has its user, runs and is answered.
Answer(c) ==
    /\ todo[c] # None
    /\ todo[c].step = "granted"
    /\ todo'  = [todo EXCEPT ![c] = None]
    /\ wants' = wants \ {c}
    /\ UNCHANGED <<guards, users>>

TimePasses == Tick /\ UNCHANGED tables

AskWith(c) == \E i \in IdsOf[c] : \E claim \in ClaimsOf(i) : Ask(c, i, claim)

Next ==
    \/ TimePasses
    \/ \E c \in Client :
          \/ Want(c) \/ AskWith(c) \/ AskInVain(c) \/ TurnedAway(c)
          \/ Commit(c) \/ Refresh(c) \/ Answer(c)

\* Time passes, handlers finish, and a client without an answer tries again, with a
\* good token.
Fairness ==
    /\ WF_vars(TimePasses)
    /\ \A c \in Client :
          /\ WF_vars(Commit(c) \/ Refresh(c) \/ Answer(c))
          /\ WF_vars(AskWith(c))

Spec == Init /\ [][Next]_vars /\ Fairness

-----------------------------------------------------------------------------
TypeOK ==
    /\ buckets \in [Client -> Seq(0 .. Window)]
    /\ passed  \in [Client -> Seq(0 .. Window - 1)]
    /\ users   \in [Id -> UserRow \cup {None}]
    /\ wants   \subseteq Client
    /\ todo    \in [Client -> Requests \cup {None}]

\* A request runs with its own token's role or with that of a token of the same
\* identity presented while it ran: a role that the identity provider has taken away
\* does not come back with the row, although the role is read from the row after the
\* commit.
RoleIsPresented ==
    \A c \in Client :
        (todo[c] # None /\ todo[c].step = "granted" /\ todo[c].id \notin Dev) =>
            todo[c].role \in todo[c].presented

\* A client with a development identity that tries again gets its answer, whatever it
\* lost on the way to the rate limit or to another first request of its identity,
\* unless an account of the identity provider has taken its address.
AnsweredAtLast ==
    \A c \in {d \in Client : IdsOf[d] \subseteq Dev} :
        c \in wants ~> \/ c \notin wants
                       \/ \E i \in IdsOf[c], j \in Id \ Dev :
                             users[j] # None /\ users[j].mail = MailOf[i]

=============================================================================
