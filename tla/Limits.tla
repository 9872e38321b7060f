------------------------------- MODULE Limits -------------------------------
(***************************************************************************)
(* The edge guard of the API: per client a list of the requests let through *)
(* lately, looked at and added to in one step of the event loop.           *)
(*                                                                         *)
(* The code keeps times and compares them with the clock; here a list has   *)
(* the ages, up to Window, from which on an entry no longer counts.  Lists  *)
(* are only cleared of such entries when their client asks again, and       *)
(* stay for good.                                                          *)
(***************************************************************************)
EXTENDS Naturals, Sequences, SequencesExt

CONSTANTS
    Client,      \* a path and the end of an authorization header, or a host
    PathOf,      \* per client, what it posts to, or "read"
    Window,      \* for how long a request counts
    PerWindow    \* per rule, how many count at most

Paths == {"login", "launch", "submit", "read"}

\* The rules in the order of the list, by the prefix they look for.
LIMITS == <<"login", "sessions", "submissions">>

ASSUME LimitsOK ==
    /\ PathOf \in [Client -> Paths]
    /\ Window \in Nat \ {0}
    /\ PerWindow \in [ToSet(LIMITS) -> Nat \ {0}]   \* _cfg: one at least.

VARIABLES
    buckets,     \* per client, the ages of the entries, oldest first
    passed       \* per client, the ages of what was let through in the last
                 \* Window, oldest first (history)

guards == <<buckets, passed>>

\* The prefix is looked for anywhere in the path: a submission's path, which is below
\* its session's, has that of the second rule too.
In(prefix, path) ==
    <<prefix, path>> \in {<<"login", "login">>, <<"sessions", "launch">>,
                          <<"sessions", "submit">>, <<"submissions", "submit">>}

Matching(c) == SelectSeq(LIMITS, LAMBDA prefix : In(prefix, PathOf[c]))

\* Only the first rule that matches counts.
Guarded(c) == Matching(c) # <<>>
PerMin(c)  == PerWindow[Head(Matching(c))]

Live(ages) == SelectSeq(ages, LAMBDA a : a < Window)

\* Mutant: one too many.
FullLate(c) == Guarded(c) /\ Len(Live(buckets[c])) > PerMin(c)

Full(c) == Guarded(c) /\ Len(Live(buckets[c])) >= PerMin(c)

\* Mutant: refused requests count too.
KeptOnRefusalAll(c) == Append(Live(buckets[c]), 0)

KeptOnRefusal(c) == Live(buckets[c])

GuardInit ==
    /\ buckets = [c \in Client |-> <<>>]
    /\ passed  = [c \in Client |-> <<>>]

\* What the guard does with a request of c that it lets through.
LetThrough(c) ==
    /\ ~Full(c)
    /\ buckets' = IF Guarded(c)
                  THEN [buckets EXCEPT ![c] = Append(Live(@), 0)] ELSE buckets
    /\ passed'  = IF Guarded(c) THEN [passed EXCEPT ![c] = Append(@, 0)] ELSE passed

\* And with one it answers itself, with 429.
Refuse(c) ==
    /\ Full(c)
    /\ buckets' = [buckets EXCEPT ![c] = KeptOnRefusal(c)]
    /\ UNCHANGED passed

\* Mutant: ages without end.
OlderForever(ages) == [i \in DOMAIN ages |-> ages[i] + 1]

Older(ages) == [i \in DOMAIN ages |-> IF ages[i] < Window THEN ages[i] + 1 ELSE Window]

Tick ==
    /\ buckets' = [c \in Client |-> Older(buckets[c])]
    /\ passed'  = [c \in Client |-> Live(Older(passed[c]))]

\* No client gets more than its rule's number of requests through in any Window, also
\* across the borders of minutes.
WindowKept == \A c \in Client : Guarded(c) => Len(passed[c]) <= PerMin(c)

=============================================================================
