-------------------------------- MODULE Intel --------------------------------
(***************************************************************************)
(* The intelligence service: a sync reads three feeds one after the other  *)
(* -- CISA KEV, FIRST EPSS, NVD -- into the table of vulnerabilities,      *)
(* keeps a history of severities and queues changes for human review.      *)
(*                                                                         *)
(* Syncs run in threads: one at startup, one the scheduler runs every day, *)
(* and those an administrator triggers; the guard of the trigger sees only *)
(* the triggered ones.  A thread reads a row outside any transaction and   *)
(* writes it, its history and its review item in one, so that a step here  *)
(* is one read or one transaction of SQLite.                               *)
(*                                                                         *)
(* A CVSS score and the severity derived from it are one number, an EPSS   *)
(* score is one of two likelihoods, and the order of a feed is any order.  *)
(***************************************************************************)
EXTENDS Naturals, FiniteSets, Functions

CONSTANTS
    Cve,        \* vulnerabilities
    Thread,     \* threads that may run a sync
    Relevant,   \* vulnerabilities that some lab is about (lab_map)
    Cvss,       \* CVSS scores in play
    MaxSyncs,   \* bound on the syncs started
    Overlap,    \* whether a sync may start while another one runs
    None

Epss == 0..1

Row  == [cvss : Cvss, kev : BOOLEAN, epss : Epss, priority : 0..16]

Item == [cve : Cve, cvss : Cvss, kev : BOOLEAN, epss : Epss, priority : 0..16]

ASSUME ConstantsOK ==
    /\ Relevant \subseteq Cve
    /\ Cvss \subseteq 0..10 /\ 0 \in Cvss
    /\ MaxSyncs \in Nat
    /\ Overlap \in BOOLEAN
    /\ None \notin Row \cup Cvss

VARIABLES
    rows,       \* vulns: per vulnerability, its row or None
    logged,     \* severity_history: per vulnerability, the last score, or None
    open,       \* review_queue: per vulnerability, the open items
    syncs,      \* syncs started
    pc,         \* per thread, what it does next
    feed,       \* per thread, the entries it still has to read
    item,       \* per thread, the row it is going to write
    old,        \* per thread, the old row it has read
    have        \* per thread, the vulnerabilities that had a row

tables == <<rows, logged, open>>
local  == <<feed, item, old, have>>
vars   == <<tables, syncs, pc, local>>

\* A feed: entries for some vulnerabilities, each with a number.
Feed(numbers) == UNION {[C -> numbers] : C \in SUBSET Cve}

NoFeed == [c \in {} |-> 0]

Goto(t, l) == pc' = [pc EXCEPT ![t] = l]

Init ==
    /\ rows   = [c \in Cve |-> None]
    /\ logged = [c \in Cve |-> None]
    /\ open   = [c \in Cve |-> 0]
    /\ syncs  = 0
    /\ pc     = [t \in Thread |-> "idle"]
    /\ feed   = [t \in Thread |-> NoFeed]
    /\ item   = [t \in Thread |-> None]
    /\ old    = [t \in Thread |-> None]
    /\ have   = [t \in Thread |-> {}]

-----------------------------------------------------------------------------

\* Effective priority: CVSS, a bump of 3 for KEV, EPSS scaled by 2, and 1 if a lab
\* is about it.
Priority(cvss, kev, epss, c) ==
    cvss + (IF kev THEN 3 ELSE 0) + 2 * epss + (IF c \in Relevant THEN 1 ELSE 0)

Candidate(c, cvss, kev, epss) ==
    [cve |-> c, cvss |-> cvss, kev |-> kev, epss |-> epss,
     priority |-> Priority(cvss, kev, epss, c)]

-----------------------------------------------------------------------------
(* A sync. *)

\* At startup, by the scheduler, or triggered.
StartSync(t) ==
    /\ pc[t] = "idle"
    /\ syncs < MaxSyncs
    /\ Overlap \/ \A u \in Thread : pc[u] = "idle"
    /\ syncs' = syncs + 1
    /\ Goto(t, "fetch kev")
    /\ UNCHANGED <<tables, local>>

\* A feed that cannot be fetched is one without entries.
Fetch(t, at, numbers, then) ==
    /\ pc[t] = at
    /\ feed' \in {[feed EXCEPT ![t] = f] : f \in Feed(numbers)}
    /\ Goto(t, then)

FetchKev(t) ==
    /\ Fetch(t, "fetch kev", {0}, "kev")
    /\ UNCHANGED <<tables, syncs, item, old, have>>

FetchNvd(t) ==
    /\ Fetch(t, "fetch nvd", Cvss, "nvd")
    /\ UNCHANGED <<tables, syncs, item, old, have>>

\* The vulnerabilities that have a row are read as the feed is.
FetchEpss(t) ==
    /\ Fetch(t, "fetch epss", Epss, "update")
    /\ have' = [have EXCEPT ![t] = {c \in Cve : rows[c] # None}]
    /\ UNCHANGED <<tables, syncs, item, old>>

\* The feed that follows.
AfterFeed(at) == IF at = "kev" THEN "fetch epss" ELSE "idle"

\* The next entry of the feed `at', for which n is the row to write.
Take(t, at, c, n, then) ==
    /\ pc[t] = at
    /\ feed' = [feed EXCEPT ![t] = Restrict(@, DOMAIN @ \ {c})]
    /\ item' = [item EXCEPT ![t] = n]
    /\ Goto(t, then)

\* The KEV list has neither scores nor likelihoods: both are written as zero.
NextKev(t) ==
    /\ \E c \in DOMAIN feed[t] :
          Take(t, "kev", c, Candidate(c, 0, TRUE, 0), "read kev")
    /\ UNCHANGED <<tables, syncs, old, have>>

NextNvd(t) ==
    /\ \E c \in DOMAIN feed[t] :
          Take(t, "nvd", c, Candidate(c, feed[t][c], FALSE, 0), "look")
    /\ UNCHANGED <<tables, syncs, old, have>>

\* For an entry of NVD, KEV and EPSS are those of the row there is.
Look(t) ==
    LET c == item[t].cve
        r == rows[c]
    IN  /\ pc[t] = "look"
        /\ item' = IF r = None THEN item
                   ELSE [item EXCEPT ![t] = Candidate(c, @.cvss, r.kev, r.epss)]
        /\ Goto(t, "read nvd")
        /\ UNCHANGED <<tables, syncs, feed, old, have>>

EndFeed(t) ==
    /\ pc[t] \in {"kev", "nvd"}
    /\ feed[t] = NoFeed
    /\ Goto(t, AfterFeed(pc[t]))
    /\ UNCHANGED <<tables, syncs, local>>

-----------------------------------------------------------------------------
(* upsert_vuln. *)

\* The old row, read before the transaction begins.
Read(t, at, then) ==
    /\ pc[t] = at
    /\ old' = [old EXCEPT ![t] = rows[item[t].cve]]
    /\ Goto(t, then)
    /\ UNCHANGED <<tables, syncs, feed, item, have>>

\* Mutants: a new score is not an event; nor is a listing in KEV.
EventNewOrKev(before, n) == before = None \/ (n.kev /\ ~before.kev)
EventNewOrScore(before, n) == before = None \/ before.cvss # n.cvss

\* Something to log and to review: a new vulnerability, a new score, or a listing
\* in KEV.
Event(before, n) ==
    \/ before = None
    \/ before.cvss # n.cvss
    \/ n.kev /\ ~before.kev

\* Everything is overwritten but KEV, which stays once it is set.
Merged(r, n) ==
    [cvss |-> n.cvss, kev |-> n.kev \/ (r # None /\ r.kev), epss |-> n.epss,
     priority |-> n.priority]

\* Mutant: an item is queued whether or not one is open.
QueuedAgain(C) == [c \in Cve |-> IF c \in C THEN open[c] + 1 ELSE open[c]]

\* The review queue with an item for each vulnerability in C that has none open.
Queued(C) == [c \in Cve |-> IF c \in C /\ open[c] = 0 THEN 1 ELSE open[c]]

Write(t, at, then) ==
    LET n == item[t]
        c == n.cve
    IN  /\ pc[t] = at
        /\ rows' = [rows EXCEPT ![c] = Merged(rows[c], n)]
        /\ IF Event(old[t], n)
             THEN /\ logged' = [logged EXCEPT ![c] = n.cvss]
                  /\ open'   = Queued({c})
             ELSE UNCHANGED <<logged, open>>
        /\ item' = [item EXCEPT ![t] = None]
        /\ old'  = [old  EXCEPT ![t] = None]
        /\ Goto(t, then)
        /\ UNCHANGED <<syncs, feed, have>>

-----------------------------------------------------------------------------
(* sync_epss. *)

\* Mutant: the priority is not computed anew.
RescoredNot(r, epss, c) == [r EXCEPT !.epss = epss]

Rescored(r, epss, c) ==
    [r EXCEPT !.epss = epss, !.priority = Priority(r.cvss, r.kev, epss, c)]

\* One transaction for the vulnerabilities that had a row ...
Update(t) ==
    LET known == DOMAIN feed[t] \cap have[t]
    IN  /\ pc[t] = "update"
        /\ rows' = [c \in Cve |-> IF c \in known THEN Rescored(rows[c], feed[t][c], c)
                                                 ELSE rows[c]]
        /\ feed' = [feed EXCEPT ![t] = Restrict(@, DOMAIN @ \ known)]
        /\ have' = [have EXCEPT ![t] = {}]
        /\ Goto(t, "insert")
        /\ UNCHANGED <<logged, open, syncs, item, old>>

\* Mutant: a newcomer has no score instead of the default one.
NewcomerNull(c, epss) ==
    [cvss |-> None, kev |-> FALSE, epss |-> epss,
     priority |-> Priority(0, FALSE, epss, c)]

Newcomer(c, epss) ==
    [cvss |-> 0, kev |-> FALSE, epss |-> epss,
     priority |-> Priority(0, FALSE, epss, c)]

\* ... one for the newcomers, ignoring those that have got a row meanwhile ...
Insert(t) ==
    /\ pc[t] = "insert"
    /\ rows' = [c \in Cve |-> IF c \in DOMAIN feed[t] /\ rows[c] = None
                                THEN Newcomer(c, feed[t][c])
                                ELSE rows[c]]
    /\ Goto(t, "note")
    /\ UNCHANGED <<logged, open, syncs, local>>

\* ... then a review item for each, if none is open: the first look that finds
\* none is made before the transaction of the inserts begins ...
Note(t) ==
    /\ pc[t] = "note"
    /\ \/ /\ feed[t] = NoFeed
          /\ Goto(t, "fetch nvd")
          /\ UNCHANGED local
       \/ \E c \in DOMAIN feed[t] :
             /\ feed' = [feed EXCEPT ![t] = Restrict(@, DOMAIN @ \ {c})]
             /\ IF open[c] > 0
                  THEN UNCHANGED <<pc, item>>
                  ELSE /\ item' = [item EXCEPT ![t] = c]
                       /\ Goto(t, "annotate")
             /\ UNCHANGED <<old, have>>
    /\ UNCHANGED <<tables, syncs>>

\* ... and the later ones inside it.
Annotate(t) ==
    /\ pc[t] = "annotate"
    /\ open' = [Queued(DOMAIN feed[t]) EXCEPT ![item[t]] = @ + 1]
    /\ feed' = [feed EXCEPT ![t] = NoFeed]
    /\ item' = [item EXCEPT ![t] = None]
    /\ Goto(t, "note")
    /\ UNCHANGED <<rows, logged, syncs, old, have>>

-----------------------------------------------------------------------------

\* A malformed entry, a locked database or any other error ends the feed where it
\* is, and an error while the feed is recorded, or a restart, the sync; what is
\* committed stays.
Abandon(t) ==
    /\ pc[t] # "idle"
    /\ \/ pc[t] \in {"kev", "read kev", "write kev"} /\ Goto(t, "fetch epss")
       \/ pc[t] \in {"update", "insert", "note", "annotate"} /\ Goto(t, "fetch nvd")
       \/ Goto(t, "idle")
    /\ feed' = [feed EXCEPT ![t] = NoFeed]
    /\ item' = [item EXCEPT ![t] = None]
    /\ old'  = [old  EXCEPT ![t] = None]
    /\ have' = [have EXCEPT ![t] = {}]
    /\ UNCHANGED <<tables, syncs>>

\* A reviewer closes an open item, as approved or dismissed.
Decide(c) ==
    /\ open[c] > 0
    /\ open' = [open EXCEPT ![c] = @ - 1]
    /\ UNCHANGED <<rows, logged, syncs, pc, local>>

Sync(t) ==
    \/ StartSync(t) \/ FetchKev(t) \/ FetchEpss(t) \/ FetchNvd(t)
    \/ NextKev(t) \/ Read(t, "read kev", "write kev") \/ Write(t, "write kev", "kev")
    \/ NextNvd(t) \/ Read(t, "read nvd", "write nvd") \/ Write(t, "write nvd", "nvd")
    \/ Look(t) \/ EndFeed(t)
    \/ Update(t) \/ Insert(t) \/ Note(t) \/ Annotate(t)
    \/ Abandon(t)

Next ==
    \/ \E t \in Thread : Sync(t)
    \/ \E c \in Cve : Decide(c)

Spec == Init /\ [][Next]_vars

-----------------------------------------------------------------------------
(* Properties. *)

\* The labels from which a row is written, and those of the NVD feed.
Upserting == {"read kev", "write kev", "look", "read nvd", "write nvd"}
NvdLabels == {"nvd", "look", "read nvd", "write nvd"}

Labels == Upserting \cup NvdLabels \cup
    {"idle", "fetch kev", "kev", "fetch epss", "update", "insert", "note",
     "annotate", "fetch nvd"}

TableType ==
    /\ rows   \in [Cve -> Row \cup {None}]
    /\ logged \in [Cve -> Cvss \cup {None}]
    /\ open   \in [Cve -> Nat]

ThreadType(t) ==
    /\ feed[t] \in Feed(IF pc[t] \in NvdLabels THEN Cvss ELSE Epss)
    /\ pc[t] \in Upserting => item[t] \in Item
    /\ pc[t] = "annotate"  => item[t] \in Cve

\* Every variable has its type.
TypeOK ==
    /\ TableType
    /\ syncs \in 0..MaxSyncs
    /\ pc    \in [Thread -> Labels]
    /\ feed  \in [Thread -> Feed(Cvss \cup Epss)]
    /\ item  \in [Thread -> Item \cup Cve \cup {None}]
    /\ old   \in [Thread -> Row \cup {None}]
    /\ have  \in [Thread -> SUBSET Cve]
    /\ \A t \in Thread : ThreadType(t)

\* "append history on new CVE or severity change": the last entry of a history is
\* the score the vulnerability has now; a row EPSS brought has the default score
\* and no history.
HistoryCurrent ==
    \A c \in Cve :
        rows[c] # None =>
            rows[c].cvss = (IF logged[c] = None THEN 0 ELSE logged[c])

\* "Effective priority: CVSS base + KEV bump + EPSS scaling + lab relevance": the
\* order of the list is that of what the rows say, whichever feed wrote last.
PriorityCurrent ==
    \A c \in Cve :
        LET r == rows[c]
        IN  r # None => r.priority = Priority(r.cvss, r.kev, r.epss, c)

\* A vulnerability has at most one open review item.
OneOpenReview == \A c \in Cve : open[c] <= 1

Listed(r) == r # None /\ r.kev

\* No vulnerability is marked as known to be exploited without an open review
\* item, even if syncs run at the same time and reviewers close items meanwhile.
KevReviewed ==
    [][\A c \in Cve : Listed(rows'[c]) /\ ~Listed(rows[c]) => open'[c] > 0]_vars

\* KEV is a bump on the CVSS base: that a vulnerability is on the list never makes
\* it less urgent than it was.
KevRaises ==
    [][\A t \in Thread, c \in Cve :
          Write(t, "write kev", "kev") /\ rows[c] # None
              => rows'[c].priority >= rows[c].priority]_vars

=============================================================================
