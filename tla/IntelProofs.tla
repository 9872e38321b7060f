----------------------------- MODULE IntelProofs -----------------------------
(***************************************************************************)
(* Proofs about Intel, for any vulnerabilities, threads, scores and number *)
(* of syncs, and whether or not syncs overlap.                             *)
(***************************************************************************)
EXTENDS Intel, TLAPS

\* The vulnerabilities an EPSS sync takes for known still have a row when it
\* updates them.
KnownHaveRows ==
    \A t \in Thread : pc[t] = "update" => \A c \in have[t] : rows[c] # None

\* The old row of a transaction may be stale, but what it says was listed still is.
OldListed ==
    \A t \in Thread :
        pc[t] \in {"write kev", "write nvd"} /\ Listed(old[t])
            => Listed(rows[item[t].cve])

Inv == TypeOK /\ KnownHaveRows /\ OldListed

\* No row disappears and no listing is withdrawn.
RowsStay ==
    \A c \in Cve : /\ rows[c] # None  => rows'[c] # None
                   /\ Listed(rows[c]) => Listed(rows'[c])

-----------------------------------------------------------------------------
(* The operators. *)

\* A feed without entries is a feed, of whatever numbers.
LEMMA NoFeedType ==
    ASSUME NEW N PROVE NoFeed \in Feed(N)
  BY DEF NoFeed, Feed

\* A feed from which entries are taken is a feed.
LEMMA RestFeed ==
    ASSUME NEW N, NEW f \in Feed(N), NEW S
    PROVE  /\ Restrict(f, DOMAIN f \ S) \in Feed(N)
           /\ DOMAIN f \subseteq Cve
           /\ \A c \in DOMAIN f : f[c] \in N
<1>1. PICK C \in SUBSET Cve : f \in [C -> N]
  BY DEF Feed
<1>2. Restrict(f, DOMAIN f \ S) \in [C \ S -> N]
  BY <1>1 DEF Restrict
<1>3. C \ S \in SUBSET Cve
  BY <1>1
<1>4. Restrict(f, DOMAIN f \ S) \in Feed(N)
  BY <1>2, <1>3 DEF Feed
<1> QED
  BY <1>1, <1>4

\* A feed of numbers is one of more numbers.
LEMMA WiderFeed ==
    ASSUME NEW N, NEW M, N \subseteq M, NEW f \in Feed(N)
    PROVE  f \in Feed(M)
<1>1. PICK C \in SUBSET Cve : f \in [C -> N]
  BY DEF Feed
<1>2. f \in [C -> M]
  BY <1>1
<1> QED
  BY <1>2 DEF Feed

\* The bumps of a priority add up to at most 6.
LEMMA PriorityType ==
    ASSUME NEW c, NEW cvss \in Cvss, NEW kev \in BOOLEAN, NEW epss \in Epss
    PROVE  Priority(cvss, kev, epss, c) \in 0..16
<1>1. cvss \in 0..10
  BY ConstantsOK
<1> QED
  BY <1>1 DEF Priority, Epss

\* What a feed wants to write is well typed.
LEMMA CandidateType ==
    ASSUME NEW c \in Cve, NEW cvss \in Cvss, NEW kev \in BOOLEAN, NEW epss \in Epss
    PROVE  Candidate(c, cvss, kev, epss) \in Item
  BY PriorityType DEF Candidate, Item

\* What the upsert leaves in the table is a row.
LEMMA MergedType ==
    ASSUME NEW r \in Row \cup {None}, NEW n \in Item
    PROVE  Merged(r, n) \in Row
<1>1. r # None => r.kev \in BOOLEAN
  BY DEF Row
<1>2. (n.kev \/ (r # None /\ r.kev)) \in BOOLEAN
  OBVIOUS
<1> QED
  BY <1>2 DEF Merged, Row, Item

\* A new likelihood leaves a row a row, and its listing alone.
LEMMA RescoredType ==
    ASSUME NEW r \in Row, NEW epss \in Epss, NEW c
    PROVE  /\ Rescored(r, epss, c) \in Row
           /\ Rescored(r, epss, c).kev = r.kev
<1>1. r.cvss \in Cvss /\ r.kev \in BOOLEAN
  BY DEF Row
<1>2. Priority(r.cvss, r.kev, epss, c) \in 0..16
  BY <1>1, PriorityType
<1> QED
  BY <1>2 DEF Rescored, Row

\* EPSS lists nothing in KEV.
LEMMA NewcomerType ==
    ASSUME NEW epss \in Epss, NEW c
    PROVE  /\ Newcomer(c, epss) \in Row
           /\ ~Newcomer(c, epss).kev
<1>1. 0 \in Cvss /\ FALSE \in BOOLEAN
  BY ConstantsOK
<1>2. Priority(0, FALSE, epss, c) \in 0..16
  BY <1>1, PriorityType
<1> QED
  BY <1>1, <1>2 DEF Newcomer, Row

\* What is queued has an open item.
LEMMA QueuedType ==
    ASSUME open \in [Cve -> Nat], NEW C
    PROVE  /\ Queued(C) \in [Cve -> Nat]
           /\ \A c \in Cve \cap C : Queued(C)[c] > 0
  BY DEF Queued

-----------------------------------------------------------------------------
(* Types. *)

\* The threads' variables, without what depends on where a thread is.
LocalType ==
    /\ pc   \in [Thread -> Labels]
    /\ feed \in [Thread -> Feed(Cvss \cup Epss)]
    /\ item \in [Thread -> Item \cup Cve \cup {None}]
    /\ old  \in [Thread -> Row \cup {None}]
    /\ have \in [Thread -> SUBSET Cve]

\* What a step of one thread has to keep: the other threads it leaves alone.
LEMMA ThreadStep ==
    ASSUME TypeOK, NEW t \in Thread,
           TableType', syncs' \in 0..MaxSyncs, LocalType', ThreadType(t)',
           \A u \in Thread \ {t} :
               pc'[u] = pc[u] /\ feed'[u] = feed[u] /\ item'[u] = item[u]
    PROVE  TypeOK'
<1>1. ASSUME NEW u \in Thread PROVE ThreadType(u)'
  <2>1. CASE u = t
    BY <2>1
  <2>2. CASE u # t
    BY <2>2 DEF ThreadType, TypeOK
  <2> QED
    BY <2>1, <2>2
<1> QED
  BY <1>1 DEF TypeOK, LocalType

\* The empty database satisfies the invariant.
LEMMA InitInv == Init => Inv
<1> SUFFICES ASSUME Init PROVE Inv
  OBVIOUS
<1>1. TableType /\ syncs \in 0..MaxSyncs /\ pc \in [Thread -> Labels]
  BY ConstantsOK DEF Init, TableType, Labels
<1>2. /\ \A N : NoFeed \in Feed(N)
      /\ \A t \in Thread : ThreadType(t)
  BY NoFeedType DEF Init, ThreadType, Upserting, NvdLabels
<1>3. /\ feed  \in [Thread -> Feed(Cvss \cup Epss)]
      /\ item  \in [Thread -> Item \cup Cve \cup {None}]
      /\ old   \in [Thread -> Row \cup {None}]
      /\ have  \in [Thread -> SUBSET Cve]
  BY <1>2 DEF Init
<1> QED
  BY <1>1, <1>2, <1>3 DEF Init, Inv, TypeOK, KnownHaveRows, OldListed

\* Every step keeps the types, given that an update finds the rows it expects.
LEMMA StepTypes ==
    ASSUME TypeOK, KnownHaveRows, Next
    PROVE  TypeOK'
<1>a. LocalType /\ TableType /\ syncs \in 0..MaxSyncs
  BY DEF TypeOK, LocalType
<1>b. ASSUME UNCHANGED tables PROVE TableType'
  BY <1>a, <1>b DEF TableType, tables
<1>1. ASSUME NEW t \in Thread, StartSync(t) PROVE TypeOK'
  <2>1. syncs' \in 0..MaxSyncs
    <3>1. syncs < MaxSyncs /\ syncs' = syncs + 1 /\ MaxSyncs \in Nat
      BY <1>1, ConstantsOK DEF StartSync
    <3> QED
      BY <1>a, <3>1
  <2>2. TableType'
    BY <1>1, <1>b DEF StartSync
  <2>3. /\ LocalType'
        /\ \A u \in Thread \ {t} :
               pc'[u] = pc[u] /\ feed'[u] = feed[u] /\ item'[u] = item[u]
    BY <1>a, <1>1 DEF LocalType, StartSync, local, Goto, Labels
  <2>4. ThreadType(t)'
    BY <1>a, <1>1 DEF StartSync, local, Goto, TypeOK, ThreadType, Upserting, NvdLabels, LocalType
  <2> QED
    BY <2>1, <2>2, <2>3, <2>4, ThreadStep
<1>2. ASSUME NEW t \in Thread, FetchKev(t) PROVE TypeOK'
  <2>1. PICK f \in Feed({0}) :
           /\ feed' = [feed EXCEPT ![t] = f]
           /\ pc' = [pc EXCEPT ![t] = "kev"]
           /\ UNCHANGED <<tables, syncs, item, old>>
    BY <1>2 DEF FetchKev, Fetch, Goto
  <2>2. f \in Feed(Epss) /\ f \in Feed(Cvss \cup Epss)
    BY WiderFeed DEF Epss
  <2>3. have' \in [Thread -> SUBSET Cve]
    BY <1>a, <1>2 DEF FetchKev, LocalType
  <2>4. /\ LocalType'
        /\ \A u \in Thread \ {t} :
               pc'[u] = pc[u] /\ feed'[u] = feed[u] /\ item'[u] = item[u]
    BY <1>a, <2>1, <2>2, <2>3 DEF LocalType, Labels, NvdLabels
  <2>5. ThreadType(t)'
    BY <1>a, <2>1, <2>2 DEF ThreadType, Upserting, NvdLabels, LocalType
  <2> QED
    BY <1>a, <1>b, <2>1, <2>4, <2>5, ThreadStep
<1>3. ASSUME NEW t \in Thread, FetchEpss(t) PROVE TypeOK'
  <2>1. PICK f \in Feed(Epss) :
           /\ feed' = [feed EXCEPT ![t] = f]
           /\ pc' = [pc EXCEPT ![t] = "update"]
           /\ UNCHANGED <<tables, syncs, item, old>>
    BY <1>3 DEF FetchEpss, Fetch, Goto
  <2>2. f \in Feed(Epss) /\ f \in Feed(Cvss \cup Epss)
    BY WiderFeed
  <2>3. have' \in [Thread -> SUBSET Cve]
    BY <1>a, <1>3 DEF FetchEpss, LocalType
  <2>4. /\ LocalType'
        /\ \A u \in Thread \ {t} :
               pc'[u] = pc[u] /\ feed'[u] = feed[u] /\ item'[u] = item[u]
    BY <1>a, <2>1, <2>2, <2>3 DEF LocalType, Labels, NvdLabels
  <2>5. ThreadType(t)'
    BY <1>a, <2>1, <2>2 DEF ThreadType, Upserting, NvdLabels, LocalType
  <2> QED
    BY <1>a, <1>b, <2>1, <2>4, <2>5, ThreadStep
<1>4. ASSUME NEW t \in Thread, FetchNvd(t) PROVE TypeOK'
  <2>1. PICK f \in Feed(Cvss) :
           /\ feed' = [feed EXCEPT ![t] = f]
           /\ pc' = [pc EXCEPT ![t] = "nvd"]
           /\ UNCHANGED <<tables, syncs, item, old>>
    BY <1>4 DEF FetchNvd, Fetch, Goto
  <2>2. f \in Feed(Cvss) /\ f \in Feed(Cvss \cup Epss)
    BY WiderFeed
  <2>3. have' \in [Thread -> SUBSET Cve]
    BY <1>a, <1>4 DEF FetchNvd, LocalType
  <2>4. /\ LocalType'
        /\ \A u \in Thread \ {t} :
               pc'[u] = pc[u] /\ feed'[u] = feed[u] /\ item'[u] = item[u]
    BY <1>a, <2>1, <2>2, <2>3 DEF LocalType, Labels, NvdLabels
  <2>5. ThreadType(t)'
    BY <1>a, <2>1, <2>2 DEF ThreadType, Upserting, NvdLabels, LocalType
  <2> QED
    BY <1>a, <1>b, <2>1, <2>4, <2>5, ThreadStep
<1>5. ASSUME NEW t \in Thread, NextKev(t) PROVE TypeOK'
  <2>1. PICK c \in DOMAIN feed[t] : Take(t, "kev", c, Candidate(c, 0, TRUE, 0), "read kev")
    BY <1>5 DEF NextKev
  <2>2. UNCHANGED <<tables, syncs, old, have>>
    BY <1>5 DEF NextKev
  <2> DEFINE f == Restrict(feed[t], DOMAIN feed[t] \ {c})
             n == Candidate(c, 0, TRUE, 0)
  <2>3. pc[t] = "kev" /\ feed[t] \in Feed(Epss)
    BY <2>1 DEF Take, TypeOK, ThreadType, NvdLabels
  <2>4. f \in Feed(Epss) /\ f \in Feed(Cvss \cup Epss)
    BY <2>3, RestFeed, WiderFeed
  <2>5. n \in Item
    <3>1. c \in Cve /\ feed[t][c] \in Epss
      BY <2>3, RestFeed
    <3>2. 0 \in Cvss /\ 0 \in Epss
      BY ConstantsOK DEF Epss
    <3> QED
      BY <3>1, <3>2, CandidateType
  <2>6. /\ feed' = [feed EXCEPT ![t] = f]
        /\ item' = [item EXCEPT ![t] = n]
        /\ pc' = [pc EXCEPT ![t] = "read kev"]
    BY <2>1 DEF Take, Goto
  <2> HIDE DEF f, n
  <2>7. /\ LocalType'
        /\ \A u \in Thread \ {t} :
               pc'[u] = pc[u] /\ feed'[u] = feed[u] /\ item'[u] = item[u]
    BY <1>a, <2>2, <2>4, <2>5, <2>6 DEF LocalType, Labels, Upserting
  <2>8. ThreadType(t)'
    BY <1>a, <2>4, <2>5, <2>6 DEF ThreadType, Upserting, NvdLabels, LocalType
  <2> QED
    BY <1>a, <1>b, <2>2, <2>7, <2>8, ThreadStep
<1>6. ASSUME NEW t \in Thread, NextNvd(t) PROVE TypeOK'
  <2>1. PICK c \in DOMAIN feed[t] : Take(t, "nvd", c, Candidate(c, feed[t][c], FALSE, 0), "look")
    BY <1>6 DEF NextNvd
  <2>2. UNCHANGED <<tables, syncs, old, have>>
    BY <1>6 DEF NextNvd
  <2> DEFINE f == Restrict(feed[t], DOMAIN feed[t] \ {c})
             n == Candidate(c, feed[t][c], FALSE, 0)
  <2>3. pc[t] = "nvd" /\ feed[t] \in Feed(Cvss)
    BY <2>1 DEF Take, TypeOK, ThreadType, NvdLabels
  <2>4. f \in Feed(Cvss) /\ f \in Feed(Cvss \cup Epss)
    BY <2>3, RestFeed, WiderFeed
  <2>5. n \in Item
    <3>1. c \in Cve /\ feed[t][c] \in Cvss
      BY <2>3, RestFeed
    <3>2. 0 \in Cvss /\ 0 \in Epss
      BY ConstantsOK DEF Epss
    <3> QED
      BY <3>1, <3>2, CandidateType
  <2>6. /\ feed' = [feed EXCEPT ![t] = f]
        /\ item' = [item EXCEPT ![t] = n]
        /\ pc' = [pc EXCEPT ![t] = "look"]
    BY <2>1 DEF Take, Goto
  <2> HIDE DEF f, n
  <2>7. /\ LocalType'
        /\ \A u \in Thread \ {t} :
               pc'[u] = pc[u] /\ feed'[u] = feed[u] /\ item'[u] = item[u]
    BY <1>a, <2>2, <2>4, <2>5, <2>6 DEF LocalType, Labels, Upserting
  <2>8. ThreadType(t)'
    BY <1>a, <2>4, <2>5, <2>6 DEF ThreadType, Upserting, NvdLabels, LocalType
  <2> QED
    BY <1>a, <1>b, <2>2, <2>7, <2>8, ThreadStep
<1>7. ASSUME NEW t \in Thread, Look(t) PROVE TypeOK'
  <2> DEFINE c == item[t].cve
  <2>1. /\ pc[t] = "look" /\ pc' = [pc EXCEPT ![t] = "read nvd"]
        /\ UNCHANGED <<tables, syncs, feed, old, have>>
    BY <1>7 DEF Look, Goto
  <2>2. item[t] \in Item /\ feed[t] \in Feed(Cvss)
    BY <2>1 DEF TypeOK, ThreadType, Upserting, NvdLabels
  <2>3. PICK n \in Item : item' = [item EXCEPT ![t] = n]
    <3>1. CASE rows[c] = None
      <4>1. item' = [item EXCEPT ![t] = item[t]]
        BY <1>7, <1>a, <3>1 DEF Look, LocalType
      <4> QED
        BY <2>2, <4>1
    <3>2. CASE rows[c] # None
      <4>1. c \in Cve /\ item[t].cvss \in Cvss
        BY <2>2 DEF Item
      <4>2. rows[c].kev \in BOOLEAN /\ rows[c].epss \in Epss
        BY <1>a, <3>2, <4>1 DEF TableType, Row
      <4>3. item' = [item EXCEPT ![t] =
                        Candidate(c, item[t].cvss, rows[c].kev, rows[c].epss)]
        BY <1>7, <3>2 DEF Look
      <4> QED
        BY <4>1, <4>2, <4>3, CandidateType
    <3> QED
      BY <3>1, <3>2
  <2>4. /\ LocalType'
        /\ \A u \in Thread \ {t} :
               pc'[u] = pc[u] /\ feed'[u] = feed[u] /\ item'[u] = item[u]
    BY <1>a, <2>1, <2>3 DEF LocalType, Labels, NvdLabels
  <2>5. ThreadType(t)'
    BY <1>a, <2>1, <2>2, <2>3 DEF ThreadType, Upserting, NvdLabels, LocalType
  <2> QED
    BY <1>a, <1>b, <2>1, <2>4, <2>5, ThreadStep
<1>8. ASSUME NEW t \in Thread, EndFeed(t) PROVE TypeOK'
  <2>1. PICK l \in {"fetch epss", "idle"} : pc' = [pc EXCEPT ![t] = l]
    BY <1>8 DEF EndFeed, AfterFeed, Goto
  <2>2. feed[t] = NoFeed /\ UNCHANGED <<tables, syncs, local>>
    BY <1>8 DEF EndFeed
  <2>3. feed[t] \in Feed(Epss)
    BY <2>2, NoFeedType
  <2>4. /\ LocalType'
        /\ \A u \in Thread \ {t} :
               pc'[u] = pc[u] /\ feed'[u] = feed[u] /\ item'[u] = item[u]
    BY <1>a, <2>1, <2>2 DEF LocalType, Labels, local
  <2>5. ThreadType(t)'
    BY <1>a, <2>1, <2>2, <2>3 DEF ThreadType, Upserting, NvdLabels, LocalType, local
  <2> QED
    BY <1>a, <1>b, <2>2, <2>4, <2>5, ThreadStep
<1>9. ASSUME NEW t \in Thread, NEW at, NEW then, Read(t, at, then),
             \/ at = "read kev" /\ then = "write kev"
             \/ at = "read nvd" /\ then = "write nvd"
      PROVE  TypeOK'
  <2>1. /\ pc[t] = at /\ pc' = [pc EXCEPT ![t] = then]
        /\ old' = [old EXCEPT ![t] = rows[item[t].cve]]
        /\ UNCHANGED <<tables, syncs, feed, item, have>>
    BY <1>9 DEF Read, Goto
  <2>2. item[t] \in Item /\ item[t].cve \in Cve
    BY <1>9, <2>1 DEF TypeOK, ThreadType, Upserting, Item
  <2>3. rows[item[t].cve] \in Row \cup {None}
    BY <1>a, <2>2 DEF TableType
  <2>4. /\ LocalType'
        /\ \A u \in Thread \ {t} :
               pc'[u] = pc[u] /\ feed'[u] = feed[u] /\ item'[u] = item[u]
    BY <1>a, <1>9, <2>1, <2>3 DEF LocalType, Labels, Upserting
  <2>5. ThreadType(t)'
    BY <1>a, <1>9, <2>1, <2>2 DEF TypeOK, ThreadType, Upserting, NvdLabels, LocalType
  <2> QED
    BY <1>a, <1>b, <2>1, <2>4, <2>5, ThreadStep
<1>10. ASSUME NEW t \in Thread, NEW at, NEW then, Write(t, at, then),
              \/ at = "write kev" /\ then = "kev"
              \/ at = "write nvd" /\ then = "nvd"
       PROVE  TypeOK'
  <2> DEFINE n == item[t]
             c == n.cve
  <2>1. /\ pc[t] = at /\ pc' = [pc EXCEPT ![t] = then]
        /\ item' = [item EXCEPT ![t] = None]
        /\ old'  = [old  EXCEPT ![t] = None]
        /\ UNCHANGED <<syncs, feed, have>>
    BY <1>10 DEF Write, Goto
  <2>2. n \in Item /\ c \in Cve /\ n.cvss \in Cvss
    BY <1>10, <2>1 DEF TypeOK, ThreadType, Upserting, Item
  <2>3. rows' \in [Cve -> Row \cup {None}]
    <3>1. Merged(rows[c], n) \in Row
      BY <1>a, <2>2, MergedType DEF TableType
    <3>2. rows' = [rows EXCEPT ![c] = Merged(rows[c], n)]
      BY <1>10 DEF Write
    <3> QED
      BY <1>a, <2>2, <3>1, <3>2 DEF TableType
  <2>4. logged' \in [Cve -> Cvss \cup {None}] /\ open' \in [Cve -> Nat]
    <3>1. CASE Event(old[t], n)
      <4>1. logged' = [logged EXCEPT ![c] = n.cvss] /\ open' = Queued({c})
        BY <1>10, <3>1 DEF Write
      <4> QED
        BY <1>a, <2>2, <4>1, QueuedType DEF TableType
    <3>2. CASE ~Event(old[t], n)
      BY <1>10, <1>a, <3>2 DEF Write, TableType
    <3> QED
      BY <3>1, <3>2
  <2>5. /\ LocalType'
        /\ \A u \in Thread \ {t} :
               pc'[u] = pc[u] /\ feed'[u] = feed[u] /\ item'[u] = item[u]
    BY <1>a, <1>10, <2>1 DEF LocalType, Labels, NvdLabels
  <2>6. ThreadType(t)'
    BY <1>a, <1>10, <2>1 DEF TypeOK, ThreadType, Upserting, NvdLabels, LocalType
  <2> QED
    BY <1>a, <2>1, <2>3, <2>4, <2>5, <2>6, ThreadStep DEF TableType
<1>11. ASSUME NEW t \in Thread, Update(t) PROVE TypeOK'
  <2> DEFINE known == DOMAIN feed[t] \cap have[t]
             f == Restrict(feed[t], DOMAIN feed[t] \ known)
  <2>1. /\ pc[t] = "update" /\ pc' = [pc EXCEPT ![t] = "insert"]
        /\ feed' = [feed EXCEPT ![t] = f]
        /\ have' = [have EXCEPT ![t] = {}]
        /\ UNCHANGED <<logged, open, syncs, item, old>>
    BY <1>11 DEF Update, Goto
  <2>2. feed[t] \in Feed(Epss)
    BY <2>1 DEF TypeOK, ThreadType, NvdLabels
  <2>3. f \in Feed(Epss) /\ f \in Feed(Cvss \cup Epss)
    BY <2>2, RestFeed, WiderFeed
  <2>4. rows' \in [Cve -> Row \cup {None}]
    <3>1. ASSUME NEW c \in known PROVE Rescored(rows[c], feed[t][c], c) \in Row
      <4>1. rows[c] \in Row
        BY <1>a, <2>1, <3>1 DEF KnownHaveRows, TableType, LocalType
      <4>2. feed[t][c] \in Epss
        BY <2>2, <3>1, RestFeed
      <4> QED
        BY <4>1, <4>2, RescoredType
    <3>2. rows' = [c \in Cve |-> IF c \in known THEN Rescored(rows[c], feed[t][c], c)
                                                ELSE rows[c]]
      BY <1>11 DEF Update
    <3> QED
      BY <1>a, <3>1, <3>2 DEF TableType
  <2> HIDE DEF f
  <2>5. /\ LocalType'
        /\ \A u \in Thread \ {t} :
               pc'[u] = pc[u] /\ feed'[u] = feed[u] /\ item'[u] = item[u]
    BY <1>a, <2>1, <2>3 DEF LocalType, Labels
  <2>6. ThreadType(t)'
    BY <1>a, <2>1, <2>3 DEF ThreadType, Upserting, NvdLabels, LocalType
  <2> QED
    BY <1>a, <2>1, <2>4, <2>5, <2>6, ThreadStep DEF TableType
<1>12. ASSUME NEW t \in Thread, Insert(t) PROVE TypeOK'
  <2>1. /\ pc[t] = "insert" /\ pc' = [pc EXCEPT ![t] = "note"]
        /\ UNCHANGED <<logged, open, syncs, feed, item, old, have>>
    BY <1>12 DEF Insert, Goto, local
  <2>2. feed[t] \in Feed(Epss)
    BY <2>1 DEF TypeOK, ThreadType, NvdLabels
  <2>3. rows' \in [Cve -> Row \cup {None}]
    <3>1. \A c \in DOMAIN feed[t] : Newcomer(c, feed[t][c]) \in Row
      BY <2>2, RestFeed, NewcomerType
    <3>2. rows' = [c \in Cve |-> IF c \in DOMAIN feed[t] /\ rows[c] = None
                                   THEN Newcomer(c, feed[t][c])
                                   ELSE rows[c]]
      BY <1>12 DEF Insert
    <3> QED
      BY <1>a, <3>1, <3>2 DEF TableType
  <2>4. /\ LocalType'
        /\ \A u \in Thread \ {t} :
               pc'[u] = pc[u] /\ feed'[u] = feed[u] /\ item'[u] = item[u]
    BY <1>a, <2>1 DEF LocalType, Labels
  <2>5. ThreadType(t)'
    BY <1>a, <2>1, <2>2 DEF ThreadType, Upserting, NvdLabels, LocalType
  <2> QED
    BY <1>a, <2>1, <2>3, <2>4, <2>5, ThreadStep DEF TableType
<1>13. ASSUME NEW t \in Thread, Note(t) PROVE TypeOK'
  <2>1. pc[t] = "note" /\ UNCHANGED <<tables, syncs>>
    BY <1>13 DEF Note
  <2>2. feed[t] \in Feed(Epss)
    BY <2>1 DEF TypeOK, ThreadType, NvdLabels
  <2>3. CASE pc' = [pc EXCEPT ![t] = "fetch nvd"] /\ UNCHANGED local
    <3>1. /\ LocalType'
        /\ \A u \in Thread \ {t} :
                 pc'[u] = pc[u] /\ feed'[u] = feed[u] /\ item'[u] = item[u]
      BY <1>a, <2>3 DEF LocalType, Labels, local
    <3>2. ThreadType(t)'
      BY <1>a, <2>2, <2>3 DEF ThreadType, Upserting, NvdLabels, LocalType, local
    <3> QED
      BY <1>a, <1>b, <2>1, <3>1, <3>2, ThreadStep
  <2>4. ASSUME NEW c \in DOMAIN feed[t],
               feed' = [feed EXCEPT ![t] = Restrict(@, DOMAIN @ \ {c})],
               \/ UNCHANGED <<pc, item>>
               \/ /\ item' = [item EXCEPT ![t] = c]
                  /\ pc' = [pc EXCEPT ![t] = "annotate"],
               UNCHANGED <<old, have>>
        PROVE  TypeOK'
    <3> DEFINE f == Restrict(feed[t], DOMAIN feed[t] \ {c})
    <3>1. f \in Feed(Epss) /\ f \in Feed(Cvss \cup Epss) /\ c \in Cve
      BY <2>2, RestFeed, WiderFeed
    <3>2. feed' = [feed EXCEPT ![t] = f]
      BY <1>a, <2>4 DEF LocalType
    <3> HIDE DEF f
    <3>3. LocalType'
      BY <1>a, <2>4, <3>1, <3>2 DEF LocalType, Labels
    <3>4. \A u \in Thread \ {t} :
               pc'[u] = pc[u] /\ feed'[u] = feed[u] /\ item'[u] = item[u]
      BY <1>a, <2>4, <3>2 DEF LocalType
    <3>5. ThreadType(t)'
      BY <1>a, <2>1, <2>4, <3>1, <3>2 DEF ThreadType, Upserting, NvdLabels, LocalType
    <3> QED
      BY <1>a, <1>b, <2>1, <3>3, <3>4, <3>5, ThreadStep
  <2> QED
    BY <1>13, <2>3, <2>4 DEF Note, Goto
<1>14. ASSUME NEW t \in Thread, Annotate(t) PROVE TypeOK'
  <2>1. /\ pc[t] = "annotate" /\ pc' = [pc EXCEPT ![t] = "note"]
        /\ open' = [Queued(DOMAIN feed[t]) EXCEPT ![item[t]] = @ + 1]
        /\ feed' = [feed EXCEPT ![t] = NoFeed]
        /\ item' = [item EXCEPT ![t] = None]
        /\ UNCHANGED <<rows, logged, syncs, old, have>>
    BY <1>14 DEF Annotate, Goto
  <2>2. open' \in [Cve -> Nat]
    <3> DEFINE q == Queued(DOMAIN feed[t])
    <3>1. q \in [Cve -> Nat]
      BY <1>a, QueuedType DEF TableType
    <3>2. item[t] \in Cve
      BY <2>1 DEF TypeOK, ThreadType
    <3>3. open' = [q EXCEPT ![item[t]] = q[item[t]] + 1]
      BY <2>1, <3>1, <3>2
    <3> HIDE DEF q
    <3> QED
      BY <3>1, <3>2, <3>3
  <2>3. NoFeed \in Feed(Epss) /\ NoFeed \in Feed(Cvss \cup Epss)
    BY NoFeedType
  <2>4. /\ LocalType'
        /\ \A u \in Thread \ {t} :
               pc'[u] = pc[u] /\ feed'[u] = feed[u] /\ item'[u] = item[u]
    BY <1>a, <2>1, <2>3 DEF LocalType, Labels
  <2>5. ThreadType(t)'
    BY <1>a, <2>1, <2>3 DEF ThreadType, Upserting, NvdLabels, LocalType
  <2> QED
    BY <1>a, <2>1, <2>2, <2>4, <2>5, ThreadStep DEF TableType
<1>15. ASSUME NEW t \in Thread, Abandon(t) PROVE TypeOK'
  <2>1. PICK l \in {"fetch epss", "fetch nvd", "idle"} : pc' = [pc EXCEPT ![t] = l]
    BY <1>15 DEF Abandon, Goto
  <2>2. /\ feed' = [feed EXCEPT ![t] = NoFeed]
        /\ item' = [item EXCEPT ![t] = None]
        /\ old'  = [old  EXCEPT ![t] = None]
        /\ have' = [have EXCEPT ![t] = {}]
        /\ UNCHANGED <<tables, syncs>>
    BY <1>15 DEF Abandon
  <2>3. NoFeed \in Feed(Epss) /\ NoFeed \in Feed(Cvss \cup Epss)
    BY NoFeedType
  <2>4. /\ LocalType'
        /\ \A u \in Thread \ {t} :
               pc'[u] = pc[u] /\ feed'[u] = feed[u] /\ item'[u] = item[u]
    BY <1>a, <2>1, <2>2, <2>3 DEF LocalType, Labels
  <2>5. ThreadType(t)'
    BY <1>a, <2>1, <2>2, <2>3 DEF ThreadType, Upserting, NvdLabels, LocalType
  <2> QED
    BY <1>a, <1>b, <2>2, <2>4, <2>5, ThreadStep
<1>16. ASSUME NEW c \in Cve, Decide(c) PROVE TypeOK'
  <2>1. open' \in [Cve -> Nat]
    <3>1. open[c] > 0 /\ open' = [open EXCEPT ![c] = open[c] - 1]
      BY <1>16 DEF Decide
    <3>2. open \in [Cve -> Nat]
      BY <1>a DEF TableType
    <3> QED
      BY <3>1, <3>2
  <2> QED
    BY <1>a, <1>16, <2>1 DEF Decide, TypeOK, TableType, ThreadType, local
<1> QED
  BY <1>1, <1>2, <1>3, <1>4, <1>5, <1>6, <1>7, <1>8, <1>9, <1>10, <1>11, <1>12,
     <1>13, <1>14, <1>15, <1>16 DEF Next, Sync

-----------------------------------------------------------------------------
(* Listings. *)

\* Every step is one that leaves the rows alone, or a Write, an Update or an Insert.
LEMMA RowSteps ==
    ASSUME Next
    PROVE  \/ rows' = rows
           \/ \E t \in Thread : \/ Write(t, "write kev", "kev")
                                \/ Write(t, "write nvd", "nvd")
                                \/ Update(t)
                                \/ Insert(t)
<1>1. CASE \E t \in Thread : \/ StartSync(t) \/ FetchKev(t) \/ FetchEpss(t)
                             \/ FetchNvd(t) \/ NextKev(t) \/ NextNvd(t) \/ Look(t)
                             \/ EndFeed(t) \/ Note(t) \/ Annotate(t) \/ Abandon(t)
                             \/ Read(t, "read kev", "write kev")
                             \/ Read(t, "read nvd", "write nvd")
  BY <1>1 DEF StartSync, FetchKev, FetchEpss, FetchNvd, NextKev, NextNvd, Look,
              EndFeed, Note, Annotate, Abandon, Read, tables
<1>2. CASE \E c \in Cve : Decide(c)
  BY <1>2 DEF Decide
<1> QED
  BY <1>1, <1>2 DEF Next, Sync

\* What a Write does to the rows.
LEMMA WriteRow ==
    ASSUME TypeOK, NEW t \in Thread, NEW at, NEW then, Write(t, at, then),
           at \in {"write kev", "write nvd"}
    PROVE  /\ item[t] \in Item
           /\ item[t].cve \in Cve
           /\ rows' = [rows EXCEPT ![item[t].cve] = Merged(rows[item[t].cve], item[t])]
           /\ Merged(rows[item[t].cve], item[t]) \in Row
<1>1. item[t] \in Item
  BY DEF Write, TypeOK, ThreadType, Upserting
<1>2. item[t].cve \in Cve
  BY <1>1 DEF Item
<1>3. Merged(rows[item[t].cve], item[t]) \in Row
  BY <1>1, <1>2, MergedType DEF TypeOK, TableType
<1> QED
  BY <1>1, <1>2, <1>3 DEF Write

\* What an Update and an Insert do to the rows.
LEMMA EpssRows ==
    ASSUME TypeOK, KnownHaveRows, NEW t \in Thread, Update(t) \/ Insert(t),
           NEW c \in Cve
    PROVE  \/ rows'[c] = rows[c]
           \/ rows[c] \in Row /\ rows'[c] \in Row /\ rows'[c].kev = rows[c].kev
           \/ rows[c] = None /\ rows'[c] \in Row /\ ~rows'[c].kev
<1>1. feed[t] \in Feed(Epss)
  BY DEF Update, Insert, TypeOK, ThreadType, NvdLabels
<1>2. CASE Update(t)
  <2>1. rows'[c] = IF c \in DOMAIN feed[t] \cap have[t]
                     THEN Rescored(rows[c], feed[t][c], c) ELSE rows[c]
    BY <1>2 DEF Update
  <2>2. CASE c \in DOMAIN feed[t] \cap have[t]
    <3>1. rows[c] \in Row
      BY <1>2, <2>2 DEF Update, KnownHaveRows, TypeOK, TableType
    <3>2. feed[t][c] \in Epss
      BY <1>1, <2>2, RestFeed
    <3> QED
      BY <2>1, <2>2, <3>1, <3>2, RescoredType
  <2> QED
    BY <2>1, <2>2
<1>3. CASE Insert(t)
  <2>1. rows'[c] = IF c \in DOMAIN feed[t] /\ rows[c] = None
                     THEN Newcomer(c, feed[t][c]) ELSE rows[c]
    BY <1>3 DEF Insert
  <2>2. CASE c \in DOMAIN feed[t] /\ rows[c] = None
    <3>1. feed[t][c] \in Epss
      BY <1>1, <2>2, RestFeed
    <3> QED
      BY <2>1, <2>2, <3>1, NewcomerType
  <2> QED
    BY <2>1, <2>2
<1> QED
  BY <1>2, <1>3

\* Every step keeps rows and listings.
LEMMA StepRowsStay ==
    ASSUME Inv, Next
    PROVE  RowsStay
<1> USE DEF Inv
<1>1. CASE rows' = rows
  BY <1>1 DEF RowsStay, Listed
<1>2. ASSUME NEW t \in Thread, NEW at, NEW then, Write(t, at, then),
             at \in {"write kev", "write nvd"}
      PROVE  RowsStay
  <2> DEFINE c == item[t].cve
             m == Merged(rows[c], item[t])
  <2>1. c \in Cve /\ rows' = [rows EXCEPT ![c] = m] /\ m \in Row
    BY <1>2, WriteRow
  <2>2. Listed(rows[c]) => m.kev
    BY DEF Listed, Merged
  <2>3. m # None
    BY <2>1, ConstantsOK
  <2>4. DOMAIN rows = Cve
    BY DEF TypeOK, TableType
  <2> HIDE DEF m
  <2> QED
    BY <2>1, <2>2, <2>3, <2>4 DEF RowsStay, Listed
<1>3. ASSUME NEW t \in Thread, Update(t) \/ Insert(t) PROVE RowsStay
  <2> SUFFICES ASSUME NEW c \in Cve
               PROVE  /\ rows[c] # None  => rows'[c] # None
                      /\ Listed(rows[c]) => Listed(rows'[c])
    BY DEF RowsStay
  <2> QED
    BY <1>3, EpssRows, ConstantsOK DEF Listed
<1> QED
  BY <1>1, <1>2, <1>3, RowSteps

\* How a thread gets to where the invariant says something about it.
LEMMA Arrivals ==
    ASSUME TypeOK, Next, NEW u \in Thread
    PROVE  /\ pc'[u] = "update" =>
                \/ pc[u] = "update" /\ have'[u] = have[u]
                \/ have'[u] = {c \in Cve : rows[c] # None}
           /\ pc'[u] \in {"write kev", "write nvd"} =>
                /\ item'[u] = item[u] /\ item[u].cve \in Cve
                /\ \/ pc[u] = pc'[u] /\ old'[u] = old[u]
                   \/ old'[u] = rows[item[u].cve]
<1>a. LocalType /\ ThreadType(u)
  BY DEF TypeOK, LocalType
<1>1. CASE \E c \in Cve : Decide(c)
  <2>1. UNCHANGED <<pc, item, old, have>>
    BY <1>1 DEF Decide, local
  <2> QED
    BY <1>a, <2>1 DEF ThreadType, Upserting, Item
<1>2. ASSUME NEW t \in Thread, Sync(t), t # u
      PROVE  /\ pc'[u] = pc[u] /\ item'[u] = item[u] /\ old'[u] = old[u]
             /\ have'[u] = have[u]
  <2>1. CASE StartSync(t) \/ FetchKev(t) \/ FetchEpss(t) \/ FetchNvd(t) \/ EndFeed(t)
    BY <1>a, <1>2, <2>1 DEF StartSync, FetchKev, FetchEpss, FetchNvd, EndFeed, Fetch,
                            Goto, local, LocalType
  <2>2. CASE NextKev(t) \/ NextNvd(t) \/ Look(t)
    BY <1>a, <1>2, <2>2 DEF NextKev, NextNvd, Look, Take, Goto, LocalType
  <2>3. CASE \/ Read(t, "read kev", "write kev") \/ Read(t, "read nvd", "write nvd")
             \/ Write(t, "write kev", "kev") \/ Write(t, "write nvd", "nvd")
    BY <1>a, <1>2, <2>3 DEF Read, Write, Goto, LocalType
  <2>4. CASE Update(t) \/ Insert(t) \/ Note(t) \/ Annotate(t) \/ Abandon(t)
    BY <1>a, <1>2, <2>4 DEF Update, Insert, Note, Annotate, Abandon, Goto, local, LocalType
  <2> QED
    BY <1>2, <2>1, <2>2, <2>3, <2>4 DEF Sync
<1>3. CASE Read(u, "read kev", "write kev") \/ Read(u, "read nvd", "write nvd")
  <2>1. /\ pc[u] \in {"read kev", "read nvd"} /\ pc'[u] \in {"write kev", "write nvd"}
        /\ item'[u] = item[u] /\ old'[u] = rows[item[u].cve]
    BY <1>a, <1>3 DEF Read, Goto, LocalType
  <2> QED
    BY <1>a, <2>1 DEF ThreadType, Upserting, Item
<1>4. CASE FetchEpss(u)
  BY <1>a, <1>4 DEF FetchEpss, Fetch, Goto, LocalType
<1>5. CASE \/ StartSync(u) \/ FetchKev(u) \/ FetchNvd(u) \/ NextKev(u) \/ NextNvd(u)
           \/ Look(u) \/ EndFeed(u) \/ Write(u, "write kev", "kev")
           \/ Write(u, "write nvd", "nvd") \/ Update(u) \/ Insert(u) \/ Annotate(u)
           \/ Abandon(u)
  <2>1. pc'[u] \notin {"update", "write kev", "write nvd"}
    <3>1. CASE StartSync(u) \/ FetchKev(u) \/ FetchNvd(u) \/ NextKev(u) \/ NextNvd(u)
      BY <1>a, <3>1 DEF StartSync, FetchKev, FetchNvd, NextKev, NextNvd, Fetch, Take,
                        Goto, LocalType
    <3>2. CASE Look(u) \/ EndFeed(u) \/ Write(u, "write kev", "kev")
               \/ Write(u, "write nvd", "nvd")
      BY <1>a, <3>2 DEF Look, EndFeed, AfterFeed, Write, Goto, LocalType
    <3>3. CASE Update(u) \/ Insert(u) \/ Annotate(u) \/ Abandon(u)
      BY <1>a, <3>3 DEF Update, Insert, Annotate, Abandon, Goto, LocalType
    <3> QED
      BY <1>5, <3>1, <3>2, <3>3
  <2> QED
    BY <2>1
<1>6. CASE Note(u)
  <2>1. pc'[u] \notin {"update", "write kev", "write nvd"}
    BY <1>a, <1>6 DEF Note, Goto, LocalType
  <2> QED
    BY <2>1
<1>7. CASE \E t \in Thread : Sync(t) /\ t # u
  BY <1>2, <1>7, <1>a DEF ThreadType, Upserting, Item
<1>8. CASE Sync(u)
  BY <1>3, <1>4, <1>5, <1>6, <1>8 DEF Sync
<1> QED
  BY <1>1, <1>7, <1>8 DEF Next

\* The invariant is inductive.
LEMMA StepInv == Inv /\ [Next]_vars => Inv'
<1> SUFFICES ASSUME Inv, [Next]_vars PROVE Inv'
  OBVIOUS
<1>1. CASE Next
  <2>1. TypeOK'
    BY <1>1, StepTypes DEF Inv
  <2>2. RowsStay
    BY <1>1, StepRowsStay
  <2>3. KnownHaveRows'
    <3> SUFFICES ASSUME NEW u \in Thread, pc'[u] = "update", NEW c \in have'[u]
                 PROVE  rows'[c] # None
      BY DEF KnownHaveRows
    <3>1. c \in Cve
      BY <2>1 DEF TypeOK
    <3>2. rows[c] # None
      <4>1. CASE pc[u] = "update" /\ have'[u] = have[u]
        BY <4>1 DEF Inv, KnownHaveRows
      <4>2. CASE have'[u] = {d \in Cve : rows[d] # None}
        BY <4>2
      <4> QED
        BY <1>1, <4>1, <4>2, Arrivals DEF Inv
    <3> QED
      BY <2>2, <3>1, <3>2 DEF RowsStay
  <2>4. OldListed'
    <3> SUFFICES ASSUME NEW u \in Thread, pc'[u] \in {"write kev", "write nvd"},
                        Listed(old'[u])
                 PROVE  Listed(rows'[item'[u].cve])
      BY DEF OldListed, Listed
    <3>1. /\ item'[u] = item[u] /\ item[u].cve \in Cve
          /\ \/ pc[u] = pc'[u] /\ old'[u] = old[u]
             \/ old'[u] = rows[item[u].cve]
      BY <1>1, Arrivals DEF Inv
    <3>2. Listed(rows[item[u].cve])
      BY <3>1 DEF Inv, OldListed
    <3> QED
      BY <2>2, <3>1, <3>2 DEF RowsStay
  <2> QED
    BY <2>1, <2>3, <2>4 DEF Inv
<1>2. CASE UNCHANGED vars
  BY <1>2 DEF Inv, vars, tables, local, TypeOK, TableType, ThreadType, KnownHaveRows,
              OldListed
<1> QED
  BY <1>1, <1>2

-----------------------------------------------------------------------------
(* Results. *)

\* In every reachable state every variable has its type; in particular an EPSS
\* sync updates only rows that exist.
THEOREM TypeCorrect == Spec => []TypeOK
<1>1. Inv => TypeOK
  BY DEF Inv
<1> QED
  BY <1>1, InitInv, StepInv, PTL DEF Spec

\* A step that lists a vulnerability leaves an open review item for it.
LEMMA ListingQueues ==
    ASSUME Inv, Next, NEW c \in Cve, Listed(rows'[c]), ~Listed(rows[c])
    PROVE  open'[c] > 0
<1> USE DEF Inv
<1>1. ASSUME rows' = rows PROVE FALSE
  BY <1>1
<1>2. ASSUME NEW t \in Thread, Update(t) \/ Insert(t) PROVE FALSE
  BY <1>2, EpssRows, ConstantsOK DEF Listed
<1>3. ASSUME NEW t \in Thread, NEW at, NEW then, Write(t, at, then),
             at \in {"write kev", "write nvd"}
      PROVE  open'[c] > 0
  <2> DEFINE n == item[t]
             d == n.cve
  <2>1. /\ d \in Cve /\ n \in Item
        /\ rows' = [rows EXCEPT ![d] = Merged(rows[d], n)]
    BY <1>3, WriteRow
  <2>2. c = d
    BY <2>1
  <2>3. n.kev
    BY <2>1, <2>2 DEF Listed, Merged, TypeOK, TableType
  <2>4. ~Listed(old[t])
    BY <1>3, <2>2 DEF OldListed, Write
  <2>5. Event(old[t], n)
    BY <2>3, <2>4 DEF Event, Listed
  <2>6. open' = Queued({c})
    BY <1>3, <2>2, <2>5 DEF Write
  <2> QED
    BY <2>6, QueuedType DEF TypeOK, TableType
<1> QED
  BY <1>1, <1>2, <1>3, RowSteps

\* However many syncs run at the same time, no vulnerability is marked as known to
\* be exploited without an open review item.
THEOREM AlwaysReviewed == Spec => KevReviewed
<1>1. ASSUME Inv, [Next]_vars
      PROVE  [\A c \in Cve : Listed(rows'[c]) /\ ~Listed(rows[c]) => open'[c] > 0]_vars
  BY <1>1, ListingQueues
<1> QED
  BY <1>1, InitInv, StepInv, PTL DEF Spec, KevReviewed

-----------------------------------------------------------------------------
(* Syncs that do not overlap. *)

\* At most one sync is running.
OneSync ==
    \A t, u \in Thread : pc[t] # "idle" /\ pc[u] # "idle" => t = u

\* What the thread is about to write is still what the tables call for.
Settled(t) ==
    /\ pc[t] \in Upserting =>
          item[t].priority
              = Priority(item[t].cvss, item[t].kev, item[t].epss, item[t].cve)
    /\ pc[t] \in Upserting \ {"look"} /\ Listed(rows[item[t].cve]) => item[t].kev
    /\ pc[t] \in {"write kev", "write nvd"} => old[t] = rows[item[t].cve]
    /\ pc[t] = "annotate" => open[item[t]] = 0 /\ item[t] \notin DOMAIN feed[t]

\* What is without a row is without a history.
NoneLogged == \A c \in Cve : rows[c] = None => logged[c] = None

Tables == HistoryCurrent /\ PriorityCurrent /\ OneOpenReview /\ NoneLogged

Agree == OneSync /\ Tables /\ \A t \in Thread : Settled(t)

\* Where nothing has to be settled.
Unsettled == Labels \ (Upserting \cup {"annotate"})

\* What is queued is queued once.
LEMMA QueuedOnce ==
    ASSUME OneOpenReview, NEW C PROVE \A c \in Cve : Queued(C)[c] <= 1
  BY DEF OneOpenReview, Queued

\* The empty database agrees with its syncs.
LEMMA InitAgree == Init => Agree
<1> SUFFICES ASSUME Init PROVE Agree
  OBVIOUS
<1>1. OneSync /\ \A t \in Thread : Settled(t)
  BY DEF Init, OneSync, Settled, Upserting
<1>2. Tables
  BY DEF Init, Tables, HistoryCurrent, PriorityCurrent, OneOpenReview, NoneLogged
<1> QED
  BY <1>1, <1>2 DEF Agree

\* While one thread syncs, the others are idle and stay so.
LEMMA OthersIdle ==
    ASSUME TypeOK, OneSync, Overlap = FALSE, NEW t \in Thread, Sync(t),
           NEW u \in Thread, u # t
    PROVE  pc'[u] = "idle"
<1>a. LocalType
  BY DEF TypeOK, LocalType
<1>1. CASE StartSync(t)
  BY <1>a, <1>1 DEF StartSync, Goto, LocalType
<1>2. CASE FetchKev(t) \/ FetchEpss(t) \/ FetchNvd(t) \/ EndFeed(t)
  BY <1>a, <1>2 DEF FetchKev, FetchEpss, FetchNvd, EndFeed, Fetch, Goto, LocalType,
                    OneSync
<1>3. CASE NextKev(t) \/ NextNvd(t) \/ Look(t)
  BY <1>a, <1>3 DEF NextKev, NextNvd, Look, Take, Goto, LocalType, OneSync
<1>4. CASE \/ Read(t, "read kev", "write kev") \/ Read(t, "read nvd", "write nvd")
           \/ Write(t, "write kev", "kev") \/ Write(t, "write nvd", "nvd")
  BY <1>a, <1>4 DEF Read, Write, Goto, LocalType, OneSync
<1>5. CASE Update(t) \/ Insert(t) \/ Note(t) \/ Annotate(t) \/ Abandon(t)
  BY <1>a, <1>5 DEF Update, Insert, Note, Annotate, Abandon, Goto, local, LocalType,
                    OneSync
<1> QED
  BY <1>1, <1>2, <1>3, <1>4, <1>5 DEF Sync

\* A step that neither writes nor gets anywhere where something has to be settled.
LEMMA QuietStep ==
    ASSUME TypeOK, Tables, NEW t \in Thread,
           \/ StartSync(t) \/ FetchKev(t) \/ FetchEpss(t) \/ FetchNvd(t)
           \/ EndFeed(t) \/ Abandon(t)
    PROVE  Tables' /\ Settled(t)'
<1>a. LocalType
  BY DEF TypeOK, LocalType
<1>1. UNCHANGED tables
  BY DEF StartSync, FetchKev, FetchEpss, FetchNvd, EndFeed, Abandon, tables
<1>2. pc'[t] \in Unsettled
  BY <1>a DEF StartSync, FetchKev, FetchEpss, FetchNvd, EndFeed, Abandon, Fetch,
              AfterFeed, Goto, LocalType, Unsettled, Labels, Upserting,
              NvdLabels
<1> QED
  BY <1>1, <1>2 DEF tables, Tables, HistoryCurrent, PriorityCurrent, OneOpenReview,
                    NoneLogged, Settled, Unsettled, Upserting

\* Tables that nobody writes stay as they are.
LEMMA SameTables ==
    ASSUME Tables, UNCHANGED tables PROVE Tables'
  BY DEF tables, Tables, HistoryCurrent, PriorityCurrent, OneOpenReview, NoneLogged

\* An entry is taken from KEV or NVD with the priority of what it says.
LEMMA TakeStep ==
    ASSUME TypeOK, Tables, NEW t \in Thread, NextKev(t) \/ NextNvd(t)
    PROVE  Tables' /\ Settled(t)'
<1>a. LocalType
  BY DEF TypeOK, LocalType
<1>1. Tables'
  BY SameTables DEF NextKev, NextNvd
<1>2. CASE NextKev(t)
  <2>1. PICK c : /\ pc' = [pc EXCEPT ![t] = "read kev"]
                 /\ item' = [item EXCEPT ![t] = Candidate(c, 0, TRUE, 0)]
    BY <1>2 DEF NextKev, Take, Goto
  <2> DEFINE n == Candidate(c, 0, TRUE, 0)
  <2>2. pc'[t] = "read kev" /\ item'[t] = n
    BY <1>a, <2>1 DEF LocalType
  <2>3. n.priority = Priority(n.cvss, n.kev, n.epss, n.cve) /\ n.kev
    BY DEF Candidate
  <2> HIDE DEF n
  <2> QED
    BY <1>1, <2>2, <2>3 DEF Settled, Upserting
<1>3. CASE NextNvd(t)
  <2>1. PICK c : /\ pc' = [pc EXCEPT ![t] = "look"]
                 /\ item' = [item EXCEPT ![t] = Candidate(c, feed[t][c], FALSE, 0)]
    BY <1>3 DEF NextNvd, Take, Goto
  <2> DEFINE n == Candidate(c, feed[t][c], FALSE, 0)
  <2>2. pc'[t] = "look" /\ item'[t] = n
    BY <1>a, <2>1 DEF LocalType
  <2>3. n.priority = Priority(n.cvss, n.kev, n.epss, n.cve)
    BY DEF Candidate
  <2> HIDE DEF n
  <2> QED
    BY <1>1, <2>2, <2>3 DEF Settled, Upserting
<1> QED
  BY <1>2, <1>3

\* An entry of NVD takes over the listing of the row there is.
LEMMA LookStep ==
    ASSUME TypeOK, Tables, NEW t \in Thread, Settled(t), Look(t)
    PROVE  Tables' /\ Settled(t)'
<1>a. LocalType /\ item[t] \in Item
  BY DEF TypeOK, LocalType, ThreadType, Look, Upserting
<1>1. Tables'
  BY SameTables DEF Look
<1> DEFINE c == item[t].cve
           r == rows[c]
           n == Candidate(c, item[t].cvss, r.kev, r.epss)
<1>2. /\ pc[t] = "look" /\ pc'[t] = "read nvd" /\ rows' = rows
      /\ r = None  => item'[t] = item[t]
      /\ r # None => item'[t] = n
  BY <1>a DEF Look, Goto, LocalType, tables
<1>3. CASE r = None
  BY <1>1, <1>2, <1>3 DEF Settled, Upserting, Listed
<1>4. CASE r # None
  <2>1. /\ n.priority = Priority(n.cvss, n.kev, n.epss, n.cve)
        /\ n.kev = r.kev /\ n.cve = c
    BY DEF Candidate
  <2> QED
    BY <1>1, <1>2, <1>4, <2>1 DEF Settled, Upserting, Listed
<1> QED
  BY <1>3, <1>4

\* The old row is the one there is.
LEMMA ReadStep ==
    ASSUME TypeOK, Tables, NEW t \in Thread, Settled(t),
           Read(t, "read kev", "write kev") \/ Read(t, "read nvd", "write nvd")
    PROVE  Tables' /\ Settled(t)'
<1>1. Tables'
  BY SameTables DEF Read
<1>2. /\ pc[t] \in {"read kev", "read nvd"} /\ pc'[t] \in {"write kev", "write nvd"}
      /\ item'[t] = item[t] /\ old'[t] = rows[item[t].cve] /\ rows' = rows
  BY DEF Read, Goto, TypeOK, tables
<1> QED
  BY <1>1, <1>2 DEF Settled, Upserting

\* An upsert from a row that is not stale leaves history, priority and queue in
\* agreement with it.
LEMMA WriteStep ==
    ASSUME TypeOK, Tables, NEW t \in Thread, Settled(t), NEW at, NEW then,
           Write(t, at, then),
           \/ at = "write kev" /\ then = "kev"
           \/ at = "write nvd" /\ then = "nvd"
    PROVE  Tables' /\ Settled(t)'
<1> DEFINE n == item[t]
           c == n.cve
           r == rows[c]
           m == Merged(r, n)
<1>1. /\ n \in Item /\ c \in Cve /\ m \in Row
      /\ rows' = [rows EXCEPT ![c] = m]
  BY WriteRow
<1>2. /\ old[t] = r
      /\ n.priority = Priority(n.cvss, n.kev, n.epss, c)
      /\ Listed(r) => n.kev
  BY DEF Write, Settled, Upserting
<1>3. /\ m.cvss = n.cvss /\ m.kev = n.kev /\ m.epss = n.epss
      /\ m.priority = n.priority
  <2>1. n.kev \in BOOLEAN
    BY <1>1 DEF Item
  <2>2. (n.kev \/ (r # None /\ r.kev)) = n.kev
    BY <1>2, <2>1 DEF Listed
  <2> QED
    BY <2>2 DEF Merged
<1>4. \/ /\ logged' = [logged EXCEPT ![c] = n.cvss]
         /\ open' = Queued({c})
      \/ r # None /\ r.cvss = n.cvss /\ UNCHANGED <<logged, open>>
  BY <1>2 DEF Write, Event
<1>5. /\ rows \in [Cve -> Row \cup {None}] /\ logged \in [Cve -> Cvss \cup {None}]
      /\ open \in [Cve -> Nat] /\ m # None /\ n.cvss # None
  BY <1>1, ConstantsOK DEF TypeOK, TableType, Item
<1> HIDE DEF m
<1>6. HistoryCurrent'
  <2> SUFFICES ASSUME NEW d \in Cve, rows'[d] # None
               PROVE  rows'[d].cvss = (IF logged'[d] = None THEN 0 ELSE logged'[d])
    BY DEF HistoryCurrent
  <2>1. CASE d = c
    <3>1. rows'[d].cvss = n.cvss
      BY <1>1, <1>3, <1>5, <2>1
    <3>2. CASE logged' = [logged EXCEPT ![c] = n.cvss]
      BY <1>5, <2>1, <3>1, <3>2
    <3>3. CASE r # None /\ r.cvss = n.cvss /\ UNCHANGED <<logged, open>>
      BY <2>1, <3>1, <3>3 DEF Tables, HistoryCurrent
    <3> QED
      BY <1>4, <3>2, <3>3
  <2>2. CASE d # c
    <3>1. rows'[d] = rows[d] /\ logged'[d] = logged[d]
      BY <1>1, <1>4, <1>5, <2>2
    <3> QED
      BY <3>1 DEF Tables, HistoryCurrent
  <2> QED
    BY <2>1, <2>2
<1>7. PriorityCurrent'
  <2> SUFFICES ASSUME NEW d \in Cve, rows'[d] # None
               PROVE  rows'[d].priority
                        = Priority(rows'[d].cvss, rows'[d].kev, rows'[d].epss, d)
    BY DEF PriorityCurrent
  <2>1. CASE d = c
    BY <1>1, <1>2, <1>3, <1>5, <2>1
  <2>2. CASE d # c
    <3>1. rows'[d] = rows[d]
      BY <1>1, <1>5, <2>2
    <3> QED
      BY <3>1 DEF Tables, PriorityCurrent
  <2> QED
    BY <2>1, <2>2
<1>8. OneOpenReview'
  <2>1. CASE open' = open
    BY <2>1 DEF Tables, OneOpenReview
  <2>2. CASE open' = Queued({c})
    BY <2>2, QueuedOnce DEF Tables, OneOpenReview
  <2> QED
    BY <1>4, <2>1, <2>2
<1>9. NoneLogged'
  <2> SUFFICES ASSUME NEW d \in Cve, rows'[d] = None PROVE logged'[d] = None
    BY DEF NoneLogged
  <2>1. d # c /\ rows[d] = None
    BY <1>1, <1>5
  <2> QED
    BY <1>4, <1>5, <2>1 DEF Tables, NoneLogged
<1>10. pc'[t] \in Unsettled
  BY DEF Write, Goto, TypeOK, Unsettled, Labels, Upserting, NvdLabels
<1> QED
  BY <1>6, <1>7, <1>8, <1>9, <1>10 DEF Tables, Settled, Unsettled, Upserting

\* EPSS computes the priority of known rows anew and knows that of new ones.
LEMMA EpssStep ==
    ASSUME Inv, Tables, NEW t \in Thread, Update(t) \/ Insert(t)
    PROVE  Tables' /\ Settled(t)'
<1>a. TypeOK /\ KnownHaveRows
  BY DEF Inv
<1>b. feed[t] \in Feed(Epss)
  BY <1>a DEF Update, Insert, TypeOK, ThreadType, NvdLabels
<1>1. UNCHANGED <<logged, open>> /\ pc'[t] \in Unsettled
  BY <1>a DEF Update, Insert, Goto, TypeOK, Unsettled, Labels, Upserting, NvdLabels
<1>2. ASSUME NEW c \in Cve
      PROVE  \/ rows'[c] = rows[c]
             \/ /\ rows[c] \in Row /\ rows'[c].cvss = rows[c].cvss
                /\ rows'[c] # None
                /\ rows'[c].priority
                     = Priority(rows'[c].cvss, rows'[c].kev, rows'[c].epss, c)
             \/ /\ rows[c] = None /\ rows'[c] # None /\ rows'[c].cvss = 0
                /\ rows'[c].priority
                     = Priority(rows'[c].cvss, rows'[c].kev, rows'[c].epss, c)
  <2>1. CASE Update(t)
    <3>1. rows'[c] = IF c \in DOMAIN feed[t] \cap have[t]
                       THEN Rescored(rows[c], feed[t][c], c) ELSE rows[c]
      BY <2>1 DEF Update
    <3>2. CASE c \in DOMAIN feed[t] \cap have[t]
      <4>1. rows[c] \in Row
        BY <1>a, <2>1, <3>2 DEF Update, KnownHaveRows, TypeOK, TableType
      <4>2. feed[t][c] \in Epss
        BY <1>b, <3>2, RestFeed
      <4>3. rows'[c] \in Row
        BY <3>1, <3>2, <4>1, <4>2, RescoredType
      <4>4. /\ rows'[c].cvss = rows[c].cvss
            /\ rows'[c].priority
                 = Priority(rows'[c].cvss, rows'[c].kev, rows'[c].epss, c)
        BY <3>1, <3>2, <4>1 DEF Rescored, Row
      <4> QED
        BY <4>1, <4>3, <4>4, ConstantsOK
    <3> QED
      BY <3>1, <3>2
  <2>2. CASE Insert(t)
    <3>1. rows'[c] = IF c \in DOMAIN feed[t] /\ rows[c] = None
                       THEN Newcomer(c, feed[t][c]) ELSE rows[c]
      BY <2>2 DEF Insert
    <3>2. CASE c \in DOMAIN feed[t] /\ rows[c] = None
      <4>1. feed[t][c] \in Epss
        BY <1>b, <3>2, RestFeed
      <4>2. rows'[c] \in Row
        BY <3>1, <3>2, <4>1, NewcomerType
      <4>3. /\ rows'[c].cvss = 0
            /\ rows'[c].priority
                 = Priority(rows'[c].cvss, rows'[c].kev, rows'[c].epss, c)
        BY <3>1, <3>2 DEF Newcomer
      <4> QED
        BY <3>2, <4>2, <4>3, ConstantsOK
    <3> QED
      BY <3>1, <3>2
  <2> QED
    BY <2>1, <2>2
<1>3. HistoryCurrent' /\ PriorityCurrent' /\ NoneLogged'
  <2> SUFFICES ASSUME NEW c \in Cve
               PROVE  /\ rows'[c] # None =>
                          /\ rows'[c].cvss
                               = (IF logged[c] = None THEN 0 ELSE logged[c])
                          /\ rows'[c].priority
                               = Priority(rows'[c].cvss, rows'[c].kev, rows'[c].epss, c)
                      /\ rows'[c] = None => logged[c] = None
    BY <1>1 DEF HistoryCurrent, PriorityCurrent, NoneLogged
  <2>1. /\ rows[c] # None => rows[c].cvss = (IF logged[c] = None THEN 0 ELSE logged[c])
        /\ rows[c] # None => rows[c].priority
                               = Priority(rows[c].cvss, rows[c].kev, rows[c].epss, c)
        /\ rows[c] = None => logged[c] = None
    BY DEF Tables, HistoryCurrent, PriorityCurrent, NoneLogged
  <2>2. rows[c] \in Row => rows[c] # None
    BY ConstantsOK
  <2> QED
    BY <1>2, <2>1, <2>2
<1>4. OneOpenReview'
  BY <1>1 DEF Tables, OneOpenReview
<1> QED
  BY <1>1, <1>3, <1>4 DEF Tables, Settled, Unsettled, Upserting

\* A newcomer whose review has still to be queued is no longer in the feed.
LEMMA NoteStep ==
    ASSUME TypeOK, Tables, NEW t \in Thread, Note(t)
    PROVE  Tables' /\ Settled(t)'
<1>a. LocalType /\ open \in [Cve -> Nat] /\ pc[t] = "note" /\ feed[t] \in Feed(Epss)
  BY DEF TypeOK, LocalType, TableType, Note, ThreadType, NvdLabels
<1>1. Tables' /\ open' = open
  BY SameTables DEF Note, tables
<1>2. CASE pc' = [pc EXCEPT ![t] = "fetch nvd"] \/ pc' = pc
  <2>1. pc'[t] \in Unsettled
    BY <1>a, <1>2 DEF LocalType, Unsettled, Labels, Upserting,
              NvdLabels
  <2> QED
    BY <1>1, <2>1 DEF Settled, Unsettled, Upserting
<1>3. ASSUME NEW c \in DOMAIN feed[t], ~(open[c] > 0),
             feed' = [feed EXCEPT ![t] = Restrict(@, DOMAIN @ \ {c})],
             item' = [item EXCEPT ![t] = c],
             pc' = [pc EXCEPT ![t] = "annotate"]
      PROVE  Settled(t)'
  <2>1. pc'[t] = "annotate" /\ item'[t] = c
        /\ feed'[t] = Restrict(feed[t], DOMAIN feed[t] \ {c})
    BY <1>a, <1>3 DEF LocalType
  <2>2. c \notin DOMAIN feed'[t]
    BY <2>1 DEF Restrict
  <2>3. open[c] = 0
    <3>1. c \in Cve
      BY <1>a, RestFeed
    <3> QED
      BY <1>a, <1>3, <3>1
  <2> QED
    BY <1>1, <2>1, <2>2, <2>3 DEF Settled, Upserting
<1> QED
  BY <1>1, <1>2, <1>3 DEF Note, Goto

\* It is queued once, and so is what is left of the feed.
LEMMA AnnotateStep ==
    ASSUME TypeOK, Tables, NEW t \in Thread, Settled(t), Annotate(t)
    PROVE  Tables' /\ Settled(t)'
<1> DEFINE c == item[t]
           q == Queued(DOMAIN feed[t])
<1>1. /\ open \in [Cve -> Nat] /\ c \in Cve
      /\ open[c] = 0 /\ c \notin DOMAIN feed[t]
  BY DEF TypeOK, TableType, ThreadType, Annotate, Settled
<1>2. q \in [Cve -> Nat] /\ q[c] = 0 /\ \A d \in Cve : q[d] <= 1
  BY <1>1, QueuedType DEF Queued, Tables, OneOpenReview
<1>3. open' = [q EXCEPT ![c] = q[c] + 1] /\ UNCHANGED <<rows, logged>>
  BY <1>1, <1>2 DEF Annotate
<1>4. pc'[t] \in Unsettled
  BY DEF Annotate, Goto, TypeOK, Unsettled, Labels, Upserting, NvdLabels
<1> HIDE DEF q
<1>5. OneOpenReview'
  BY <1>2, <1>3 DEF OneOpenReview
<1>6. HistoryCurrent' /\ PriorityCurrent' /\ NoneLogged'
  BY <1>3 DEF Tables, HistoryCurrent, PriorityCurrent, NoneLogged
<1> QED
  BY <1>4, <1>5, <1>6 DEF Tables, Settled, Unsettled, Upserting

\* A reviewer closes items, and never the one that is about to be queued.
LEMMA DecideStep ==
    ASSUME TypeOK, Agree, NEW c \in Cve, Decide(c)
    PROVE  Agree'
<1>1. /\ open \in [Cve -> Nat] /\ open[c] > 0
      /\ open' = [open EXCEPT ![c] = open[c] - 1]
      /\ UNCHANGED <<rows, logged, pc, feed, item, old>>
  BY DEF Decide, TypeOK, TableType, local
<1>2. Tables'
  BY <1>1 DEF Agree, Tables, HistoryCurrent, PriorityCurrent, OneOpenReview, NoneLogged
<1>3. ASSUME NEW t \in Thread PROVE Settled(t)'
  <2>1. Settled(t)
    BY DEF Agree
  <2>2. pc[t] = "annotate" => open'[item[t]] = 0
    BY <1>1, <2>1 DEF Settled, TypeOK, ThreadType
  <2> QED
    BY <1>1, <2>1, <2>2 DEF Settled
<1>4. OneSync'
  BY <1>1 DEF Agree, OneSync
<1> QED
  BY <1>2, <1>3, <1>4 DEF Agree

\* While syncs do not overlap, the tables agree with each other.
LEMMA StepAgree ==
    ASSUME Overlap = FALSE
    PROVE  Inv /\ Agree /\ [Next]_vars => Agree'
<1> SUFFICES ASSUME Inv, Agree, [Next]_vars PROVE Agree'
  OBVIOUS
<1>a. TypeOK /\ Tables /\ OneSync /\ \A t \in Thread : Settled(t)
  BY DEF Inv, Agree
<1>1. ASSUME NEW t \in Thread, Sync(t) PROVE Agree'
  <2>1. Tables' /\ Settled(t)'
    BY <1>a, <1>1, QuietStep, TakeStep, LookStep, ReadStep, WriteStep, EpssStep,
       NoteStep, AnnotateStep DEF Sync
  <2>2. \A u \in Thread : u # t => pc'[u] = "idle"
    BY <1>a, <1>1, OthersIdle
  <2>3. OneSync'
    BY <2>2 DEF OneSync
  <2>4. \A u \in Thread : Settled(u)'
    BY <2>1, <2>2 DEF Settled, Upserting
  <2> QED
    BY <2>1, <2>3, <2>4 DEF Agree
<1>2. ASSUME NEW c \in Cve, Decide(c) PROVE Agree'
  BY <1>a, <1>2, DecideStep
<1>3. CASE UNCHANGED vars
  BY <1>3 DEF Agree, Tables, HistoryCurrent, PriorityCurrent, OneOpenReview,
              NoneLogged, OneSync, Settled, vars, tables, local
<1> QED
  BY <1>1, <1>2, <1>3 DEF Next

\* If syncs do not overlap, the last entry of a history is the score of the row.
THEOREM AlwaysLogged ==
    ASSUME Overlap = FALSE PROVE Spec => []HistoryCurrent
<1>1. Agree => HistoryCurrent
  BY DEF Agree, Tables
<1>2. Inv /\ Agree /\ [Next]_vars => Agree'
  BY StepAgree
<1> QED
  BY <1>1, <1>2, InitInv, StepInv, InitAgree, PTL DEF Spec

\* If syncs do not overlap, the order of the list is that of what the rows say.
THEOREM AlwaysOrdered ==
    ASSUME Overlap = FALSE PROVE Spec => []PriorityCurrent
<1>1. Agree => PriorityCurrent
  BY DEF Agree, Tables
<1>2. Inv /\ Agree /\ [Next]_vars => Agree'
  BY StepAgree
<1> QED
  BY <1>1, <1>2, InitInv, StepInv, InitAgree, PTL DEF Spec

\* If syncs do not overlap, a vulnerability has at most one open review item.
THEOREM NeverTwice ==
    ASSUME Overlap = FALSE PROVE Spec => []OneOpenReview
<1>1. Agree => OneOpenReview
  BY DEF Agree, Tables
<1>2. Inv /\ Agree /\ [Next]_vars => Agree'
  BY StepAgree
<1> QED
  BY <1>1, <1>2, InitInv, StepInv, InitAgree, PTL DEF Spec

=============================================================================
