---------------------------- MODULE LeasesProofs ----------------------------
(***************************************************************************)
(* Proofs about Leases, for any files, labs, sessions and ports.  The        *)
(* argument: versions are immutable, so that a lab's row never changes once  *)
(* it is there, and whatever is read of the lab, from the table or from a    *)
(* file, says the same of its text and its time.                            *)
(***************************************************************************)
EXTENDS Leases, TLAPS

\* A row of the catalogue says what a draft of its lab says.
From(l, row) == \E m \in Drafts : m.lab = l /\ Outcome(m) = "row" /\ row = RowOf(m)

\* So does every row that is there or about to be; and none is lost by a commit.
Sourced ==
    \A l \in Lab :
        /\ labs[l] # None  => From(l, labs[l]) /\ batch[l] # None
        /\ batch[l] # None => From(l, batch[l])

\* A seeding inserts a lab at most once for each file it has read.
InsertsRead == api = "seeding" => \A l \in Lab : inserts[l] <= read

\* The row and the lease of one session, which may have been set apart.
Sound(row, l, apart) ==
    row # None =>
        /\ labs[row.lab] # None
        /\ row.extended = 0 => row.left <= labs[row.lab].ttl
        /\ l # None => l.content = labs[row.lab].content
        /\ (~apart /\ row.status = "active" /\ row.left > 0) =>
              /\ l # None
              /\ l.left >= row.left
              /\ l.port = row.port

SessionsSound == \A s \in Session : Sound(rows[s], lease[s], s \in parted)

Inv == TypeOK /\ Sourced /\ InsertsRead /\ SessionsSound

-----------------------------------------------------------------------------
(* Manifests and rows. *)

\* Two rows of one lab are the same.
LEMMA OneRow ==
    ASSUME NEW l \in Lab, NEW a, NEW b, From(l, a), From(l, b)
    PROVE  a = b
<1>1. PICK m \in Drafts : m.lab = l /\ a = RowOf(m)
  BY DEF From
<1>2. PICK n \in Drafts : n.lab = l /\ b = RowOf(n)
  BY DEF From
<1>3. m.content = n.content /\ m.ttl = n.ttl
  BY <1>1, <1>2, Immutable
<1> QED
  BY <1>1, <1>2, <1>3 DEF RowOf

\* A manifest that gives a row names a lab and a time.
LEMMA RowGiven ==
    ASSUME NEW m, m \in Drafts \cup {None}, Outcome(m) = "row"
    PROVE  /\ m \in Drafts
           /\ m.lab \in Lab
           /\ m.ttl \in Int
           /\ RowOf(m) \in LabRow
           /\ RowOf(m) # None
<1>1. m # None /\ m.yaml = "parses" /\ m.lab # None /\ m.ttl # None
  <2>1. m # None /\ m \in Manifest
    BY CatalogueOK DEF Outcome
  <2>2. m.yaml \in {"parses", "broken", "empty"}
    BY <2>1 DEF Manifest
  <2> QED
    BY <2>1, <2>2 DEF Outcome
<1>2. m \in Drafts /\ m \in Manifest
  BY <1>1, CatalogueOK
<1>3. m.lab \in Lab /\ m.ttl \in Int /\ m.content \in Content
  BY <1>1, <1>2 DEF Manifest
<1>4. RowOf(m) \in LabRow
  BY <1>3, CatalogueOK DEF RowOf, LabRow, Min2
<1> QED
  BY <1>2, <1>3, <1>4, CatalogueOK

\* A manifest that is found and may run says of its lab what the row says, and its
\* time is no shorter.
LEMMA FoundAgrees ==
    ASSUME Inv, NEW l \in Lab, labs[l] # None, NEW m \in Found(l), Runs(m)
    PROVE  /\ m.content \in Content
           /\ m.ttl \in Int
           /\ labs[l].ttl \in Int
           /\ m.content = labs[l].content
           /\ labs[l].ttl <= m.ttl
<1>1. m \in Drafts /\ m.lab = l /\ m \in Manifest
  BY CatalogueOK DEF Found, Inv, TypeOK, CatalogueTypeOK
<1>2. m.ttl # None /\ m.ttl \in 1 .. MaxTtl
  BY DEF Runs, Checks
<1>3. PICK n \in Drafts : n.lab = l /\ labs[l] = RowOf(n)
  BY DEF Inv, Sourced, From
<1>4. m.content = n.content /\ m.ttl = n.ttl
  BY <1>1, <1>3, Immutable
<1>5. m.content \in Content /\ m.ttl \in Int
  BY <1>1, <1>2, CatalogueOK DEF Manifest
<1>6. labs[l].content = m.content /\ labs[l].ttl = Min2(MaxTtl, m.ttl)
  BY <1>3, <1>4 DEF RowOf
<1> QED
  BY <1>5, <1>6, CatalogueOK DEF Min2

-----------------------------------------------------------------------------
(* The catalogue. *)

\* While the catalogue keeps the rows it has, sessions stay sound.
LEMMA SessionsStay ==
    ASSUME Inv, UNCHANGED sessions, \A l \in Lab : labs[l] # None => labs'[l] = labs[l]
    PROVE  SessionsSound'
<1> SUFFICES ASSUME NEW s \in Session
             PROVE  Sound(rows[s], lease[s], s \in parted)'
  BY DEF SessionsSound
<1>1. rows' = rows /\ lease' = lease /\ parted' = parted
  BY DEF sessions
<1>2. Sound(rows[s], lease[s], s \in parted)
  BY DEF Inv, SessionsSound
<1>3. rows[s] # None => rows[s].lab \in Lab
  BY DEF Inv, TypeOK, Row
<1> QED
  BY <1>1, <1>2, <1>3 DEF Sound

LEMMA EditKeeps ==
    ASSUME Inv, UNCHANGED sessions, NEW f \in File, NEW m \in Drafts \cup {None}, Edit(f, m)
    PROVE  Inv'
<1>1. /\ disk' = [disk EXCEPT ![f] = m] /\ edits' = edits + 1 /\ edits < MaxEdits
      /\ stale' = TRUE
      /\ labs' = labs /\ api' = api /\ read' = read /\ batch' = batch
      /\ inserts' = inserts /\ crashes' = crashes
  BY DEF Edit, seeding
<1>2. TypeOK'
  <2>1. disk' \in [File -> Drafts \cup {None}]
    BY <1>1 DEF Inv, TypeOK, CatalogueTypeOK
  <2>2. edits' \in 0 .. MaxEdits /\ stale' \in BOOLEAN
    BY <1>1, CatalogueOK DEF Inv, TypeOK, CatalogueTypeOK
  <2>3. CatalogueTypeOK'
    BY <1>1, <2>1, <2>2 DEF Inv, TypeOK, CatalogueTypeOK
  <2> QED
    BY <2>3 DEF Inv, TypeOK, sessions
<1>3. Sourced' /\ InsertsRead'
  BY <1>1 DEF Inv, Sourced, InsertsRead, From
<1>4. SessionsSound'
  BY <1>1, SessionsStay
<1> QED
  BY <1>2, <1>3, <1>4 DEF Inv

LEMMA BootKeeps ==
    ASSUME Inv, UNCHANGED sessions, Boot
    PROVE  Inv'
<1>1. Len(Files) \in Nat
  BY CatalogueOK
<1>2. TypeOK'
  <2>1. inserts' \in [Lab -> 0 .. Len(Files)] /\ read' \in 0 .. Len(Files)
    BY <1>1 DEF Boot
  <2>2. CatalogueTypeOK'
    BY <2>1 DEF Inv, TypeOK, CatalogueTypeOK, Boot
  <2> QED
    BY <2>2 DEF Inv, TypeOK, sessions
<1>3. Sourced' /\ InsertsRead'
  BY DEF Inv, Sourced, InsertsRead, From, Boot
<1>4. SessionsSound'
  BY SessionsStay DEF Boot
<1> QED
  BY <1>2, <1>3, <1>4 DEF Inv

LEMMA SeedFileKeeps ==
    ASSUME Inv, UNCHANGED sessions, SeedFile
    PROVE  Inv'
<1> DEFINE m == disk[Files[read + 1]]
<1>0. TypeOK /\ Sourced /\ InsertsRead /\ Len(Files) \in Nat
  BY CatalogueOK DEF Inv
<1>1. read \in Nat /\ read < Len(Files) /\ read + 1 \in DOMAIN Files
  BY <1>0, CatalogueOK DEF TypeOK, CatalogueTypeOK, SeedFile
<1>2. m \in Drafts \cup {None}
  <2>1. Files[read + 1] \in File
    BY <1>1 DEF File
  <2> QED
    BY <1>0, <2>1 DEF TypeOK, CatalogueTypeOK
<1>3. labs' = labs /\ UNCHANGED <<disk, edits, crashes, stale>>
  BY DEF SeedFile
<1>4. SessionsSound'
  BY <1>3, SessionsStay
<1>5. CASE Outcome(m) = "raise"
  <2>1. api' = "down" /\ read' = 0 /\ UNCHANGED <<batch, inserts>>
    BY <1>5 DEF SeedFile
  <2>2. TypeOK'
    BY <1>0, <1>3, <2>1 DEF TypeOK, CatalogueTypeOK, sessions
  <2>3. Sourced' /\ InsertsRead'
    BY <1>0, <1>3, <2>1 DEF Sourced, InsertsRead, From
  <2> QED
    BY <1>4, <2>2, <2>3 DEF Inv
<1>6. CASE Outcome(m) # "raise" /\ Outcome(m) # "row"
  <2>1. read' = read + 1 /\ UNCHANGED <<api, batch, inserts>>
    BY <1>6 DEF SeedFile
  <2>2. TypeOK'
    BY <1>0, <1>1, <1>3, <2>1 DEF TypeOK, CatalogueTypeOK, sessions
  <2>3. Sourced'
    BY <1>0, <1>3, <2>1 DEF Sourced, From
  <2>4. InsertsRead'
    BY <1>0, <1>1, <2>1 DEF InsertsRead, TypeOK, CatalogueTypeOK
  <2> QED
    BY <1>4, <2>2, <2>3, <2>4 DEF Inv
<1>7. CASE Outcome(m) = "row"
  <2>1. /\ api = "seeding" /\ api' = api /\ read' = read + 1
        /\ batch' = [batch EXCEPT ![m.lab] = RowOf(m)]
        /\ inserts' = [inserts EXCEPT ![m.lab] = @ + Inserts(m.lab)]
        /\ Inserts(m.lab) \in {0, 1}
    BY <1>7 DEF SeedFile, Inserts
  <2>2. m \in Drafts /\ m.lab \in Lab /\ RowOf(m) \in LabRow /\ RowOf(m) # None
    BY <1>2, <1>7, RowGiven
  <2>3. \A l \in Lab : inserts[l] \in 0 .. Len(Files) /\ inserts[l] <= read
    BY <1>0, <2>1 DEF TypeOK, CatalogueTypeOK, InsertsRead
  <2>4. inserts' \in [Lab -> 0 .. Len(Files)] /\ \A l \in Lab : inserts'[l] <= read + 1
    <3>1. \A l \in Lab : \A n \in {0, 1} :
             inserts[l] + n \in 0 .. Len(Files) /\ inserts[l] + n <= read + 1
      BY <1>0, <1>1, <2>3
    <3> QED
      BY <1>0, <1>1, <2>1, <2>2, <2>3, <3>1 DEF TypeOK, CatalogueTypeOK
  <2>5. TypeOK'
    BY <1>0, <1>1, <1>3, <2>1, <2>2, <2>4 DEF TypeOK, CatalogueTypeOK, sessions
  <2>6. InsertsRead'
    BY <2>1, <2>4 DEF InsertsRead
  <2>7. From(m.lab, RowOf(m))
    BY <1>7, <2>2 DEF From
  <2>8. Sourced'
    <3> SUFFICES ASSUME NEW l \in Lab
                 PROVE  /\ labs[l] # None => From(l, labs[l]) /\ batch'[l] # None
                        /\ batch'[l] # None => From(l, batch'[l])
      BY <1>3 DEF Sourced, From
    <3>1. batch'[l] = IF l = m.lab THEN RowOf(m) ELSE batch[l]
      BY <1>0, <2>1 DEF TypeOK, CatalogueTypeOK
    <3> QED
      BY <1>0, <2>2, <2>7, <3>1 DEF Sourced
  <2> QED
    BY <1>4, <2>5, <2>6, <2>8 DEF Inv
<1> QED
  BY <1>5, <1>6, <1>7

\* A commit gives a lab that has a row the same row.
LEMMA SeedCommitKeeps ==
    ASSUME Inv, UNCHANGED sessions, SeedCommit
    PROVE  Inv'
<1>0. TypeOK /\ Sourced /\ Len(Files) \in Nat
  BY CatalogueOK DEF Inv
<1>1. /\ labs' = batch \/ labs' = labs
      /\ api' \in {"up", "down"} /\ read' = 0
      /\ UNCHANGED <<disk, batch, inserts, edits, crashes, stale>>
  BY DEF SeedCommit, Committed
<1>2. TypeOK'
  BY <1>0, <1>1 DEF TypeOK, CatalogueTypeOK, sessions
<1>3. Sourced'
  BY <1>0, <1>1 DEF Sourced, From
<1>4. InsertsRead'
  BY <1>1 DEF InsertsRead
<1>5. \A l \in Lab : labs[l] # None => labs'[l] = labs[l]
  <2> SUFFICES ASSUME NEW l \in Lab, labs[l] # None
               PROVE  labs'[l] = labs[l]
    OBVIOUS
  <2>1. batch[l] = labs[l]
    BY <1>0, OneRow DEF Sourced
  <2> QED
    BY <1>1, <2>1
<1>6. SessionsSound'
  BY <1>5, SessionsStay
<1> QED
  BY <1>2, <1>3, <1>4, <1>6 DEF Inv

LEMMA CrashKeeps ==
    ASSUME Inv, UNCHANGED sessions, Crash
    PROVE  Inv'
<1>1. /\ api' = "down" /\ read' = 0 /\ crashes' = crashes + 1 /\ crashes < MaxCrashes
      /\ UNCHANGED <<disk, labs, batch, inserts, edits, stale>>
  BY DEF Crash
<1>2. TypeOK'
  BY <1>1, CatalogueOK DEF Inv, TypeOK, CatalogueTypeOK, sessions
<1>3. Sourced' /\ InsertsRead'
  BY <1>1 DEF Inv, Sourced, InsertsRead, From
<1>4. SessionsSound'
  BY <1>1, SessionsStay
<1> QED
  BY <1>2, <1>3, <1>4 DEF Inv

LEMMA CatalogueKeeps ==
    ASSUME Inv, CatalogueNext, UNCHANGED sessions
    PROVE  Inv'
BY EditKeeps, BootKeeps, SeedFileKeeps, SeedCommitKeeps, CrashKeeps DEF CatalogueNext

-----------------------------------------------------------------------------
(* The sessions. *)

\* A request concerns one session, whose row and lease it leaves sound.
LEMMA RequestKeeps ==
    ASSUME Inv, UNCHANGED catalogue, NEW s \in Session,
           rows' = [rows EXCEPT ![s] = rows'[s]], rows'[s] \in Row \cup {None},
           lease' = [lease EXCEPT ![s] = lease'[s]], lease'[s] \in Lease \cup {None},
           used' \subseteq Session, parted' \subseteq Session,
           parted' \ {s} = parted \ {s},
           Sound(rows'[s], lease'[s], s \in parted')
    PROVE  Inv'
<1>0. TypeOK /\ Sourced /\ InsertsRead /\ SessionsSound
  BY DEF Inv
<1>1. /\ labs' = labs /\ api' = api /\ read' = read /\ batch' = batch
      /\ inserts' = inserts /\ disk' = disk /\ edits' = edits /\ crashes' = crashes
      /\ stale' = stale
  BY DEF catalogue, seeding
<1>2. TypeOK'
  <2>1. CatalogueTypeOK'
    BY <1>0, <1>1 DEF TypeOK, CatalogueTypeOK
  <2>2. /\ rows' \in [Session -> Row \cup {None}]
        /\ lease' \in [Session -> Lease \cup {None}]
    BY <1>0 DEF TypeOK
  <2> QED
    BY <2>1, <2>2 DEF TypeOK
<1>3. Sourced' /\ InsertsRead'
  BY <1>0, <1>1 DEF Sourced, InsertsRead, From
<1>4. SessionsSound'
  <2> SUFFICES ASSUME NEW z \in Session
               PROVE  Sound(rows[z], lease[z], z \in parted)'
    BY DEF SessionsSound
  <2>1. CASE z = s
    BY <1>1, <2>1 DEF Sound
  <2>2. CASE z # s
    <3>1. rows'[z] = rows[z] /\ lease'[z] = lease[z] /\ (z \in parted' <=> z \in parted)
      BY <1>0, <2>2 DEF TypeOK
    <3>2. Sound(rows[z], lease[z], z \in parted)
      BY <1>0 DEF SessionsSound
    <3> QED
      BY <1>1, <3>1, <3>2 DEF Sound
  <2> QED
    BY <2>1, <2>2
<1> QED
  BY <1>2, <1>3, <1>4 DEF Inv

\* How a session is shown.
LEMMA ShownActive ==
    ASSUME TypeOK, NEW s \in Session, rows[s] # None
    PROVE  /\ rows[s] \in Row
           /\ Shown(s) = "active" <=> rows[s].status = "active" /\ rows[s].left > 0
<1>1. rows[s] \in Row
  BY DEF TypeOK
<1>2. rows[s].status \in {"active", "destroyed"} /\ rows[s].left \in Int
  BY <1>1 DEF Row
<1> QED
  BY <1>1, <1>2 DEF Shown

LEMMA LaunchKeeps ==
    ASSUME Inv, NEW s \in Session, NEW l \in Lab, NEW mode \in {"guided", "assessment"},
           NEW m \in Found(l), NEW p \in Port, Launch(s, l, mode, m, p)
    PROVE  Inv'
<1> DEFINE row == [lab |-> l, mode |-> mode, left |-> Ttl(l, mode),
                   status |-> "active", port |-> p, extended |-> 0]
           env == Provisioned(m, Ttl(l, mode), p)
<1>0. TypeOK
  BY DEF Inv
<1>1. labs[l] # None /\ Runs(m) /\ UNCHANGED catalogue /\ parted' = parted
      /\ used' = used \cup {s}
      /\ rows' = [rows EXCEPT ![s] = row] /\ lease' = [lease EXCEPT ![s] = env]
  BY DEF Launch
<1>2. /\ m.content \in Content /\ m.ttl \in Int /\ labs[l].ttl \in Int
      /\ m.content = labs[l].content
      /\ labs[l].ttl <= m.ttl
  BY <1>1, FoundAgrees
<1>3. Ttl(l, mode) \in Int /\ Ttl(l, mode) <= labs[l].ttl
  BY <1>2, LeasesOK, CatalogueOK DEF Ttl, Min2
<1>4. row \in Row /\ row # None
  BY <1>3, LeasesOK DEF Row
<1>5. env \in Lease /\ env # None /\ env.left = Ttl(l, mode)
      /\ env.port = p /\ env.content = m.content
  BY <1>2, <1>3, LeasesOK DEF Lease, Provisioned, Min2
<1>6. rows'[s] = row /\ lease'[s] = env
  BY <1>0, <1>1 DEF TypeOK
<1>7. row.lab = l /\ row.left = Ttl(l, mode) /\ row.port = p
  OBVIOUS
<1> HIDE DEF row, env
<1>8. Sound(row, env, s \in parted')
  BY <1>1, <1>2, <1>3, <1>5, <1>7 DEF Sound
<1> QED
  BY <1>0, <1>1, <1>4, <1>5, <1>6, <1>8, RequestKeeps DEF TypeOK

LEMMA LaunchRefusedKeeps ==
    ASSUME Inv, NEW s \in Session, NEW l \in Lab, LaunchRefused(s, l)
    PROVE  Inv'
<1>0. TypeOK
  BY DEF Inv
<1>1. UNCHANGED catalogue /\ rows' = rows /\ lease' = lease /\ parted' = parted
      /\ used' = used \cup {s}
  BY DEF LaunchRefused
<1>2. Sound(rows[s], lease[s], s \in parted)
  BY DEF Inv, SessionsSound
<1> QED
  BY <1>0, <1>1, <1>2, RequestKeeps DEF TypeOK

LEMMA ExtendKeeps ==
    ASSUME Inv, NEW s \in Session, Extend(s)
    PROVE  Inv'
<1> DEFINE row == [rows[s] EXCEPT !.left = @ + 1, !.extended = @ + 1]
           env == [lease[s] EXCEPT !.left = @ + 1]
<1>0. TypeOK
  BY DEF Inv
<1>1. /\ UNCHANGED catalogue /\ used' = used
      /\ rows[s] # None /\ rows[s].status = "active"
      /\ rows' = [rows EXCEPT ![s] = row]
      /\ lease' = Touched(s)
      /\ parted' = IF Shown(s) = "active" THEN parted ELSE parted \cup {s}
  BY DEF Extend
<1>2. rows[s] \in Row
      /\ (Shown(s) = "active" <=> rows[s].status = "active" /\ rows[s].left > 0)
  BY <1>0, <1>1, ShownActive
<1>3. /\ row \in Row
      /\ row.lab = rows[s].lab /\ row.port = rows[s].port
      /\ row.left = rows[s].left + 1
      /\ row.extended = rows[s].extended + 1 /\ row.extended # 0
      /\ rows[s].left \in Int
  <2>1. rows[s].left \in Int /\ rows[s].extended \in Nat
    BY <1>2 DEF Row
  <2>2. rows[s].left + 1 \in Int /\ rows[s].extended + 1 \in Nat
        /\ rows[s].extended + 1 # 0
    BY <2>1
  <2>3. PICK a \in Int, b \in Nat : a = rows[s].left + 1 /\ b = rows[s].extended + 1
    BY <2>2
  <2>4. row = [rows[s] EXCEPT !.left = a, !.extended = b]
    BY <2>3
  <2> HIDE DEF row
  <2>5. /\ row \in Row /\ row.left = a /\ row.extended = b
        /\ row.lab = rows[s].lab /\ row.port = rows[s].port
    BY <1>2, <2>4 DEF Row
  <2> QED
    BY <2>1, <2>2, <2>3, <2>5
<1>4. rows'[s] = row
  BY <1>0, <1>1 DEF TypeOK
<1>5. Sound(rows[s], lease[s], s \in parted)
  BY DEF Inv, SessionsSound
<1>6. CASE lease[s] = None
  <2>1. lease' = lease
    BY <1>1, <1>6 DEF Touched
  <2>2. Shown(s) = "active" => s \in parted
    BY <1>1, <1>2, <1>5, <1>6 DEF Sound
  <2>3. s \in parted'
    BY <1>1, <2>2
  <2> HIDE DEF row
  <2>4. Sound(row, lease'[s], s \in parted')
    BY <1>1, <1>3, <1>5, <1>6, <2>1, <2>3 DEF Sound, catalogue, seeding
  <2> QED
    BY <1>0, <1>1, <1>3, <1>4, <2>1, <2>4, RequestKeeps DEF TypeOK
<1>7. CASE lease[s] # None
  <2>1. lease' = [lease EXCEPT ![s] = env]
    BY <1>1, <1>7 DEF Touched
  <2>2. lease[s] \in Lease
    BY <1>0, <1>7 DEF TypeOK
  <2>3. env \in Lease /\ env # None /\ env.content = lease[s].content
        /\ env.port = lease[s].port /\ env.left = lease[s].left + 1
        /\ lease[s].left \in Int
    BY <2>2, LeasesOK DEF Lease
  <2>4. lease'[s] = env
    BY <1>0, <2>1 DEF TypeOK
  <2>5. s \notin parted' => s \notin parted /\ rows[s].left > 0
    BY <1>1, <1>2
  <2> HIDE DEF row, env
  <2>6. Sound(row, env, s \in parted')
    BY <1>1, <1>3, <1>5, <1>7, <2>3, <2>5 DEF Sound
  <2> QED
    BY <1>0, <1>1, <1>3, <1>4, <2>1, <2>3, <2>4, <2>6, RequestKeeps DEF TypeOK
<1> QED
  BY <1>6, <1>7

LEMMA ResetKeeps ==
    ASSUME Inv, NEW s \in Session, NEW p \in Port, rows[s] # None,
           NEW m \in Found(rows[s].lab), Reset(s, m, p)
    PROVE  Inv'
<1> DEFINE l == rows[s].lab
           row == [rows[s] EXCEPT !.status = "active", !.port = p]
           env == Provisioned(m, labs[l].ttl, p)
<1>0. TypeOK
  BY DEF Inv
<1>1. /\ Runs(m) /\ UNCHANGED catalogue /\ used' = used
      /\ rows' = [rows EXCEPT ![s] = row] /\ lease' = [lease EXCEPT ![s] = env]
      /\ parted' = IF rows[s].extended = 0 THEN parted \ {s} ELSE parted \cup {s}
  BY DEF Reset
<1>2. rows[s] \in Row /\ l \in Lab
  BY <1>0 DEF TypeOK, Row
<1>3. Sound(rows[s], lease[s], s \in parted)
  BY DEF Inv, SessionsSound
<1>4. labs[l] # None
  BY <1>3 DEF Sound
<1>5. /\ m.content \in Content /\ m.ttl \in Int /\ labs[l].ttl \in Int
      /\ m.content = labs[l].content
      /\ labs[l].ttl <= m.ttl
  BY <1>1, <1>2, <1>4, FoundAgrees
<1>6. /\ row \in Row
      /\ row.lab = l /\ row.port = p /\ row.left = rows[s].left
      /\ row.extended = rows[s].extended
      /\ rows[s].left \in Int /\ rows[s].extended \in Nat
  BY <1>2 DEF Row
<1>7. env \in Lease /\ env # None /\ env.left = labs[l].ttl
      /\ env.port = p /\ env.content = m.content
  BY <1>5, LeasesOK DEF Lease, Provisioned, Min2
<1>8. rows'[s] = row /\ lease'[s] = env
  BY <1>0, <1>1 DEF TypeOK
<1>9. s \notin parted' => rows[s].extended = 0
  BY <1>1
<1> HIDE DEF row, env
<1>10. Sound(row, env, s \in parted')
  BY <1>3, <1>4, <1>5, <1>6, <1>7, <1>9 DEF Sound
<1> QED
  BY <1>0, <1>1, <1>6, <1>7, <1>8, <1>10, RequestKeeps DEF TypeOK

LEMMA ResetRefusedKeeps ==
    ASSUME Inv, NEW s \in Session, ResetRefused(s)
    PROVE  Inv'
<1>0. TypeOK
  BY DEF Inv
<1>1. /\ UNCHANGED catalogue /\ used' = used /\ rows' = rows
      /\ lease' = [lease EXCEPT ![s] = None] /\ parted' = parted \cup {s}
  BY DEF ResetRefused
<1>2. lease'[s] = None
  BY <1>0, <1>1 DEF TypeOK
<1>3. Sound(rows[s], lease[s], s \in parted)
  BY DEF Inv, SessionsSound
<1>4. Sound(rows[s], None, s \in parted')
  BY <1>1, <1>3 DEF Sound
<1> QED
  BY <1>0, <1>1, <1>2, <1>4, RequestKeeps DEF TypeOK

LEMMA DestroyKeeps ==
    ASSUME Inv, NEW s \in Session, Destroy(s)
    PROVE  Inv'
<1> DEFINE row == [rows[s] EXCEPT !.status = "destroyed"]
<1>0. TypeOK
  BY DEF Inv
<1>1. /\ UNCHANGED catalogue /\ used' = used /\ parted' = parted /\ rows[s] # None
      /\ rows' = [rows EXCEPT ![s] = row] /\ lease' = [lease EXCEPT ![s] = None]
  BY DEF Destroy
<1>2. rows[s] \in Row
  BY <1>0, <1>1 DEF TypeOK
<1>3. /\ row \in Row /\ row.status = "destroyed" /\ row.lab = rows[s].lab
      /\ row.left = rows[s].left /\ row.extended = rows[s].extended
  BY <1>2 DEF Row
<1>4. rows'[s] = row /\ lease'[s] = None
  BY <1>0, <1>1 DEF TypeOK
<1>5. Sound(rows[s], lease[s], s \in parted)
  BY DEF Inv, SessionsSound
<1> HIDE DEF row
<1>6. Sound(row, None, s \in parted')
  BY <1>1, <1>3, <1>5 DEF Sound
<1> QED
  BY <1>0, <1>1, <1>3, <1>4, <1>6, RequestKeeps DEF TypeOK

\* The lease that the reaper ends is over, and the row with it.
LEMMA ReapKeeps ==
    ASSUME Inv, NEW s \in Session, Reap(s)
    PROVE  Inv'
<1>0. TypeOK
  BY DEF Inv
<1>1. /\ UNCHANGED catalogue /\ used' = used /\ parted' = parted /\ rows' = rows
      /\ lease[s] # None /\ lease[s].left <= 0 /\ lease' = [lease EXCEPT ![s] = None]
  BY DEF Reap
<1>2. lease'[s] = None
  BY <1>0, <1>1 DEF TypeOK
<1>3. Sound(rows[s], lease[s], s \in parted)
  BY DEF Inv, SessionsSound
<1>4. lease[s].left \in Int /\ (rows[s] # None => rows[s].left \in Int)
  BY <1>0, <1>1 DEF TypeOK, Lease, Row
<1>5. Sound(rows[s], None, s \in parted)
  BY <1>1, <1>3, <1>4 DEF Sound
<1> QED
  BY <1>0, <1>1, <1>2, <1>5, RequestKeeps DEF TypeOK

\* Both clocks of every session go down together.
LEMMA TickKeeps ==
    ASSUME Inv, Tick
    PROVE  Inv'
<1>0. TypeOK /\ Sourced /\ InsertsRead /\ SessionsSound
  BY DEF Inv
<1>1. /\ UNCHANGED catalogue /\ used' = used /\ parted' = parted
      /\ rows'  = [s \in Session |->
                     IF rows[s] = None THEN None ELSE [rows[s] EXCEPT !.left = @ - 1]]
      /\ lease' = [s \in Session |->
                     IF lease[s] = None THEN None ELSE [lease[s] EXCEPT !.left = @ - 1]]
  BY DEF Tick
<1>2. /\ labs' = labs /\ api' = api /\ read' = read /\ batch' = batch
      /\ inserts' = inserts /\ disk' = disk /\ edits' = edits /\ crashes' = crashes
      /\ stale' = stale
  BY <1>1 DEF catalogue, seeding
<1>3. ASSUME NEW s \in Session
      PROVE  /\ rows'[s] \in Row \cup {None}
             /\ rows'[s] # None =>
                   /\ rows[s] # None
                   /\ rows[s].left \in Int
                   /\ rows'[s].left = rows[s].left - 1
                   /\ rows'[s].lab = rows[s].lab
                   /\ rows'[s].port = rows[s].port
                   /\ rows'[s].status = rows[s].status
                   /\ rows'[s].extended = rows[s].extended
                   /\ rows[s].lab \in Lab
  <2>1. CASE rows[s] = None
    BY <1>1, <2>1
  <2>2. CASE rows[s] # None
    <3>1. rows[s] \in Row
      BY <1>0, <2>2 DEF TypeOK
    <3>2. rows'[s] = [rows[s] EXCEPT !.left = @ - 1]
      BY <1>1, <2>2
    <3> QED
      BY <2>2, <3>1, <3>2 DEF Row
  <2> QED
    BY <2>1, <2>2
<1>4. ASSUME NEW s \in Session
      PROVE  /\ lease'[s] \in Lease \cup {None}
             /\ lease'[s] = None <=> lease[s] = None
             /\ lease[s] # None =>
                   /\ lease[s].left \in Int
                   /\ lease'[s].left = lease[s].left - 1
                   /\ lease'[s].port = lease[s].port
                   /\ lease'[s].content = lease[s].content
  <2>1. CASE lease[s] = None
    BY <1>1, <2>1
  <2>2. CASE lease[s] # None
    <3>1. lease[s] \in Lease
      BY <1>0, <2>2 DEF TypeOK
    <3>2. lease'[s] = [lease[s] EXCEPT !.left = @ - 1]
      BY <1>1, <2>2
    <3>3. lease'[s] \in Lease
      BY <3>1, <3>2 DEF Lease
    <3> QED
      BY <2>2, <3>1, <3>2, <3>3, LeasesOK DEF Lease
  <2> QED
    BY <2>1, <2>2
<1>5. TypeOK'
  <2>1. CatalogueTypeOK'
    BY <1>0, <1>2 DEF TypeOK, CatalogueTypeOK
  <2>2. rows' \in [Session -> Row \cup {None}]
    BY <1>1, <1>3
  <2>3. lease' \in [Session -> Lease \cup {None}]
    BY <1>1, <1>4
  <2> QED
    BY <1>0, <1>1, <2>1, <2>2, <2>3 DEF TypeOK
<1>6. Sourced' /\ InsertsRead'
  BY <1>0, <1>2 DEF Sourced, InsertsRead, From
<1>7. SessionsSound'
  <2> SUFFICES ASSUME NEW s \in Session
               PROVE  Sound(rows[s], lease[s], s \in parted)'
    BY DEF SessionsSound
  <2>1. Sound(rows[s], lease[s], s \in parted)
    BY <1>0 DEF SessionsSound
  <2>2. labs[rows[s].lab] # None /\ rows'[s] # None => labs[rows[s].lab].ttl \in Int
    BY <1>0, <1>3 DEF TypeOK, CatalogueTypeOK, LabRow
  <2> QED
    BY <1>1, <1>2, <1>3, <1>4, <2>1, <2>2 DEF Sound
<1> QED
  BY <1>5, <1>6, <1>7 DEF Inv

-----------------------------------------------------------------------------
LEMMA InvInit ==
    ASSUME Init
    PROVE  Inv
<1>1. Len(Files) \in Nat
  BY CatalogueOK
<1>2. TypeOK
  <2>1. inserts \in [Lab -> 0 .. Len(Files)] /\ read \in 0 .. Len(Files)
    BY <1>1 DEF Init, CatalogueInit
  <2>2. edits \in 0 .. MaxEdits /\ crashes \in 0 .. MaxCrashes
    BY CatalogueOK DEF Init, CatalogueInit
  <2>3. CatalogueTypeOK
    BY <2>1, <2>2 DEF Init, CatalogueInit, CatalogueTypeOK
  <2> QED
    BY <2>3 DEF Init, TypeOK
<1>3. Sourced /\ InsertsRead
  BY DEF Init, CatalogueInit, Sourced, InsertsRead
<1>4. SessionsSound
  BY DEF Init, SessionsSound, Sound
<1> QED
  BY <1>2, <1>3, <1>4 DEF Inv

LEMMA InvNext ==
    ASSUME Inv, [Next]_vars
    PROVE  Inv'
<1>1. CASE UNCHANGED vars
  BY <1>1 DEF vars, catalogue, seeding, sessions, Inv, TypeOK, CatalogueTypeOK, Sourced,
              From, InsertsRead, SessionsSound, Sound
<1>2. CASE CatalogueNext /\ UNCHANGED sessions
  BY <1>2, CatalogueKeeps
<1>3. ASSUME NEW s \in Session, NEW l \in Lab, LaunchRefused(s, l)
      PROVE  Inv'
  BY <1>3, LaunchRefusedKeeps
<1>4. ASSUME NEW s \in Session, NEW l \in Lab, NEW mode \in {"guided", "assessment"},
             NEW p \in Port, NEW m \in Found(l), Launch(s, l, mode, m, p)
      PROVE  Inv'
  BY <1>4, LaunchKeeps
<1>5. ASSUME NEW s \in Session, NEW p \in Port, rows[s] # None,
             NEW m \in Found(rows[s].lab), Reset(s, m, p)
      PROVE  Inv'
  BY <1>5, ResetKeeps
<1>6. ASSUME NEW s \in Session, Extend(s) \/ ResetRefused(s) \/ Destroy(s) \/ Reap(s)
      PROVE  Inv'
  BY <1>6, ExtendKeeps, ResetRefusedKeeps, DestroyKeeps, ReapKeeps
<1>7. CASE Tick
  BY <1>7, TickKeeps
<1> QED
  BY <1>1, <1>2, <1>3, <1>4, <1>5, <1>6, <1>7 DEF Next

LEMMA InvHolds == Spec => []Inv
BY InvInit, InvNext, PTL DEF Spec

\* Every variable has its type; in particular a lab is inserted at most once for every
\* file, and what is committed has a time (seed_labs, seed.py:12-58).
THEOREM TypeCorrect == Spec => []TypeOK
<1>1. Inv => TypeOK
  BY DEF Inv
<1> QED
  BY <1>1, InvHolds, PTL

\* What runs for a session is what the catalogue says of its lab, whenever authors
\* write files and the API restarts (load_manifest, policy.py:39; launch and reset).
THEOREM AlwaysAsCatalogued == Spec => []AsCatalogued
<1>1. Inv => AsCatalogued
  BY DEF Inv, SessionsSound, Sound, AsCatalogued
<1> QED
  BY <1>1, InvHolds, PTL

\* A session that list_sessions shows as active has its environment at the recorded port
\* until then, but for sessions that a request has set apart (launch, extend, reset;
\* the orchestrator's provision and extend).
THEOREM AlwaysLive == Spec => []ShownIsLive
<1>1. Inv => ShownIsLive
  BY ShownActive DEF Inv, SessionsSound, Sound, ShownIsLive
<1> QED
  BY <1>1, InvHolds, PTL

-----------------------------------------------------------------------------
(* The catalogue is complete. *)

\* Of the files that give a row, the labs of those read are in the batch, and once the
\* API is up all of them are in the table.
Covered ==
    ~stale =>
        \A i \in DOMAIN Files :
            Outcome(disk[Files[i]]) = "row" =>
                /\ api = "seeding" /\ i <= read => batch[disk[Files[i]].lab] # None
                /\ api = "up" => labs[disk[Files[i]].lab] # None

LEMMA RowLab ==
    ASSUME TypeOK, NEW i \in DOMAIN Files, Outcome(disk[Files[i]]) = "row"
    PROVE  /\ disk[Files[i]] \in Drafts
           /\ disk[Files[i]].lab \in Lab
           /\ RowOf(disk[Files[i]]) # None
<1>1. disk[Files[i]] \in Drafts \cup {None}
  BY DEF File, TypeOK, CatalogueTypeOK
<1> QED
  BY <1>1, RowGiven

LEMMA CoveredNext ==
    ASSUME Inv, Covered, [Next]_vars
    PROVE  Covered'
<1>0. TypeOK /\ Files \in Seq(File)
  BY CatalogueOK DEF Inv
<1>1. CASE UNCHANGED catalogue
  BY <1>1 DEF catalogue, seeding, Covered
<1>2. ASSUME NEW f \in File, NEW m \in Drafts \cup {None}, Edit(f, m)
      PROVE  Covered'
  BY <1>2 DEF Edit, Covered
<1>3. CASE Boot
  <2>1. /\ api' = "seeding" /\ read' = 0
    BY <1>3 DEF Boot
  <2>2. \A i \in DOMAIN Files : ~(i <= 0)
    BY <1>0
  <2> QED
    BY <2>1, <2>2 DEF Covered
<1>4. CASE SeedFile
  <2> DEFINE m == disk[Files[read + 1]]
  <2>1. api = "seeding" /\ labs' = labs /\ disk' = disk /\ stale' = stale
    BY <1>4 DEF SeedFile
  <2>2. CASE Outcome(m) = "raise"
    BY <1>4, <2>2 DEF SeedFile, Covered
  <2>3. read \in Nat /\ read + 1 \in DOMAIN Files
    BY <1>0, <1>4 DEF SeedFile, TypeOK, CatalogueTypeOK
  <2>4. CASE Outcome(m) # "raise"
    <3>1. api' = "seeding" /\ read' = read + 1
      BY <1>4, <2>1, <2>4 DEF SeedFile
    <3>2. \A l \in Lab : batch[l] # None => batch'[l] # None
      <4>1. CASE Outcome(m) = "row"
        <5>1. RowOf(m) # None
          BY <1>0, <2>3, <4>1, RowLab
        <5>2. batch' = [batch EXCEPT ![m.lab] = RowOf(m)]
          BY <1>4, <4>1 DEF SeedFile
        <5> QED
          BY <1>0, <5>1, <5>2 DEF TypeOK, CatalogueTypeOK
      <4>2. CASE Outcome(m) # "row"
        BY <1>4, <2>4, <4>2 DEF SeedFile
      <4> QED
        BY <4>1, <4>2
    <3>3. Outcome(m) = "row" => batch'[m.lab] # None
      <4> SUFFICES ASSUME Outcome(m) = "row"
                   PROVE  batch'[m.lab] # None
        OBVIOUS
      <4>1. m.lab \in Lab /\ RowOf(m) # None
        BY <1>0, <2>3, RowLab
      <4>2. batch' = [batch EXCEPT ![m.lab] = RowOf(m)]
        BY <1>4 DEF SeedFile
      <4> QED
        BY <1>0, <4>1, <4>2 DEF TypeOK, CatalogueTypeOK
    <3> SUFFICES ASSUME ~stale, NEW i \in DOMAIN Files,
                        Outcome(disk[Files[i]]) = "row", i <= read + 1
                 PROVE  batch'[disk[Files[i]].lab] # None
      BY <2>1, <3>1 DEF Covered, Outcome
    <3>4. CASE i = read + 1
      BY <3>3, <3>4
    <3>5. CASE i # read + 1
      <4>1. i <= read
        BY <1>0, <2>3, <3>5
      <4>2. batch[disk[Files[i]].lab] # None
        BY <2>1, <4>1 DEF Covered
      <4> QED
        BY <1>0, <3>2, <4>2, RowLab
    <3> QED
      BY <3>4, <3>5
  <2> QED
    BY <2>2, <2>4
<1>5. CASE SeedCommit
  <2>1. /\ api = "seeding" /\ read = Len(Files) /\ disk' = disk /\ stale' = stale
        /\ (api' = "up" /\ labs' = batch) \/ api' = "down"
    BY <1>5 DEF SeedCommit, Committed
  <2>2. \A i \in DOMAIN Files : i <= read
    BY <1>0, <2>1
  <2> QED
    BY <2>1, <2>2 DEF Covered, Outcome
<1>6. CASE Crash
  BY <1>6 DEF Crash, Covered
<1>7. CatalogueNext \/ UNCHANGED catalogue
  BY DEF Next, vars, LaunchRefused, Launch, Reset, Extend, ResetRefused, Destroy, Reap, Tick
<1> QED
  BY <1>1, <1>2, <1>3, <1>4, <1>5, <1>6, <1>7 DEF CatalogueNext

\* Once the API is up, and until a file changes, the catalogue has what the files say
\* (seed_labs, seed.py:12-58), after any number of crashes and failed starts.
THEOREM AlwaysCurrent == Spec => []CatalogueCurrent
<1>1. Init => Covered
  BY DEF Init, CatalogueInit, Covered
<1>2. Inv /\ Covered /\ [Next]_vars => Covered'
  BY CoveredNext
<1>3. Inv /\ Covered => CatalogueCurrent
  <2> SUFFICES ASSUME Inv, Covered, api = "up", ~stale, NEW i \in DOMAIN Files,
                      Outcome(disk[Files[i]]) = "row"
               PROVE  LET m == disk[Files[i]]
                      IN  /\ labs[m.lab] # None
                          /\ labs[m.lab].content = m.content
                          /\ labs[m.lab].ttl <= MaxTtl
    BY DEF CatalogueCurrent
  <2> DEFINE m == disk[Files[i]]
  <2>1. m \in Drafts /\ m.lab \in Lab /\ m \in Drafts \cup {None}
    BY RowLab DEF Inv
  <2>2. labs[m.lab] # None
    BY DEF Covered
  <2>3. labs[m.lab] = RowOf(m)
    <3>1. From(m.lab, RowOf(m)) /\ From(m.lab, labs[m.lab])
      BY <2>1, <2>2 DEF From, Inv, Sourced
    <3> QED
      BY <2>1, <3>1, OneRow
  <2>4. m.ttl \in Int
    BY <2>1, RowGiven
  <2> QED
    BY <2>2, <2>3, <2>4, CatalogueOK DEF RowOf, Min2
<1> QED
  BY <1>1, <1>2, <1>3, InvHolds, PTL DEF Spec

=============================================================================
