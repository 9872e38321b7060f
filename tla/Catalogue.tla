------------------------------ MODULE Catalogue ------------------------------
(***************************************************************************)
(* Lab manifests: the linter that CI runs over them, the policy by which    *)
(* the orchestrator accepts or refuses one, and the `labs' table, which the *)
(* API fills from the files each time it starts.                           *)
(*                                                                         *)
(* Files are read one by one while authors change them; the rows are        *)
(* committed together at the end.  Rows of labs whose file is gone stay.     *)
(* The session of the mapper does not flush by itself: two files of a lab     *)
(* that has no row are two inserts, which the key of the table refuses.     *)
(***************************************************************************)
EXTENDS Integers, Sequences, FiniteSets

CONSTANTS
    Files,           \* the paths, in the order in which they are seeded
    Lab,             \* a slug and a version
    Content,         \* title, objectives, targets, hints
    Drafts,          \* what authors put into files
    MaxTtl,          \* 60 minutes
    AllowUnsigned,   \* ALLOW_UNSIGNED_MANIFESTS
    AllowDevDigests, \* ALLOW_DEV_DIGESTS
    MaxEdits,        \* bound on changes of files
    MaxCrashes,      \* bound on crashes of the API
    None

File == {Files[i] : i \in DOMAIN Files}

\* What the checks tell apart.  An image is pinned by digest or a local build, each of
\* a repository on the allowlist, or something else; a ttl may be no number.
Manifest ==
    [yaml     : {"parses", "broken", "empty"},
     lab      : Lab \cup {None},            \* None: no slug or no version.
     content  : Content,
     top      : BOOLEAN,                    \* The required keys are there.
     kind     : {"Lab", "other"},
     ttl      : Int \cup {None},
     asks     : SUBSET {"privileged", "hostNetwork", "mountDockerSock", "hostPid", "hostIpc"},
     writable : {"no", "excepted", "unexcepted"},
     images   : SUBSET {"pinned", "local", "foreign"},
     signed   : BOOLEAN,
     learning : BOOLEAN]   \* Hints, steps, remediation, evidence, flags, bundles.

LabRow == [content : Content, ttl : Int]

ASSUME CatalogueOK ==
    /\ Files \in Seq(File)
    /\ Drafts \subseteq Manifest
    /\ \A i, j \in DOMAIN Files : Files[i] = Files[j] => i = j
    /\ MaxTtl \in Nat \ {0}
    /\ AllowUnsigned \in BOOLEAN /\ AllowDevDigests \in BOOLEAN
    /\ MaxEdits \in Nat /\ MaxCrashes \in Nat
    /\ None \notin Drafts \cup LabRow

\* ADR-005: what a version says does not change.
ASSUME Immutable ==
    \A m, n \in Drafts : m.lab = n.lab => m.content = n.content /\ m.ttl = n.ttl

VARIABLES
    disk,     \* per file, its manifest, or None
    labs,     \* per lab, its row, or None
    api,      \* whether the API is down, seeding or up
    read,     \* how many files the seeding has read
    batch,    \* per lab, the row it is about to commit
    inserts,  \* per lab, how many inserts that takes
    edits, crashes,
    stale     \* whether a file has changed since the API last started (history)

seeding   == <<labs, api, read, batch, inserts>>
catalogue == <<disk, seeding, edits, crashes, stale>>

Min2(a, b) == IF a < b THEN a ELSE b

-----------------------------------------------------------------------------
(* Checks. *)

\* validate.py: of what a container may ask for only one thing is looked at, and
\* neither kind, ttl nor signature.
Lints(m) ==
    /\ m.yaml = "parses"
    /\ m.top
    /\ "privileged" \notin m.asks
    /\ "foreign" \notin m.images
    /\ m.writable # "unexcepted"
    /\ m.learning

\* check_manifest.
Checks(m) ==
    /\ m.top
    /\ m.kind = "Lab"
    /\ m.asks = {}
    /\ m.writable # "unexcepted"
    /\ m.signed \/ AllowUnsigned
    /\ m.ttl # None
    /\ m.ttl \in 1 .. MaxTtl

\* resolve_image.
Resolves(image) == image = "pinned" \/ (image = "local" /\ AllowDevDigests)

Runs(m) == Checks(m) /\ \A image \in m.images : Resolves(image)

\* Mutant: the version is not compared.
FoundAny(l) == {disk[f] : f \in {g \in File : disk[g] # None /\ disk[g].lab # None}}

\* load_manifest takes the first match in whatever order the directory has.
Found(l) ==
    {disk[f] : f \in {g \in File : disk[g] # None /\ disk[g].yaml = "parses"
                                                  /\ disk[g].lab = l}}

\* What the seeding does with a file.  An empty one parses, to None, which has no
\* `get'; a number that is none stops int().
Outcome(m) ==
    CASE m = None                                     -> "skip"
      [] m # None /\ m.yaml = "broken"                 -> "skip"
      [] m # None /\ m.yaml = "empty"                  -> "raise"
      [] m # None /\ m.yaml = "parses" /\ m.lab = None -> "skip"
      [] OTHER -> IF m.ttl = None THEN "raise" ELSE "row"

\* Mutant: the ttl is not capped.
RowOfUncapped(m) == [content |-> m.content, ttl |-> m.ttl + 1]

RowOf(m) == [content |-> m.content, ttl |-> Min2(MaxTtl, m.ttl)]

-----------------------------------------------------------------------------
(* Files and seeding. *)

CatalogueInit ==
    /\ disk    \in [File -> Drafts \cup {None}]
    /\ labs    = [l \in Lab |-> None]
    /\ api     = "down"
    /\ read    = 0
    /\ batch   = labs
    /\ inserts = [l \in Lab |-> 0]
    /\ edits   = 0
    /\ crashes = 0
    /\ stale   = TRUE

\* A file is written, removed, or just being written.
Edit(f, m) ==
    /\ edits < MaxEdits
    /\ disk[f] # m
    /\ m # None => Lints(m) \/ m.yaml # "parses"
    /\ disk'  = [disk EXCEPT ![f] = m]
    /\ edits' = edits + 1
    /\ stale' = TRUE
    /\ UNCHANGED <<seeding, crashes>>

Boot ==
    /\ api = "down"
    /\ api'     = "seeding"
    /\ read'    = 0
    /\ batch'   = labs
    /\ inserts' = [l \in Lab |-> 0]
    /\ stale'   = FALSE
    /\ UNCHANGED <<disk, labs, edits, crashes>>

\* Mutant: the row is not looked for.
InsertsAlways(l) == 1

\* Whether a lab that is read needs an insert.
Inserts(l) == IF labs[l] = None THEN 1 ELSE 0

\* A file that raises ends the start, and the transaction with it.
SeedFile ==
    LET m == disk[Files[read + 1]]
    IN  /\ api = "seeding"
        /\ read < Len(Files)
        /\ IF Outcome(m) = "raise"
           THEN /\ api'  = "down"
                /\ read' = 0
                /\ UNCHANGED <<batch, inserts>>
           ELSE IF Outcome(m) = "row"
           THEN /\ read'    = read + 1
                /\ batch'   = [batch EXCEPT ![m.lab] = RowOf(m)]
                /\ inserts' = [inserts EXCEPT ![m.lab] = @ + Inserts(m.lab)]
                /\ UNCHANGED api
           ELSE /\ read' = read + 1
                /\ UNCHANGED <<api, batch, inserts>>
        /\ UNCHANGED <<disk, labs, edits, crashes, stale>>

\* No key is inserted twice.
Commits == \A l \in Lab : inserts[l] > 0 => labs[l] = None /\ inserts[l] = 1

\* Mutant: each row is committed by itself.
CommittedEach == batch

Committed == IF Commits THEN batch ELSE labs

SeedCommit ==
    /\ api = "seeding"
    /\ read = Len(Files)
    /\ labs' = Committed
    /\ api'  = IF Commits THEN "up" ELSE "down"
    /\ read' = 0
    /\ UNCHANGED <<disk, batch, inserts, edits, crashes, stale>>

Crash ==
    /\ api # "down"
    /\ crashes < MaxCrashes
    /\ api'     = "down"
    /\ read'    = 0
    /\ crashes' = crashes + 1
    /\ UNCHANGED <<disk, labs, batch, inserts, edits, stale>>

CatalogueNext ==
    \/ \E f \in File, m \in Drafts \cup {None} : Edit(f, m)
    \/ Boot \/ SeedFile \/ SeedCommit \/ Crash

\* The API is started again whenever it stops.
CatalogueFairness == WF_catalogue(Boot \/ SeedFile \/ SeedCommit)

-----------------------------------------------------------------------------
CatalogueTypeOK ==
    /\ disk    \in [File -> Drafts \cup {None}]
    /\ labs    \in [Lab -> LabRow \cup {None}]
    /\ api     \in {"down", "seeding", "up"}
    /\ read    \in 0 .. Len(Files)
    /\ batch   \in [Lab -> LabRow \cup {None}]
    /\ inserts \in [Lab -> 0 .. Len(Files)]
    /\ edits   \in 0 .. MaxEdits
    /\ crashes \in 0 .. MaxCrashes
    /\ stale   \in BOOLEAN

\* Once the API is up, and until a file changes, the catalogue has for every file that
\* gives a row the row of the last file of its lab, no longer than the longest ttl.
CatalogueCurrent ==
    (api = "up" /\ ~stale) =>
        \A i \in DOMAIN Files :
            LET m == disk[Files[i]]
            IN  (/\ Outcome(m) = "row"
                 /\ \A j \in i + 1 .. Len(Files) :
                       disk[Files[j]] = None \/ disk[Files[j]].lab # m.lab)
                => /\ labs[m.lab] # None
                   /\ labs[m.lab].content = m.content
                   /\ labs[m.lab].ttl <= MaxTtl

\* A start that fails, at whatever file, leaves the catalogue as it was.
AllOrNothing == [][api' # "up" => labs' = labs]_catalogue

\* The API comes up, whatever files are being written, unless one is empty or has a
\* ttl that is no number, or two are of one lab: one bad manifest keeps it down.
ComesUp ==
    api # "up" ~> \/ api = "up"
                  \/ \E f \in File : Outcome(disk[f]) = "raise"
                  \/ \E f, g \in File : /\ f # g
                                        /\ disk[f] # None /\ disk[g] # None
                                        /\ disk[f].lab = disk[g].lab

=============================================================================
