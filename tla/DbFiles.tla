------------------------------ MODULE DbFiles -------------------------------
(***************************************************************************)
(* The files of a LevelDB database and what they say: entries, tables,     *)
(* the versions that list the tables of every level, the edits that lead   *)
(* from one version to the next, the inputs and the outputs of a           *)
(* compaction, and what a directory holds after all of it.                 *)
(*   src/src/leveldb/db/version_set.cc, db_impl.cc, db_iter.cc             *)
(* A directory is a record of CURRENT (the number of the manifest it       *)
(* names, 0 when there is none), the manifests, the tables, the logs and   *)
(* the temporary files.  A table or a manifest that a crash cut off is     *)
(* empty: its footer, or its record, is the last thing written.            *)
(***************************************************************************)
EXTENDS Integers, Sequences, FiniteSetsExt, Functions

CONSTANTS MaxLevel,     \* bound: kNumLevels - 1
          L0Trigger,    \* kL0_CompactionTrigger
          LevelLimit    \* tables in a level >= 1 that ask for a compaction

Levels == 0..MaxLevel
Absent == -1        \* a field an edit does not have

(* An entry is [key, seq, del]: one write of a key.  The order of internal *)
(* keys is that of the keys, the newest write of a key first.              *)
Before(a, b) == \/ a.key < b.key
                \/ (a.key = b.key /\ a.seq > b.seq)

FirstOf(E) == CHOOSE e \in E : \A f \in E \ {e} : Before(e, f)
LastOf(E)  == CHOOSE e \in E : \A f \in E \ {e} : Before(f, e)

(* What is there to read among entries: of each key the newest write, when *)
(* that is not a deletion.                                                 *)
Visible(E) == {e \in E : ~e.del /\ \A f \in E : f.key = e.key => f.seq <= e.seq}
-----------------------------------------------------------------------------
(* FileMetaData of a table with the entries E.                             *)
FileMetaData(number, E) == [number |-> number, smallest |-> FirstOf(E), largest |-> LastOf(E)]

KeysMeet(f, low, high) == f.largest.key >= low /\ f.smallest.key <= high

LowKey(F)  == Min({f.smallest.key : f \in F})
HighKey(F) == Max({f.largest.key : f \in F})

(* Variant: level 0 taken for a level without overlaps.                    *)
DisjointInputs(files, level, F) ==
    {f \in files[level] : f \in F \/ (level > 0 /\ KeysMeet(f, LowKey(F), HighKey(F)))}

(* The files of a level whose keys meet those from the lowest to the       *)
(* highest of the files F; in level 0, where files may overlap, also those *)
(* that meet the files found, and so on.                                   *)
GetOverlappingInputs(files, level, F) ==
    LET found == {f \in files[level] : KeysMeet(f, LowKey(F), HighKey(F))}
        closed == {G \in SUBSET files[0] :
                     /\ found \subseteq G
                     /\ \A f \in files[0], g \in G :
                           KeysMeet(f, g.smallest.key, g.largest.key) => f \in G}
    IN  IF level = 0 THEN CHOOSE G \in closed : \A H \in closed : G \subseteq H ELSE found

(* The tables a search for an entry opens: in level 0 all whose keys meet  *)
(* its key, in another level the first that does not end before it.        *)
Overlapping(files, e) ==
    {<<0, f>> : f \in {g \in files[0] : KeysMeet(g, e.key, e.key)}} \cup
    {p \in {<<l, f>> : l \in Levels \ {0}, f \in UNION {files[i] : i \in Levels}} :
        /\ p[2] \in files[p[1]]
        /\ p[2].smallest.key <= e.key /\ ~Before(p[2].largest, e)
        /\ \A g \in files[p[1]] : Before(g.largest, p[2].largest) => Before(g.largest, e)}

(* RecordReadSample's first match: the newest file of the lowest level.    *)
FirstMatch(pairs) ==
    CHOOSE p \in pairs : \A q \in pairs \ {p} :
        p[1] < q[1] \/ (p[1] = q[1] /\ p[2].number > q[2].number)

(* The levels whose compaction score is 1 or more.  Sizes are counted in   *)
(* tables, and which of several such levels scores best is left open.      *)
Overfull(files) ==
    {l \in Levels \ {MaxLevel} :
        Cardinality(files[l]) >= IF l = 0 THEN L0Trigger ELSE LevelLimit}
-----------------------------------------------------------------------------
(* VersionEdit: the fields that are there, the files added to a level and  *)
(* the numbers deleted from one.                                           *)
NoEdit == [log |-> Absent, next |-> Absent, last |-> Absent, added |-> {}, deleted |-> {}]

(* VersionSet::Builder: the edits applied one after another to no files.   *)
BuildVersion(edits) ==
    [l \in Levels |->
        {p[2] : p \in {q \in UNION {edits[i].added : i \in DOMAIN edits} :
            /\ q[1] = l
            /\ \E i \in DOMAIN edits :
                  /\ q \in edits[i].added
                  /\ \A j \in (i + 1)..Len(edits) : <<l, q[2].number>> \notin edits[j].deleted}}]

(* The same for one edit and the files of the current version.             *)
ApplyEdit(files, edit) ==
    [l \in Levels |-> {f \in files[l] : <<l, f.number>> \notin edit.deleted}
                      \cup {p[2] : p \in {q \in edit.added : q[1] = l}}]

LastField(edits, field) ==
    LET having == {i \in DOMAIN edits : edits[i][field] # Absent}
    IN  IF having = {} THEN Absent ELSE edits[Max(having)][field]

(* WriteSnapshot: the files of a version as one edit.                      *)
WriteSnapshot(files) ==
    [NoEdit EXCEPT !.added = UNION {{<<l, f>> : f \in files[l]} : l \in Levels}]

FileNumbers(files) == {f.number : f \in UNION {files[l] : l \in Levels}}
-----------------------------------------------------------------------------
(* A compaction: its level, its inputs from that level and from the next,  *)
(* and the files of the version it was picked from.                        *)
Inputs(c) == c.inputs[1] \cup c.inputs[2]

(* SetupOtherInputs: the files of the next level that meet the inputs.     *)
(* When there are some, more files of the level itself may be taken, if    *)
(* they bring in no others of the next (whether their size allows it is    *)
(* left open).                                                             *)
SetupOtherInputs(files, level, F) ==
    LET below(G) == GetOverlappingInputs(files, level + 1, G)
        grown == {GetOverlappingInputs(files, level, F \cup below(F))}
    IN  {<<F, below(F)>>} \cup
        {<<G, below(G)>> : G \in {H \in grown :
            /\ below(F) # {}
            /\ Cardinality(H) > Cardinality(F)
            /\ Cardinality(below(H)) = Cardinality(below(F))}}

(* PickCompaction for a version: a level that is too full and any of its   *)
(* files (which one compact_pointer_ comes to is left open), or else the   *)
(* file that too many seeks went through.  Level 0 takes the files that    *)
(* overlap with it.                                                        *)
PickCompaction(version) ==
    LET picks == IF Overfull(version.files) # {}
                 THEN UNION {{<<l, f>> : f \in version.files[l]} : l \in Overfull(version.files)}
                 ELSE version.seek
        first(p) == IF p[1] = 0
                    THEN GetOverlappingInputs(version.files, 0, {p[2]}) ELSE {p[2]}
    IN  UNION {{[level |-> p[1], inputs |-> inputs, files |-> version.files] :
                   inputs \in UNION {SetupOtherInputs(version.files, p[1], F) : F \in {first(p)}}} :
                 p \in picks}

(* Moving one file down beats writing it again (unless it meets too much   *)
(* of the level below that, which is left open).                           *)
IsTrivialMove(c) == Cardinality(c.inputs[1]) = 1 /\ c.inputs[2] = {}

GrandparentsMeet(c) ==
    /\ c.level + 2 \in Levels
    /\ GetOverlappingInputs(c.files, c.level + 2, Inputs(c)) # {}

IsBaseLevelForKey(c, key) ==
    \A l \in (c.level + 2)..MaxLevel : \A f \in c.files[l] : ~KeysMeet(f, key, key)

(* The entries DoCompactionWork writes again: not those hidden by a newer  *)
(* one that every reader sees, nor a deletion with nothing left to delete. *)
Kept(c, E, smallestSnapshot) ==
    {e \in E :
        /\ ~\E f \in E : f.key = e.key /\ f.seq > e.seq /\ f.seq <= smallestSnapshot
        /\ ~(e.del /\ e.seq <= smallestSnapshot /\ IsBaseLevelForKey(c, e.key))}

(* Variant: a deletion hides nothing.                                      *)
IgnoreDeletions(E, sequence, skip) ==
    {e \in E : ~e.del /\ e.seq <= sequence /\ e.key > skip}

(* DBIter: the entry a scan of the entries E stops at, if any.  skip is    *)
(* the key handed out last (below all keys at the start): entries of it,   *)
(* and of a deleted key, are hidden.                                       *)
Acceptable(E, sequence, skip) ==
    {e \in E : /\ ~e.del /\ e.seq <= sequence /\ e.key > skip
               /\ ~\E d \in E : d.del /\ d.key = e.key /\ d.seq > e.seq /\ d.seq <= sequence}
-----------------------------------------------------------------------------
(* Directories.                                                            *)
EmptyDirectory == [current |-> 0, manifests |-> << >>, tables |-> << >>, logs |-> << >>,
                   temps |-> {}]

Put(f, number, content) ==
    [n \in DOMAIN f \cup {number} |-> IF n = number THEN content ELSE f[n]]
Unlink(f, number) == Restrict(f, DOMAIN f \ {number})

(* What reading a file delivers; of one that is not there, nothing.        *)
TableEntries(d, number) == IF number \in DOMAIN d.tables THEN d.tables[number] ELSE {}
Entries(d, files) == UNION {TableEntries(d, n) : n \in FileNumbers(files)}

(* log::Reader: the records up to the first that was cut off.              *)
ReadRecords(log) ==
    LET torn == {i \in DOMAIN log : log[i] = {}}
    IN  IF torn = {} THEN log ELSE SubSeq(log, 1, Min(torn) - 1)

(* Without the files that are neither in the set live nor new enough.      *)
Cleaned(d, live, log, manifest) ==
    [d EXCEPT !.tables = Restrict(@, DOMAIN @ \cap live),
              !.temps = @ \cap live,
              !.logs = Restrict(@, {n \in DOMAIN @ : n >= log}),
              !.manifests = Restrict(@, {n \in DOMAIN @ : n >= manifest})]

(* What opening a directory would find: NewDB's nothing without CURRENT,   *)
(* otherwise the tables of the manifest and the logs it still asks for.    *)
Manifest(d) == IF d.current \in DOMAIN d.manifests THEN d.manifests[d.current] ELSE << >>

Stored(d) ==
    LET edits == Manifest(d)
        logs  == {n \in DOMAIN d.logs : n >= LastField(edits, "log")}
    IN  Entries(d, BuildVersion(edits))
        \cup UNION {UNION {ReadRecords(d.logs[n])[i] : i \in DOMAIN ReadRecords(d.logs[n])} : n \in logs}

Complete(d) ==
    \/ d.current = 0
    \/ /\ \A field \in {"log", "next", "last"} : LastField(Manifest(d), field) # Absent
       /\ \A n \in FileNumbers(BuildVersion(Manifest(d))) :
             n \in DOMAIN d.tables /\ d.tables[n] # {}
=============================================================================
