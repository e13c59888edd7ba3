--------------------------- MODULE LevelDbProofs ----------------------------
(***************************************************************************)
(* Proofs about LevelDb, for every directory a node may leave, any number  *)
(* of runs and of crashes: references are balanced, no file is deleted or  *)
(* written over while a version that somebody reads needs it; newer writes *)
(* lie above older ones in every such version, and nothing is lost; so a   *)
(* reading delivers what SortedStore promises.                             *)
(***************************************************************************)
EXTENDS LevelDb, Recursion, FiniteSetTheorems, SequenceTheorems, TLAPS

Opening == {"logs", "manifest", "temp", "rename"}
Reading == {"seek", "read", "release"}
Running == {"opened", "open", "delete", "wait"} \cup Reading

(* The objects have the fields of their classes.                           *)
IsVersionSet(s) ==
    /\ s = [next |-> s.next, manifest |-> s.manifest, last |-> s.last, log |-> s.log,
            current |-> s.current, versions |-> s.versions]
    /\ \A v \in DOMAIN s.versions :
          /\ s.versions[v] = [files |-> s.versions[v].files, refs |-> s.versions[v].refs,
                              seek |-> s.versions[v].seek]
          /\ s.versions[v].files = [l \in Levels |-> s.versions[v].files[l]]

IsEdit(e) == e = [log |-> e.log, next |-> e.next, last |-> e.last, added |-> e.added,
                  deleted |-> e.deleted]

IsRecovery(r) == r = [logs |-> r.logs, from |-> r.from, edit |-> r.edit, max |-> r.max]

IsCompaction(k) == k = [version |-> k.version, moved |-> k.moved, level |-> k.level,
                        inputs |-> k.inputs, open |-> k.open, outputs |-> k.outputs,
                        left |-> k.left]

(* A file of a version is there and is what the version says, and its      *)
(* number has been given out.                                              *)
Sound(f, tables, next) == /\ f.number \in Nat /\ f.number < next
                          /\ f.number \in DOMAIN tables
                          /\ f = FileMetaData(f.number, tables[f.number])

SoundFiles(files, tables, next) ==
    \A l \in Levels : \A f \in files[l] : Sound(f, tables, next)

SoundEdit(e, tables, next) == \A p \in e.added : Sound(p[2], tables, next)

(* What the background thread, the main thread and nobody hold of a        *)
(* version.                                                                *)
Refs(v, current, compaction, iterator) ==
    (IF v = current THEN 1 ELSE 0) + (IF v = compaction THEN 1 ELSE 0)
        + (IF v = iterator THEN 1 ELSE 0)

Referenced(s, compaction, iterator) ==
    /\ s.current \in Nat \ {0}
    /\ {compaction, iterator} \subseteq Nat
    /\ DOMAIN s.versions = {s.current, compaction, iterator} \ {0}
    /\ \A v \in DOMAIN s.versions :
          s.versions[v].refs = Refs(v, s.current, compaction, iterator)

(* Which threads are where, and what they hold there.                      *)
Control ==
    /\ main \in {"down", "recover", "newdb_temp", "newdb_rename"} \cup Opening \cup Running
    /\ bg \in {"idle", "work", "write", "install", "failed"}
    /\ runs \in 0..MaxRuns /\ faults \in 0..MaxFaults
    /\ db \in [scheduled : BOOLEAN, shutting : BOOLEAN, error : BOOLEAN,
               pending : SUBSET (1..vs.next), logfile : 0..vs.next]
    /\ main \notin Running => ~db.scheduled /\ ~db.error
    /\ main = "opened" => ~db.scheduled /\ ~db.error
    /\ bg # "idle" => db.scheduled /\ ~db.error
    /\ bg = "idle" => c = NoCompaction
    /\ bg # "idle" => c.version = vs.current
    /\ main \in Reading <=> iter.version # 0
    /\ main \notin Reading => iter = NoIterator
    /\ main \in {"down", "recover", "newdb_temp", "newdb_rename"} => vs = NewVersionSet

(* The versions, and the files of each.                                    *)
Versions ==
    /\ IsVersionSet(vs)
    /\ vs.next \in Nat \ {0}
    /\ vs.manifest \in Nat
    /\ Referenced(vs, c.version, iter.version)
    /\ \A v \in DOMAIN vs.versions :
          /\ SoundFiles(vs.versions[v].files, disk.tables, vs.next)
          /\ \A p \in vs.versions[v].seek : p[1] \in Levels /\ p[2] \in vs.versions[v].files[p[1]]

NextField == LastField(Manifest(disk), "next")

(* While Open is at work CURRENT still names the old manifest.             *)
Recovering ==
    /\ main \in {"newdb_temp", "newdb_rename"} =>
          /\ disk.current = 0
          /\ 1 \in DOMAIN disk.manifests
          /\ disk.manifests[1] = <<[NoEdit EXCEPT !.log = 0, !.next = 2, !.last = 0]>>
    /\ main \in Opening =>
          /\ vs.manifest = NextField /\ vs.manifest < vs.next
          /\ Current(vs).files = BuildVersion(Manifest(disk))
          /\ IsRecovery(rec) /\ rec.logs \subseteq Nat
          /\ IsEdit(rec.edit) /\ SoundEdit(rec.edit, disk.tables, vs.next)
    /\ main \in {"temp", "rename"} =>
          /\ vs.manifest \in DOMAIN disk.manifests
          /\ disk.manifests[vs.manifest] =
                <<WriteSnapshot(Current(vs).files), Completed(rec.edit, vs, db.logfile)>>

(* From then on the manifest that CURRENT names says what the current      *)
(* version is, but for the edit that is being installed.                   *)
Synced ==
    main \in Running =>
        /\ disk.current = vs.manifest
        /\ vs.manifest \in DOMAIN disk.manifests
        /\ NextField \in Nat /\ NextField <= vs.next
        /\ bg \in {"idle", "work", "write"} /\ ~db.error =>
              BuildVersion(Manifest(disk)) = Current(vs).files
        /\ bg = "install" =>
              BuildVersion(Manifest(disk)) = ApplyEdit(Current(vs).files, c.edit)

(* An output that is being written belongs to no version yet.              *)
Compacting ==
    /\ bg = "work" =>
          /\ IsCompaction(c)
          /\ c.open \in Nat
          /\ \A f \in c.outputs : Sound(f, disk.tables, vs.next)
          /\ c.open # 0 =>
                /\ c.open < vs.next
                /\ \A f \in c.outputs : f.number # c.open
                /\ \A v \in DOMAIN vs.versions : \A l \in Levels :
                      \A f \in vs.versions[v].files[l] : f.number # c.open
    /\ bg \in {"write", "install"} =>
          /\ c.moved \in BOOLEAN
          /\ IsEdit(c.edit) /\ c.edit.next = vs.next
          /\ SoundEdit(c.edit, disk.tables, vs.next)

IInv == IsDirectory(disk) /\ Control /\ Versions /\ Recovering /\ Synced /\ Compacting

-----------------------------------------------------------------------------
(* The oldest log, and the number of a new version: the least of a set of  *)
(* numbers is one of them.                                                 *)
LEMMA MinIn ==
  ASSUME NEW S \in SUBSET Nat, S # {}
  PROVE  Min(S) \in S /\ \A x \in S : Min(S) <= x
<1> DEFINE R == {pair \in Nat \X Nat : pair[1] < pair[2]}
<1>1. IsWellFoundedOn(R, Nat)
  BY NatLessThanWellFounded DEF OpToRel
<1>2. PICK least \in S : \A m \in S : ~(<<m, least>> \in R)
  <2> HIDE DEF R
  <2> QED
    BY <1>1, WFMin, Zenon
<1>3. \A m \in S : least <= m
  <2> TAKE m \in S
  <2>1. m \in Nat /\ least \in Nat /\ ~(<<m, least>> \in R)
    BY <1>2
  <2> QED
    BY <2>1
<1> QED
  BY <1>3 DEF Min

(* MarkFileNumberUsed takes the greater of two numbers.                    *)
LEMMA MaxOfTwo ==
  ASSUME NEW a \in Nat, NEW b \in Nat
  PROVE  Max({a, b}) = IF a >= b THEN a ELSE b
BY DEF Max

-----------------------------------------------------------------------------
(* Edits.  A file is in the version that edits build when one of them      *)
(* added it and none after that deleted its number.                        *)
LEMMA BuildVersionIs ==
  ASSUME NEW edits, NEW l \in Levels, NEW f
  PROVE  f \in BuildVersion(edits)[l] <=>
            \E i \in DOMAIN edits : \E q \in edits[i].added :
               /\ q[1] = l /\ q[2] = f
               /\ \A j \in (i + 1)..Len(edits) : <<l, f.number>> \notin edits[j].deleted
<1>1. BuildVersion(edits)[l] =
        {p[2] : p \in {q \in UNION {edits[i].added : i \in DOMAIN edits} :
            /\ q[1] = l
            /\ \E i \in DOMAIN edits :
                  /\ q \in edits[i].added
                  /\ \A j \in (i + 1)..Len(edits) : <<l, q[2].number>> \notin edits[j].deleted}}
  BY DEF BuildVersion
<1> QED
  BY <1>1

(* A version has files at every level and at no other.                     *)
LEMMA BuildVersionShape ==
  ASSUME NEW edits
  PROVE  BuildVersion(edits) = [l \in Levels |-> BuildVersion(edits)[l]]
BY DEF BuildVersion

(* Of one edit: what it does not delete stays, and what it adds comes.     *)
LEMMA ApplyEditIs ==
  ASSUME NEW files, NEW edit, NEW l \in Levels, NEW f
  PROVE  f \in ApplyEdit(files, edit)[l] <=>
            \/ f \in files[l] /\ <<l, f.number>> \notin edit.deleted
            \/ \E q \in edit.added : q[1] = l /\ q[2] = f
BY DEF ApplyEdit

(* The version after LogAndApply has the same levels.                      *)
LEMMA ApplyEditShape ==
  ASSUME NEW files, NEW edit
  PROVE  ApplyEdit(files, edit) = [l \in Levels |-> ApplyEdit(files, edit)[l]]
BY DEF ApplyEdit

(* An edit that LogAndApply appends to the manifest does there what it     *)
(* does to the current version.                                            *)
LEMMA BuildAppended ==
  ASSUME NEW S, NEW edits \in Seq(S), NEW edit
  PROVE  BuildVersion(Append(edits, edit)) = ApplyEdit(BuildVersion(edits), edit)
<1> DEFINE longer == Append(edits, edit)
<1>1. PICK n \in Nat : n = Len(edits)
  BY LenProperties
<1>2. /\ DOMAIN edits = 1..n /\ DOMAIN longer = 1..(n + 1) /\ Len(longer) = n + 1
      /\ longer[n + 1] = edit /\ \A i \in 1..n : longer[i] = edits[i]
  BY <1>1
<1> HIDE DEF longer
<1>3. ASSUME NEW l \in Levels, NEW f
      PROVE  f \in BuildVersion(longer)[l] <=> f \in ApplyEdit(BuildVersion(edits), edit)[l]
  <2> DEFINE Survives(i, upto) == \A j \in (i + 1)..upto : <<l, f.number>> \notin longer[j].deleted
             Adds1(i) == \E q \in longer[i].added : q[1] = l /\ q[2] = f
  <2>1. f \in BuildVersion(longer)[l] <=> \E i \in 1..(n + 1) : Adds1(i) /\ Survives(i, n + 1)
    <3>1. f \in BuildVersion(longer)[l] <=>
            \E i \in DOMAIN longer : \E q \in longer[i].added :
               /\ q[1] = l /\ q[2] = f
               /\ \A j \in (i + 1)..Len(longer) : <<l, f.number>> \notin longer[j].deleted
      BY BuildVersionIs
    <3>2. DOMAIN longer = 1..(n + 1) /\ Len(longer) = n + 1
      BY <1>2
    <3> QED
      BY ONLY <3>1, <3>2, Zenon
  <2>2. f \in BuildVersion(edits)[l] <=> \E i \in 1..n : Adds1(i) /\ Survives(i, n)
    <3>1. f \in BuildVersion(edits)[l] <=>
            \E i \in DOMAIN edits : \E q \in edits[i].added :
               /\ q[1] = l /\ q[2] = f
               /\ \A j \in (i + 1)..Len(edits) : <<l, f.number>> \notin edits[j].deleted
      BY BuildVersionIs
    <3>2. DOMAIN edits = 1..n /\ Len(edits) = n
      BY <1>1, <1>2
    <3>3. \A i \in 1..n : \A j \in (i + 1)..n : longer[j] = edits[j]
      <4>1. \A i \in 1..n : \A j \in (i + 1)..n : j \in 1..n
        OBVIOUS
      <4> QED
        BY <4>1, <1>2
    <3>4. \A i \in 1..n : longer[i] = edits[i]
      BY <1>2
    <3>5. \A i \in 1..n : Survives(i, n) <=>
                            \A j \in (i + 1)..n : <<l, f.number>> \notin edits[j].deleted
      BY ONLY <3>3, Zenon
    <3>6. \A i \in 1..n : Adds1(i) <=> \E q \in edits[i].added : q[1] = l /\ q[2] = f
      BY ONLY <3>4, Zenon
    <3>7. f \in BuildVersion(edits)[l] <=>
            \E i \in 1..n : \E q \in edits[i].added :
               /\ q[1] = l /\ q[2] = f
               /\ \A j \in (i + 1)..n : <<l, f.number>> \notin edits[j].deleted
      BY ONLY <3>1, <3>2, Zenon
    <3> HIDE DEF Survives, Adds1
    <3> QED
      BY ONLY <3>5, <3>6, <3>7, Zenon
  <2>3. \A i \in 1..n : Survives(i, n + 1) <=> Survives(i, n) /\ <<l, f.number>> \notin edit.deleted
    <3> TAKE i \in 1..n
    <3>1. (i + 1)..(n + 1) = ((i + 1)..n) \cup {n + 1}
      OBVIOUS
    <3> QED
      BY <1>2, <3>1
  <2>4. Survives(n + 1, n + 1) /\ (Adds1(n + 1) <=> \E q \in edit.added : q[1] = l /\ q[2] = f)
    BY <1>2
  <2>5. 1..(n + 1) = (1..n) \cup {n + 1}
    OBVIOUS
  <2>6. f \in ApplyEdit(BuildVersion(edits), edit)[l] <=>
            \/ f \in BuildVersion(edits)[l] /\ <<l, f.number>> \notin edit.deleted
            \/ Adds1(n + 1)
    BY <2>4, ApplyEditIs
  <2> HIDE DEF Survives, Adds1
  <2> QED
    BY <2>1, <2>2, <2>3, <2>4, <2>5, <2>6
<1>4. \A l \in Levels : BuildVersion(longer)[l] = ApplyEdit(BuildVersion(edits), edit)[l]
  BY <1>3
<1>5. /\ BuildVersion(longer) = [l \in Levels |-> BuildVersion(longer)[l]]
      /\ ApplyEdit(BuildVersion(edits), edit) =
            [l \in Levels |-> ApplyEdit(BuildVersion(edits), edit)[l]]
  BY BuildVersionShape, ApplyEditShape
<1> QED
  BY <1>4, <1>5 DEF longer

(* The two records of a new manifest, one after the other.                 *)
LEMMA AppendToOne ==
  ASSUME NEW first, NEW second
  PROVE  <<first>> \in Seq({first, second}) /\ Append(<<first>>, second) = <<first, second>>
<1>1. PICK S : S = {first, second}
  OBVIOUS
<1>2. PICK one : one = <<first>>
  OBVIOUS
<1>3. one \in Seq(S) /\ Len(one) = 1 /\ one[1] = first /\ second \in S
  BY <1>1, <1>2
<1>4. /\ Append(one, second) \in Seq(S) /\ Len(Append(one, second)) = Len(one) + 1
      /\ \A i \in 1..Len(one) : Append(one, second)[i] = one[i]
      /\ Append(one, second)[Len(one) + 1] = second
  <2>1. one \in Seq(S) /\ second \in S
    BY <1>3
  <2>2. Append(one, second) \in Seq(S) /\ Len(Append(one, second)) = Len(one) + 1
    BY ONLY <2>1, AppendProperties
  <2>3. \A i \in 1..Len(one) : Append(one, second)[i] = one[i]
    BY ONLY <2>1, AppendProperties
  <2>4. Append(one, second)[Len(one) + 1] = second
    BY ONLY <2>1, AppendProperties
  <2> QED
    BY <2>2, <2>3, <2>4
<1>5. PICK two : two = Append(one, second)
  OBVIOUS
<1>6. two \in Seq(S) /\ Len(two) = 2 /\ two[1] = first /\ two[2] = second
  BY ONLY <1>3, <1>4, <1>5
<1>7. two = <<first, second>>
  BY ONLY <1>6
<1> QED
  BY ONLY <1>1, <1>2, <1>3, <1>5, <1>7, Zenon

(* A new manifest starts with the files of the version it goes on from.    *)
LEMMA BuildSnapshot ==
  ASSUME NEW files, files = [l \in Levels |-> files[l]], NEW edit
  PROVE  BuildVersion(<<WriteSnapshot(files), edit>>) = ApplyEdit(files, edit)
<1> DEFINE snapshot == WriteSnapshot(files)
<1>1. \A l \in Levels : \A f : f \in BuildVersion(<<snapshot>>)[l] <=> f \in files[l]
  <2> TAKE l \in Levels
  <2> TAKE f
  <2>1. snapshot.added = UNION {{<<k, g>> : g \in files[k]} : k \in Levels}
    BY DEF WriteSnapshot, NoEdit
  <2>2. f \in BuildVersion(<<snapshot>>)[l] <=> \E q \in snapshot.added : q[1] = l /\ q[2] = f
    <3> HIDE DEF snapshot
    <3>1. DOMAIN <<snapshot>> = {1} /\ <<snapshot>>[1] = snapshot /\ Len(<<snapshot>>) = 1
      OBVIOUS
    <3>2. PICK one : one = <<snapshot>>
      OBVIOUS
    <3>3. f \in BuildVersion(one)[l] <=>
            \E i \in DOMAIN one : \E q \in one[i].added :
               /\ q[1] = l /\ q[2] = f
               /\ \A j \in (i + 1)..Len(one) : <<l, f.number>> \notin one[j].deleted
      BY BuildVersionIs
    <3>4. (1 + 1)..1 = {}
      OBVIOUS
    <3> QED
      BY <3>1, <3>2, <3>3, <3>4
  <2>3. f \in files[l] => <<l, f>> \in snapshot.added
    BY ONLY <2>1, l \in Levels
  <2>4. \A q \in snapshot.added : q[1] = l => q[2] \in files[l]
    BY ONLY <2>1
  <2> HIDE DEF snapshot
  <2>5. <<l, f>>[1] = l /\ <<l, f>>[2] = f
    OBVIOUS
  <2> QED
    BY <2>2, <2>3, <2>4, <2>5
<1> HIDE DEF snapshot
<1>2. BuildVersion(<<snapshot>>) = files
  <2>1. \A l \in Levels : BuildVersion(<<snapshot>>)[l] = files[l]
    BY <1>1
  <2>2. BuildVersion(<<snapshot>>) = [l \in Levels |-> BuildVersion(<<snapshot>>)[l]]
    BY BuildVersionShape
  <2> QED
    BY <2>1, <2>2
<1>3. PICK one : one = <<snapshot>>
  OBVIOUS
<1>4. one \in Seq({snapshot, edit}) /\ Append(one, edit) = <<snapshot, edit>>
  BY <1>3, AppendToOne
<1>5. BuildVersion(Append(one, edit)) = ApplyEdit(BuildVersion(one), edit)
  BY <1>4, BuildAppended
<1> QED
  BY <1>2, <1>3, <1>4, <1>5 DEF snapshot

(* The last next_file of a manifest whose last edit has one is that one.   *)
LEMMA LastFieldOfLast ==
  ASSUME NEW S, NEW edits \in Seq(S), Len(edits) > 0, edits[Len(edits)].next # Absent
  PROVE  LastField(edits, "next") = edits[Len(edits)].next
<1> DEFINE having == {i \in DOMAIN edits : edits[i]["next"] # Absent}
<1>1. PICK n \in Nat : n = Len(edits)
  BY LenProperties
<1>2. n \in having /\ \A i \in having : n >= i /\ i \in Nat
  BY <1>1
<1>3. Max(having) = n
  <2> HIDE DEF having
  <2>1. \A m \in having : (\A i \in having : m >= i) => m = n
    BY <1>2
  <2>2. Max(having) \in having /\ \A i \in having : Max(having) >= i
    BY <1>2, Zenon DEF Max
  <2> QED
    BY <2>1, <2>2
<1>4. having # {}
  BY <1>2
<1> QED
  BY <1>1, <1>3, <1>4 DEF LastField

(* No edits, no files and no fields.                                       *)
LEMMA NothingBuilt == LastField(<< >>, "next") = Absent
BY DEF LastField

-----------------------------------------------------------------------------
(* The set of versions.  What Ref and Unref leave of a version is all but  *)
(* its count.                                                              *)
SameVersions(s, t) ==
    /\ t.next = s.next /\ t.manifest = s.manifest /\ t.last = s.last /\ t.log = s.log
    /\ t.current = s.current
    /\ DOMAIN t.versions \subseteq DOMAIN s.versions
    /\ \A v \in DOMAIN t.versions : /\ t.versions[v].files = s.versions[v].files
                                    /\ t.versions[v].seek = s.versions[v].seek

(* Ref counts one reader more.                                             *)
LEMMA RefCounts ==
  ASSUME NEW s, IsVersionSet(s), NEW v \in DOMAIN s.versions
  PROVE  /\ IsVersionSet(Ref(s, v)) /\ SameVersions(s, Ref(s, v))
         /\ DOMAIN Ref(s, v).versions = DOMAIN s.versions
         /\ Ref(s, v).versions[v].refs = s.versions[v].refs + 1
         /\ \A w \in DOMAIN s.versions : w # v => Ref(s, v).versions[w].refs = s.versions[w].refs
<1> DEFINE t == Ref(s, v)
<1>1. t.versions = [s.versions EXCEPT ![v].refs = @ + 1]
  BY DEF IsVersionSet, Ref
<1>2. /\ t = [next |-> t.next, manifest |-> t.manifest, last |-> t.last, log |-> t.log,
              current |-> t.current, versions |-> t.versions]
      /\ t.next = s.next /\ t.manifest = s.manifest /\ t.last = s.last /\ t.log = s.log
      /\ t.current = s.current
  BY DEF IsVersionSet, Ref
<1> HIDE DEF t
<1>3. ASSUME NEW w \in DOMAIN s.versions
      PROVE  /\ t.versions[w].files = s.versions[w].files
             /\ t.versions[w].seek = s.versions[w].seek
             /\ t.versions[w] = [files |-> t.versions[w].files, refs |-> t.versions[w].refs,
                                 seek |-> t.versions[w].seek]
             /\ w = v => t.versions[w].refs = s.versions[w].refs + 1
             /\ w # v => t.versions[w].refs = s.versions[w].refs
  <2>1. s.versions[w] = [files |-> s.versions[w].files, refs |-> s.versions[w].refs,
                         seek |-> s.versions[w].seek]
    BY DEF IsVersionSet
  <2>2. CASE w = v
    <3>1. t.versions[w] = [s.versions[w] EXCEPT !.refs = @ + 1]
      BY <1>1, <2>2
    <3> QED
      BY <2>1, <2>2, <3>1
  <2>3. CASE w # v
    <3>1. t.versions[w] = s.versions[w]
      BY <1>1, <2>3
    <3> QED
      BY <2>1, <2>3, <3>1
  <2> QED
    BY <2>2, <2>3
<1>4. DOMAIN t.versions = DOMAIN s.versions
  BY <1>1
<1>5. \A w \in DOMAIN t.versions : t.versions[w].files = [l \in Levels |-> t.versions[w].files[l]]
  BY <1>3, <1>4 DEF IsVersionSet
<1>6. IsVersionSet(t) /\ SameVersions(s, t)
  BY <1>2, <1>3, <1>4, <1>5 DEF IsVersionSet, SameVersions
<1> QED
  BY <1>3, <1>4, <1>6 DEF t

(* Unref of a version that others hold takes one off its count, of one     *)
(* that nobody else holds takes it away.                                   *)
LEMMA UnrefCounts ==
  ASSUME NEW s, IsVersionSet(s), NEW v \in DOMAIN s.versions
  PROVE  /\ IsVersionSet(Unref(s, v)) /\ SameVersions(s, Unref(s, v))
         /\ DOMAIN Unref(s, v).versions = IF s.versions[v].refs = 1 THEN DOMAIN s.versions \ {v}
                                                                  ELSE DOMAIN s.versions
         /\ s.versions[v].refs # 1 => Unref(s, v).versions[v].refs = s.versions[v].refs - 1
         /\ \A w \in DOMAIN s.versions : w # v => Unref(s, v).versions[w].refs = s.versions[w].refs
<1> DEFINE t == Unref(s, v)
<1>1. CASE s.versions[v].refs = 1
  <2>1. t.versions = Unlink(s.versions, v)
    BY <1>1 DEF IsVersionSet, Unref
  <2>2. /\ t = [next |-> t.next, manifest |-> t.manifest, last |-> t.last, log |-> t.log,
                current |-> t.current, versions |-> t.versions]
        /\ t.next = s.next /\ t.manifest = s.manifest /\ t.last = s.last /\ t.log = s.log
        /\ t.current = s.current
    BY <1>1 DEF IsVersionSet, Unref
  <2> HIDE DEF t
  <2>3. /\ DOMAIN t.versions = DOMAIN s.versions \ {v}
        /\ \A w \in DOMAIN t.versions : t.versions[w] = s.versions[w]
    BY <2>1 DEF Unlink, Restrict
  <2>4. IsVersionSet(t) /\ SameVersions(s, t)
    BY <2>2, <2>3 DEF IsVersionSet, SameVersions
  <2> QED
    BY <1>1, <2>3, <2>4 DEF t
<1>2. CASE s.versions[v].refs # 1
  <2>1. t.versions = [s.versions EXCEPT ![v].refs = @ - 1]
    BY <1>2 DEF IsVersionSet, Unref
  <2>2. /\ t = [next |-> t.next, manifest |-> t.manifest, last |-> t.last, log |-> t.log,
                current |-> t.current, versions |-> t.versions]
        /\ t.next = s.next /\ t.manifest = s.manifest /\ t.last = s.last /\ t.log = s.log
        /\ t.current = s.current
    BY <1>2 DEF IsVersionSet, Unref
  <2> HIDE DEF t
  <2>3. ASSUME NEW w \in DOMAIN s.versions
        PROVE  /\ t.versions[w].files = s.versions[w].files
               /\ t.versions[w].seek = s.versions[w].seek
               /\ t.versions[w] = [files |-> t.versions[w].files, refs |-> t.versions[w].refs,
                                   seek |-> t.versions[w].seek]
               /\ w = v => t.versions[w].refs = s.versions[w].refs - 1
               /\ w # v => t.versions[w].refs = s.versions[w].refs
    <3>1. s.versions[w] = [files |-> s.versions[w].files, refs |-> s.versions[w].refs,
                           seek |-> s.versions[w].seek]
      BY DEF IsVersionSet
    <3>2. CASE w = v
      <4>1. t.versions[w] = [s.versions[w] EXCEPT !.refs = @ - 1]
        BY <2>1, <3>2
      <4> QED
        BY <3>1, <3>2, <4>1
    <3>3. CASE w # v
      <4>1. t.versions[w] = s.versions[w]
        BY <2>1, <3>3
      <4> QED
        BY <3>1, <3>3, <4>1
    <3> QED
      BY <3>2, <3>3
  <2>4. DOMAIN t.versions = DOMAIN s.versions
    BY <2>1
  <2>5. \A w \in DOMAIN t.versions : t.versions[w].files = [l \in Levels |-> t.versions[w].files[l]]
    BY <2>3, <2>4 DEF IsVersionSet
  <2>6. IsVersionSet(t) /\ SameVersions(s, t)
    BY <2>2, <2>3, <2>4, <2>5 DEF IsVersionSet, SameVersions
  <2> QED
    BY <1>2, <2>3, <2>4, <2>6 DEF t
<1> QED
  BY <1>1, <1>2

(* The counts stay balanced when the iterator takes the current version.   *)
LEMMA RefByIterator ==
  ASSUME NEW s, IsVersionSet(s), NEW k, Referenced(s, k, 0)
  PROVE  Referenced(Ref(s, s.current), k, s.current)
<1> DEFINE t == Ref(s, s.current)
<1>1. s.current \in DOMAIN s.versions /\ s.current \in Nat \ {0} /\ k \in Nat
  BY DEF Referenced
<1>2. /\ SameVersions(s, t) /\ DOMAIN t.versions = DOMAIN s.versions
      /\ t.versions[s.current].refs = s.versions[s.current].refs + 1
      /\ \A w \in DOMAIN s.versions : w # s.current => t.versions[w].refs = s.versions[w].refs
  BY <1>1, RefCounts
<1> HIDE DEF t
<1>3. DOMAIN t.versions = {t.current, k, s.current} \ {0}
  BY <1>1, <1>2 DEF Referenced, SameVersions
<1>4. \A v \in DOMAIN t.versions : t.versions[v].refs = Refs(v, t.current, k, s.current)
  BY <1>1, <1>2 DEF Referenced, SameVersions, Refs
<1> QED
  BY <1>1, <1>2, <1>3, <1>4 DEF Referenced, SameVersions, t

(* Nothing tells the two holders of a version apart.                       *)
LEMMA ReferencedSwaps ==
  ASSUME NEW s, NEW k, NEW i, Referenced(s, k, i)
  PROVE  Referenced(s, i, k)
<1>1. {s.current, i, k} = {s.current, k, i} /\ s.current \in Nat /\ i \in Nat /\ k \in Nat
  BY DEF Referenced
<1>2. \A v : Refs(v, s.current, i, k) = Refs(v, s.current, k, i)
  BY DEF Refs
<1> QED
  BY <1>1, <1>2 DEF Referenced

(* And when a compaction does.                                             *)
LEMMA RefByCompaction ==
  ASSUME NEW s, IsVersionSet(s), NEW i, Referenced(s, 0, i)
  PROVE  Referenced(Ref(s, s.current), s.current, i)
BY RefByIterator, ReferencedSwaps

(* The iterator lets go of its version.                                    *)
LEMMA UnrefByIterator ==
  ASSUME NEW s, IsVersionSet(s), NEW k, NEW i, Referenced(s, k, i), i # 0
  PROVE  Referenced(Unref(s, i), k, 0)
<1> DEFINE t == Unref(s, i)
<1>1. i \in DOMAIN s.versions /\ s.current \in Nat \ {0} /\ k \in Nat /\ i \in Nat
  BY DEF Referenced
<1>2. /\ SameVersions(s, t)
      /\ DOMAIN t.versions = IF s.versions[i].refs = 1 THEN DOMAIN s.versions \ {i}
                                                      ELSE DOMAIN s.versions
      /\ s.versions[i].refs # 1 => t.versions[i].refs = s.versions[i].refs - 1
      /\ \A w \in DOMAIN s.versions : w # i => t.versions[w].refs = s.versions[w].refs
  BY <1>1, UnrefCounts
<1> HIDE DEF t
<1>3. s.versions[i].refs = Refs(i, s.current, k, i)
  BY <1>1 DEF Referenced
<1>4. s.versions[i].refs = 1 <=> i # s.current /\ i # k
  BY <1>3 DEF Refs
<1>5. DOMAIN t.versions = {t.current, k, 0} \ {0}
  BY <1>1, <1>2, <1>4 DEF Referenced, SameVersions
<1>6. \A v \in DOMAIN t.versions : t.versions[v].refs = Refs(v, t.current, k, 0)
  BY <1>1, <1>2, <1>4 DEF Referenced, SameVersions, Refs
<1> QED
  BY <1>1, <1>2, <1>5, <1>6 DEF Referenced, SameVersions, t

(* A compaction lets go of the version of its inputs.                      *)
LEMMA UnrefByCompaction ==
  ASSUME NEW s, IsVersionSet(s), NEW k, NEW i, Referenced(s, k, i), k # 0
  PROVE  Referenced(Unref(s, k), 0, i)
BY UnrefByIterator, ReferencedSwaps

(* A number for a new version is found: not all of 1..(n + 1) are taken.   *)
LEMMA FreshVersion ==
  ASSUME NEW D, IsFiniteSet(D)
  PROVE  Min((1..(Cardinality(D) + 1)) \ D) \in Nat \ ({0} \cup D)
<1> DEFINE n == Cardinality(D)
           free == (1..(n + 1)) \ D
<1>1. n \in Nat
  BY FS_CardinalityType
<1>2. free # {}
  <2> SUFFICES ASSUME 1..(n + 1) \subseteq D PROVE FALSE
    OBVIOUS
  <2>1. IsFiniteSet(1..(n + 1)) /\ Cardinality(1..(n + 1)) = n + 1
    BY <1>1, FS_Interval
  <2>2. Cardinality(1..(n + 1)) <= n
    BY FS_Subset
  <2> QED
    BY <1>1, <2>1, <2>2
<1>3. free \in SUBSET Nat
  BY <1>1
<1>4. Min(free) \in free
  <2> HIDE DEF free
  <2> QED
    BY <1>2, <1>3, MinIn
<1> QED
  BY <1>1, <1>4

(* AppendVersion: the new version is the current one and has what the edit *)
(* makes of the files; the versions that somebody holds stay.              *)
LEMMA AppendVersionCounts ==
  ASSUME NEW s, IsVersionSet(s), NEW k, NEW i, Referenced(s, k, i), NEW edit
  PROVE  LET t == AppendVersion(s, edit)
         IN  /\ IsVersionSet(t) /\ Referenced(t, k, i)
             /\ t.next = s.next /\ t.manifest = s.manifest /\ t.last = s.last /\ t.log = s.log
             /\ Current(t).files = ApplyEdit(Current(s).files, edit)
             /\ Current(t).seek = {}
             /\ \A v \in DOMAIN t.versions : v # t.current =>
                   /\ v \in DOMAIN s.versions
                   /\ t.versions[v].files = s.versions[v].files
                   /\ t.versions[v].seek = s.versions[v].seek
<1> DEFINE D == DOMAIN s.versions
           free == Min((1..(Cardinality(D) + 1)) \ D)
           files == ApplyEdit(Current(s).files, edit)
           new == [files |-> files, refs |-> 1, seek |-> {}]
           u == [s EXCEPT !.versions = Put(@, free, new), !.current = free]
           old == s.current
           t == Unref(u, old)
<1>0. AppendVersion(s, edit) = t
  BY DEF AppendVersion
<1>1. /\ D = {s.current, k, i} \ {0} /\ old \in Nat \ {0} /\ k \in Nat /\ i \in Nat
      /\ old \in D
  BY DEF Referenced
<1>2. IsFiniteSet(D)
  <2>1. IsFiniteSet({s.current, k, i})
    <3>1. IsFiniteSet({} \cup {s.current})
      BY FS_EmptySet, FS_AddElement
    <3>2. IsFiniteSet(({} \cup {s.current}) \cup {k})
      BY <3>1, FS_AddElement
    <3>3. IsFiniteSet((({} \cup {s.current}) \cup {k}) \cup {i})
      BY <3>2, FS_AddElement
    <3>4. (({} \cup {s.current}) \cup {k}) \cup {i} = {s.current, k, i}
      OBVIOUS
    <3> QED
      BY <3>3, <3>4
  <2> HIDE DEF D
  <2> QED
    BY <1>1, <2>1, FS_Subset
<1>3. free \in Nat \ ({0} \cup D)
  <2> HIDE DEF D
  <2> QED
    BY <1>2, FreshVersion
<1> HIDE DEF free
<1>4. /\ u.versions = Put(s.versions, free, new)
      /\ u = [next |-> u.next, manifest |-> u.manifest, last |-> u.last, log |-> u.log,
              current |-> u.current, versions |-> u.versions]
      /\ u.next = s.next /\ u.manifest = s.manifest /\ u.last = s.last /\ u.log = s.log
      /\ u.current = free
  <2> HIDE DEF new
  <2>1. PICK versions : versions = Put(s.versions, free, new)
    OBVIOUS
  <2>2. u = [s EXCEPT !.versions = versions, !.current = free]
    BY <2>1, Zenon DEF IsVersionSet
  <2>3. s = [next |-> s.next, manifest |-> s.manifest, last |-> s.last, log |-> s.log,
             current |-> s.current, versions |-> s.versions]
    BY DEF IsVersionSet
  <2> HIDE DEF u
  <2>4. u = [next |-> s.next, manifest |-> s.manifest, last |-> s.last, log |-> s.log,
             current |-> free, versions |-> versions]
    BY <2>2, <2>3
  <2> QED
    BY <2>1, <2>4
<1> HIDE DEF u
<1>5. /\ DOMAIN u.versions = D \cup {free}
      /\ u.versions[free] = new
      /\ \A v \in D : u.versions[v] = s.versions[v]
  <2> HIDE DEF new
  <2> QED
    BY <1>3, <1>4 DEF Put
<1>6. /\ new.files = files /\ new.refs = 1 /\ new.seek = {}
      /\ new = [files |-> new.files, refs |-> new.refs, seek |-> new.seek]
      /\ files = [l \in Levels |-> files[l]]
  BY ApplyEditShape
<1> HIDE DEF new, files
<1>7. IsVersionSet(u)
  BY <1>4, <1>5, <1>6 DEF IsVersionSet
<1>8. /\ IsVersionSet(t) /\ SameVersions(u, t)
      /\ DOMAIN t.versions = IF u.versions[old].refs = 1 THEN DOMAIN u.versions \ {old}
                                                         ELSE DOMAIN u.versions
      /\ u.versions[old].refs # 1 => t.versions[old].refs = u.versions[old].refs - 1
      /\ \A w \in DOMAIN u.versions : w # old => t.versions[w].refs = u.versions[w].refs
  BY <1>1, <1>5, <1>7, UnrefCounts
<1> HIDE DEF t
<1>9. /\ u.versions[old].refs = Refs(old, old, k, i)
      /\ u.versions[old].refs = 1 <=> old # k /\ old # i
  <2>1. u.versions[old].refs = Refs(old, old, k, i)
    BY <1>1, <1>5 DEF Referenced
  <2> QED
    BY <2>1 DEF Refs
<1>10. t.current = free /\ free # old /\ free # k /\ free # i
  BY <1>1, <1>3, <1>4, <1>8 DEF SameVersions
<1>11. DOMAIN t.versions = {t.current, k, i} \ {0}
  BY <1>1, <1>3, <1>5, <1>8, <1>9, <1>10
<1>12. \A v \in DOMAIN t.versions : t.versions[v].refs = Refs(v, t.current, k, i)
  <2> TAKE v \in DOMAIN t.versions
  <2>1. CASE v = free
    <3>1. t.versions[v].refs = 1
      BY <1>5, <1>6, <1>8, <1>10, <2>1
    <3> QED
      BY <1>10, <2>1, <3>1 DEF Refs
  <2>2. CASE v = old
    <3>1. t.versions[v].refs = Refs(old, old, k, i) - 1
      BY <1>1, <1>5, <1>8, <1>9, <2>2
    <3> QED
      BY <1>10, <2>2, <3>1 DEF Refs
  <2>3. CASE v # free /\ v # old
    <3>1. v \in D /\ t.versions[v].refs = s.versions[v].refs
      BY <1>5, <1>8, <2>3 DEF SameVersions
    <3>2. t.versions[v].refs = Refs(v, old, k, i)
      BY <3>1 DEF Referenced
    <3> QED
      BY <1>10, <2>3, <3>2 DEF Refs
  <2> QED
    BY <2>1, <2>2, <2>3
<1>13. Referenced(t, k, i)
  BY <1>1, <1>3, <1>10, <1>11, <1>12 DEF Referenced
<1>14. Current(t).files = files /\ Current(t).seek = {}
  BY <1>3, <1>5, <1>6, <1>8, <1>10, <1>11 DEF SameVersions, Current
<1>15. \A v \in DOMAIN t.versions : v # t.current =>
                   /\ v \in DOMAIN s.versions
                   /\ t.versions[v].files = s.versions[v].files
                   /\ t.versions[v].seek = s.versions[v].seek
  BY <1>5, <1>8, <1>10 DEF SameVersions
<1> QED
  BY <1>0, <1>4, <1>8, <1>13, <1>14, <1>15 DEF SameVersions, files

-----------------------------------------------------------------------------
(* What may be picked for a compaction.                                    *)

(* In level 0 there is a smallest set of files that are closed under       *)
(* meeting each other, so that the loop of GetOverlappingInputs ends with  *)
(* files of its level.                                                     *)
LEMMA OverlappingInputsIn ==
  ASSUME NEW files, NEW level, NEW F
  PROVE  GetOverlappingInputs(files, level, F) \subseteq files[level]
<1> DEFINE found == {f \in files[level] : KeysMeet(f, LowKey(F), HighKey(F))}
           IsClosed(G) == /\ found \subseteq G
                          /\ \A f \in files[0], g \in G :
                                KeysMeet(f, g.smallest.key, g.largest.key) => f \in G
           closed == {G \in SUBSET files[0] : IsClosed(G)}
           least == {f \in files[0] : \A G \in closed : f \in G}
<1>1. GetOverlappingInputs(files, level, F) =
        IF level = 0 THEN CHOOSE G \in closed : \A H \in closed : G \subseteq H ELSE found
  BY DEF GetOverlappingInputs
<1>2. CASE level # 0
  BY <1>1, <1>2
<1>3. CASE level = 0
  <2>1. found \subseteq files[0]
    BY <1>3
  <2> HIDE DEF found
  <2>2. least \in SUBSET files[0] /\ \A H \in closed : least \subseteq H
    OBVIOUS
  <2>3. IsClosed(least)
    <3>1. found \subseteq least
      BY <2>1
    <3>2. ASSUME NEW f \in files[0], NEW g \in least,
                 KeysMeet(f, g.smallest.key, g.largest.key)
          PROVE  f \in least
      <4>1. \A G \in closed : g \in G => f \in G
        BY <3>2
      <4> QED
        BY <4>1
    <3> QED
      BY <3>1, <3>2
  <2>4. least \in closed
    BY <2>2, <2>3
  <2> HIDE DEF closed, least
  <2>5. GetOverlappingInputs(files, level, F) \in closed
    BY <1>1, <1>3, <2>2, <2>4, Zenon
  <2> QED
    BY <1>3, <2>5 DEF closed
<1> QED
  BY <1>2, <1>3

(* The inputs of the upper level are files of that level.                  *)
LEMMA PickedInputs ==
  ASSUME NEW version,
         \A s \in version.seek : s[1] \in Levels /\ s[2] \in version.files[s[1]],
         NEW p \in PickCompaction(version)
  PROVE  p.level \in Levels /\ p.inputs[1] \subseteq version.files[p.level]
<1> DEFINE picks == IF Overfull(version.files) # {}
                    THEN UNION {{<<l, f>> : f \in version.files[l]} : l \in Overfull(version.files)}
                    ELSE version.seek
           first(s) == IF s[1] = 0 THEN GetOverlappingInputs(version.files, 0, {s[2]}) ELSE {s[2]}
<1>1. PICK s \in picks : p \in {[level |-> s[1], inputs |-> inputs, files |-> version.files] :
                   inputs \in UNION {SetupOtherInputs(version.files, s[1], F) : F \in {first(s)}}}
  BY DEF PickCompaction
<1>2. s[1] \in Levels /\ s[2] \in version.files[s[1]]
  <2>1. CASE Overfull(version.files) # {}
    <3>1. PICK l \in Overfull(version.files) : \E f \in version.files[l] : s = <<l, f>>
      BY <1>1, <2>1
    <3>2. l \in Levels
      BY <3>1 DEF Overfull
    <3> QED
      BY <3>1, <3>2
  <2>2. CASE Overfull(version.files) = {}
    BY <1>1, <2>2
  <2> QED
    BY <2>1, <2>2
<1>3. first(s) \subseteq version.files[s[1]]
  BY <1>2, OverlappingInputsIn
<1>4. PICK inputs \in SetupOtherInputs(version.files, s[1], first(s)) :
         p = [level |-> s[1], inputs |-> inputs, files |-> version.files]
  BY <1>1
<1> HIDE DEF first, picks
<1>5. inputs[1] \subseteq version.files[s[1]]
  <2> DEFINE F == first(s)
             below(G) == GetOverlappingInputs(version.files, s[1] + 1, G)
             grown == {GetOverlappingInputs(version.files, s[1], F \cup below(F))}
  <2>1. \/ inputs = <<F, below(F)>>
        \/ \E G \in grown : inputs = <<G, below(G)>>
    BY <1>4 DEF SetupOtherInputs
  <2>2. \A G \in grown : G \subseteq version.files[s[1]]
    BY OverlappingInputsIn
  <2> HIDE DEF grown, below
  <2> QED
    BY <1>3, <2>1, <2>2
<1> QED
  BY <1>2, <1>4, <1>5

(* Of the files a read came by the newest of the lowest level is one.      *)
LEMMA FirstMatchIn ==
  ASSUME NEW pairs, pairs # {}, NEW tables, NEW next \in Nat,
         \A p \in pairs : p = <<p[1], p[2]>> /\ p[1] \in Nat /\ Sound(p[2], tables, next)
  PROVE  /\ FirstMatch(pairs) \in pairs
         /\ \A q \in pairs \ {FirstMatch(pairs)} : FirstMatch(pairs)[1] <= q[1]
<1> DEFINE lowest == Min({p[1] : p \in pairs})
           those == {p \in pairs : p[1] = lowest}
           back == {next - p[2].number : p \in those}
<1>1. lowest \in {p[1] : p \in pairs} /\ \A p \in pairs : lowest <= p[1]
  <2>1. PICK levels : levels = {p[1] : p \in pairs}
    OBVIOUS
  <2>2. levels \in SUBSET Nat /\ levels # {}
    BY <2>1
  <2>3. Min(levels) \in levels /\ \A l \in levels : Min(levels) <= l
    BY <2>2, MinIn
  <2>4. \A p \in pairs : p[1] \in levels
    BY <2>1
  <2> QED
    BY <2>1, <2>3, <2>4
<1> HIDE DEF lowest
<1>2. those # {} /\ \A p \in those : p[2].number \in Nat /\ p[2].number < next
  BY <1>1 DEF Sound
<1>3. Min(back) \in back /\ \A n \in back : Min(back) <= n
  <2>1. back \in SUBSET Nat /\ back # {}
    BY <1>2
  <2> HIDE DEF back
  <2> QED
    BY <2>1, MinIn
<1>4. PICK p \in those : \A q \in those : next - p[2].number <= next - q[2].number
  BY <1>3
<1>5. \A q \in those : q[2].number <= p[2].number
  BY <1>2, <1>4
<1>6. \A q \in pairs \ {p} : p[1] < q[1] \/ (p[1] = q[1] /\ p[2].number > q[2].number)
  <2> TAKE q \in pairs \ {p}
  <2>1. CASE q[1] = lowest
    <3>1. q \in those /\ q[2].number <= p[2].number
      BY <1>5, <2>1
    <3>2. q[2].number # p[2].number
      <4> SUFFICES ASSUME q[2].number = p[2].number PROVE FALSE
        OBVIOUS
      <4>1. q[2] = p[2]
        BY DEF Sound
      <4> QED
        BY <2>1, <4>1
    <3> QED
      BY <1>2, <2>1, <3>1, <3>2
  <2>2. CASE q[1] # lowest
    BY <1>1, <2>2
  <2> QED
    BY <2>1, <2>2
<1> HIDE DEF those
<1>7. p \in pairs
  BY <1>4 DEF those
<1> DEFINE IsFirst(m) == \A q \in pairs \ {m} :
                        m[1] < q[1] \/ (m[1] = q[1] /\ m[2].number > q[2].number)
<1>8. FirstMatch(pairs) \in pairs /\ IsFirst(FirstMatch(pairs))
  BY <1>6, <1>7, Zenon DEF FirstMatch
<1>9. PICK m \in pairs : m = FirstMatch(pairs) /\ IsFirst(m)
  BY <1>8
<1>10. \A q \in pairs \ {m} : m[1] <= q[1]
  BY <1>9
<1> QED
  BY <1>9, <1>10

(* The files a search opens are files of the version.                      *)
LEMMA OverlappingIn ==
  ASSUME NEW files, NEW e
  PROVE  \A p \in Overlapping(files, e) :
            p = <<p[1], p[2]>> /\ p[1] \in Levels /\ p[1] \in Nat /\ p[2] \in files[p[1]]
<1>1. 0 \in Levels /\ Levels \subseteq Nat
  BY LevelDbAssumption DEF Levels
<1> QED
  BY <1>1 DEF Overlapping

-----------------------------------------------------------------------------
(* Directories.  The number that the manifest would give out next.         *)
NextOf(d) == LastField(Manifest(d), "next")

IsDisk(d) == /\ d = [current |-> d.current, manifests |-> d.manifests, tables |-> d.tables,
                     logs |-> d.logs, temps |-> d.temps]
             /\ d.current \in Nat
             /\ 0 \notin DOMAIN d.manifests
             /\ DOMAIN d.logs \subseteq Nat

BuiltFiles(d) == BuildVersion(Manifest(d))

(* A directory as a node leaves it, part by part.                          *)
LEMMA DirectoryIs ==
  ASSUME NEW d
  PROVE  IsDirectory(d) <=>
            /\ IsDisk(d)
            /\ Manifest(d) \in Seq(Range(Manifest(d)))
            /\ NextOf(d) # Absent =>
                  /\ NextOf(d) \in Nat /\ d.current < NextOf(d)
                  /\ SoundFiles(BuiltFiles(d), d.tables, NextOf(d))
<1>1. ASSUME NextOf(d) \in Nat, NEW f
      PROVE  f.number \in 0..(NextOf(d) - 1) <=> f.number \in Nat /\ f.number < NextOf(d)
  BY <1>1
<1> QED
  BY <1>1 DEF IsDirectory, IsDisk, NextOf, BuiltFiles, SoundFiles, Sound

(* A directory whose CURRENT names no manifest yet.                        *)
LEMMA EmptyIsDirectory ==
  ASSUME NEW d, IsDisk(d), d.current \notin DOMAIN d.manifests
  PROVE  IsDirectory(d)
<1>1. Manifest(d) = << >> /\ << >> \in Seq(Range(<< >>))
  BY DEF Manifest
<1>2. NextOf(d) = Absent
  BY <1>1, NothingBuilt DEF NextOf
<1> QED
  BY <1>1, <1>2, DirectoryIs

(* CURRENT and its manifest are not touched, and the tables of that        *)
(* manifest are as before.                                                 *)
SameManifest(d, e) ==
    /\ e.current = d.current
    /\ d.current \in DOMAIN d.manifests <=> d.current \in DOMAIN e.manifests
    /\ d.current \in DOMAIN d.manifests => e.manifests[d.current] = d.manifests[d.current]

SameTables(files, d, e) ==
    \A l \in Levels : \A f \in files[l] :
        f.number \in DOMAIN d.tables => /\ f.number \in DOMAIN e.tables
                                        /\ e.tables[f.number] = d.tables[f.number]

(* Opening it would find the same version,                                 *)
LEMMA SameManifestReads ==
  ASSUME NEW d, NEW e, SameManifest(d, e)
  PROVE  Manifest(e) = Manifest(d) /\ NextOf(e) = NextOf(d) /\ BuiltFiles(e) = BuiltFiles(d)
BY DEF SameManifest, Manifest, NextOf, BuiltFiles

(* and the files of a version are as sound as before.                      *)
LEMMA SameTablesSound ==
  ASSUME NEW files, NEW d, NEW e, NEW next, SameTables(files, d, e),
         SoundFiles(files, d.tables, next)
  PROVE  SoundFiles(files, e.tables, next)
BY DEF SameTables, SoundFiles, Sound

(* So a write of other files leaves a directory that can be opened.        *)
LEMMA DirectoryKept ==
  ASSUME NEW d, NEW e, IsDirectory(d), IsDisk(e), SameManifest(d, e),
         NextOf(d) # Absent => SameTables(BuiltFiles(d), d, e)
  PROVE  IsDirectory(e)
<1>1. Manifest(e) = Manifest(d) /\ NextOf(e) = NextOf(d) /\ BuiltFiles(e) = BuiltFiles(d)
  BY SameManifestReads
<1>2. NextOf(d) # Absent => SoundFiles(BuiltFiles(d), e.tables, NextOf(d))
  BY DirectoryIs, SameTablesSound
<1>3. e.current = d.current
  BY DEF SameManifest
<1> QED
  BY <1>1, <1>2, <1>3, DirectoryIs

(* A new table under a number that is not in use.                          *)
LEMMA PutKeepsTables ==
  ASSUME NEW files, NEW d, NEW e, NEW number, NEW content,
         e.tables = Put(d.tables, number, content),
         \A l \in Levels : \A f \in files[l] : f.number # number
  PROVE  SameTables(files, d, e)
BY DEF SameTables, Put

(* What DeleteObsoleteFiles may take away and what not: files is what is   *)
(* live.  rest is the directory when it is through, e when it is at work.  *)
LEMMA CleaningKeeps ==
  ASSUME NEW d, IsDirectory(d), NEW live, NEW log, NEW manifest, d.current = manifest,
         NEW T, T \subseteq DOMAIN d.tables, (DOMAIN d.tables \cap live) \subseteq T,
         NEW L, L \subseteq DOMAIN d.logs,
         NEW M, M \subseteq DOMAIN d.manifests,
         {n \in DOMAIN d.manifests : n >= manifest} \subseteq M,
         NEW temps,
         NEW e, e = [current |-> d.current, manifests |-> Restrict(d.manifests, M),
                     tables |-> Restrict(d.tables, T), logs |-> Restrict(d.logs, L),
                     temps |-> temps]
  PROVE  /\ IsDisk(e) /\ SameManifest(d, e)
         /\ \A files : (\A l \in Levels : \A f \in files[l] : f.number \in live)
                          => SameTables(files, d, e)
<1>1. /\ DOMAIN e.tables = T /\ \A n \in T : e.tables[n] = d.tables[n]
      /\ DOMAIN e.manifests = M /\ \A n \in M : e.manifests[n] = d.manifests[n]
      /\ DOMAIN e.logs = L /\ e.current = d.current
  BY DEF Restrict
<1>2. IsDisk(d) /\ d.current \in Nat
  BY DirectoryIs DEF IsDisk
<1>3. IsDisk(e)
  BY <1>1, <1>2 DEF IsDisk
<1>4. d.current >= manifest
  BY <1>2
<1>5. SameManifest(d, e)
  BY <1>1, <1>4 DEF SameManifest
<1>6. \A files : (\A l \in Levels : \A f \in files[l] : f.number \in live)
                    => SameTables(files, d, e)
  BY <1>1 DEF SameTables
<1> QED
  BY <1>3, <1>5, <1>6

-----------------------------------------------------------------------------
(* The constructors of VersionSet and DBImpl: one version without files,   *)
(* that is the current one.                                                *)
LEMMA NewVersionSetIs ==
  /\ NewVersionSet.next = 2 /\ NewVersionSet.manifest = 0 /\ NewVersionSet.current = 1
  /\ DOMAIN NewVersionSet.versions = {1}
  /\ NewVersionSet.versions[1] = [files |-> NoFiles, refs |-> 1, seek |-> {}]
  /\ IsVersionSet(NewVersionSet)
<1>1. NewVersionSet.versions = [v \in {1} |-> [files |-> NoFiles, refs |-> 1, seek |-> {}]]
  BY DEF NewVersionSet
<1>2. NewVersionSet = [next |-> 2, manifest |-> 0, last |-> 0, log |-> 0, current |-> 1,
                       versions |-> NewVersionSet.versions]
  BY DEF NewVersionSet
<1>3. NoFiles = [l \in Levels |-> NoFiles[l]]
  BY DEF NoFiles
<1> QED
  BY <1>1, <1>2, <1>3 DEF IsVersionSet

(* Whenever the process ends, by closing, by a failure to open or by a     *)
(* crash, what is left is a directory and nothing in memory.               *)
LEMMA GoneDown ==
  ASSUME Down, IsDirectory(disk'), runs' \in 0..MaxRuns, faults' \in 0..MaxFaults
  PROVE  IInv'
<1>1. /\ main' = "down" /\ bg' = "idle" /\ vs' = NewVersionSet /\ db' = NewDBImpl
      /\ c' = [version |-> 0] /\ iter' = [version |-> 0]
  BY DEF Down, NoCompaction, NoIterator
<1>2. Control'
  BY <1>1, NewVersionSetIs
     DEF Control, NewDBImpl, NoCompaction, NoIterator, Opening, Reading, Running
<1>3. Versions'
  <2>1. Referenced(NewVersionSet, 0, 0)
    BY NewVersionSetIs DEF Referenced, Refs
  <2>2. \A tables : SoundFiles(NoFiles, tables, 2)
    BY DEF NoFiles, SoundFiles
  <2> QED
    BY <1>1, <2>1, <2>2, NewVersionSetIs DEF Versions
<1>4. Recovering' /\ Synced' /\ Compacting'
  BY <1>1 DEF Recovering, Synced, Compacting, Opening, Running, Reading
<1> QED
  BY <1>2, <1>3, <1>4 DEF IInv

(* A node may leave any of the directories.                                *)
LEMMA StartsIn == Init => IInv
<1> SUFFICES ASSUME Init PROVE IInv
  OBVIOUS
<1>1. /\ main = "down" /\ bg = "idle" /\ vs = NewVersionSet /\ db = NewDBImpl
      /\ c = [version |-> 0] /\ iter = [version |-> 0] /\ runs = 0 /\ faults = 0
      /\ IsDirectory(disk)
  BY LevelDbAssumption DEF Init, NoCompaction, NoIterator
<1>2. Control
  BY <1>1, NewVersionSetIs, LevelDbAssumption
     DEF Control, NewDBImpl, NoCompaction, NoIterator, Opening, Reading, Running
<1>3. Versions
  <2>1. Referenced(NewVersionSet, 0, 0)
    BY NewVersionSetIs DEF Referenced, Refs
  <2>2. \A tables : SoundFiles(NoFiles, tables, 2)
    BY DEF NoFiles, SoundFiles
  <2> QED
    BY <1>1, <2>1, <2>2, NewVersionSetIs DEF Versions
<1>4. Recovering /\ Synced /\ Compacting
  BY <1>1 DEF Recovering, Synced, Compacting, Opening, Running, Reading
<1> QED
  BY <1>1, <1>2, <1>3, <1>4 DEF IInv

-----------------------------------------------------------------------------
(* DB::Open.  A number of which more have been given out since is still    *)
(* one that has been given out.                                            *)
LEMMA SoundLater ==
  ASSUME NEW files, NEW tables, NEW m \in Nat, NEW n \in Nat, m <= n,
         SoundFiles(files, tables, m)
  PROVE  SoundFiles(files, tables, n)
BY DEF SoundFiles, Sound

(* The program is started; nothing is read yet.                            *)
LEMMA StartKeeps == ASSUME IInv, Start PROVE IInv'
<1>1. /\ IsDirectory(disk') /\ Versions'
  BY DEF IInv, Start, Versions
<1>2. Control'
  <2>1. runs' \in 0..MaxRuns
    BY LevelDbAssumption DEF IInv, Control, Start
  <2> QED
    BY <2>1 DEF IInv, Control, Start, Opening, Reading, Running
<1>3. Recovering' /\ Synced' /\ Compacting'
  BY DEF IInv, Recovering, Synced, Compacting, Opening, Running, Reading, Start, Control
<1> QED
  BY <1>1, <1>2, <1>3 DEF IInv

(* NewDB writes its manifest while CURRENT names none.                     *)
LEMMA NewDBKeeps == ASSUME IInv, NewDB PROVE IInv'
<1>1. IsDisk(disk) /\ main = "recover" /\ main' = "newdb_temp" /\ disk.current = 0
  BY DirectoryIs DEF IInv, NewDB
<1>2. PICK content : content = <<[NoEdit EXCEPT !.log = 0, !.next = 2, !.last = 0]>>
  OBVIOUS
<1>3. /\ disk' = [current |-> disk.current, manifests |-> Put(disk.manifests, 1, content),
                  tables |-> disk.tables, logs |-> disk.logs, temps |-> disk.temps]
      /\ 1 \in DOMAIN disk'.manifests /\ disk'.manifests[1] = content
      /\ DOMAIN disk'.manifests = DOMAIN disk.manifests \cup {1}
  BY <1>1, <1>2 DEF NewDB, IsDisk, Put
<1>4. IsDirectory(disk')
  <2>1. IsDisk(disk') /\ disk'.current \notin DOMAIN disk'.manifests
    BY <1>1, <1>3 DEF IsDisk
  <2> QED
    BY <2>1, EmptyIsDirectory
<1>5. Control' /\ Versions'
  BY <1>1, <1>3 DEF IInv, Control, Versions, NewDB, Opening, Reading, Running
<1>6. Recovering' /\ Synced' /\ Compacting'
  BY <1>1, <1>2, <1>3
     DEF IInv, Recovering, Synced, Compacting, Opening, Running, Reading, NewDB, Control
<1> QED
  BY <1>4, <1>5, <1>6 DEF IInv

(* SetCurrentFile's temporary file is not what CURRENT names.              *)
LEMMA WriteTempKeeps == ASSUME IInv, WriteTemp PROVE IInv'
<1>1. IsDisk(disk) /\ main \in {"newdb_temp", "temp"}
      /\ main' = IF main = "temp" THEN "rename" ELSE "newdb_rename"
  BY DirectoryIs DEF IInv, WriteTemp
<1>2. PICK temps : disk' = [current |-> disk.current, manifests |-> disk.manifests,
                            tables |-> disk.tables, logs |-> disk.logs, temps |-> temps]
  <2>1. PICK number : number = ManifestToSet
    OBVIOUS
  <2> QED
    BY <1>1, <2>1 DEF WriteTemp, IsDisk
<1>3. IsDirectory(disk')
  <2>1. IsDisk(disk') /\ SameManifest(disk, disk')
    BY <1>1, <1>2 DEF IsDisk, SameManifest
  <2>2. \A files : SameTables(files, disk, disk')
    BY <1>2 DEF SameTables
  <2> QED
    BY <2>1, <2>2, DirectoryKept DEF IInv
<1>4. Manifest(disk') = Manifest(disk)
  BY <1>2 DEF Manifest
<1>5. Control' /\ Versions'
  BY <1>1, <1>2 DEF IInv, Control, Versions, WriteTemp, Opening, Reading, Running
<1>6. Recovering'
  <2>1. CASE main = "temp"
    <3>1. main' = "rename" /\ vs' = vs /\ rec' = rec /\ db' = db
      BY <1>1, <2>1 DEF WriteTemp
    <3> QED
      BY <1>2, <1>4, <2>1, <3>1 DEF IInv, Recovering, Opening, NextField
  <2>2. CASE main = "newdb_temp"
    <3>1. main' = "newdb_rename"
      BY <1>1, <2>2
    <3> QED
      BY <1>2, <2>2, <3>1 DEF IInv, Recovering, Opening
  <2> QED
    BY <1>1, <2>1, <2>2
<1>7. Synced' /\ Compacting'
  BY <1>1
     DEF IInv, Synced, Compacting, Opening, Running, Reading, WriteTemp, Control
<1> QED
  BY <1>3, <1>5, <1>6, <1>7 DEF IInv

(* From the renaming on CURRENT names the manifest of an empty database.   *)
LEMMA RenameNewDBKeeps == ASSUME IInv, RenameNewDB PROVE IInv'
<1>1. IsDisk(disk) /\ main = "newdb_rename" /\ main' = "recover" /\ ManifestToSet = 1
  BY DirectoryIs DEF IInv, RenameNewDB, ManifestToSet
<1>2. PICK temps : disk' = [current |-> 1, manifests |-> disk.manifests,
                            tables |-> disk.tables, logs |-> disk.logs, temps |-> temps]
  <2>1. PICK rest : rest = disk.temps \ {ManifestToSet}
    OBVIOUS
  <2> QED
    BY <1>1, <2>1 DEF RenameNewDB, Renamed, IsDisk
<1>3. PICK edit : /\ edit = [NoEdit EXCEPT !.log = 0, !.next = 2, !.last = 0]
                  /\ 1 \in DOMAIN disk.manifests /\ disk.manifests[1] = <<edit>>
  BY <1>1 DEF IInv, Recovering
<1>4. edit.next = 2 /\ edit.added = {}
  BY <1>3 DEF NoEdit
<1>5. Manifest(disk') = <<edit>>
  BY <1>2, <1>3 DEF Manifest
<1>6. IsDirectory(disk')
  <2>1. IsDisk(disk')
    BY <1>1, <1>2 DEF IsDisk
  <2>2. PICK S, one : S = {edit} /\ one = <<edit>>
    OBVIOUS
  <2>3. /\ one \in Seq(S) /\ Len(one) = 1 /\ DOMAIN one = {1} /\ one[1] = edit
        /\ one \in Seq(Range(one))
    BY <2>2 DEF Range
  <2>4. LastField(one, "next") = 2
    <3>1. Len(one) > 0 /\ one[Len(one)].next # Absent
      BY <1>4, <2>3 DEF Absent
    <3>2. LastField(one, "next") = one[Len(one)].next
      BY ONLY <2>3, <3>1, LastFieldOfLast
    <3> QED
      BY <1>4, <2>3, <3>2
  <2>5. \A l \in Levels : \A f : f \notin BuildVersion(one)[l]
    <3> SUFFICES ASSUME NEW l \in Levels, NEW f, f \in BuildVersion(one)[l] PROVE FALSE
      OBVIOUS
    <3>1. PICK i \in DOMAIN one : \E q \in one[i].added :
             /\ q[1] = l /\ q[2] = f
             /\ \A j \in (i + 1)..Len(one) : <<l, f.number>> \notin one[j].deleted
      BY BuildVersionIs, Zenon
    <3> QED
      BY <1>4, <2>3, <3>1
  <2>6. Manifest(disk') = one /\ NextOf(disk') = 2 /\ BuiltFiles(disk') = BuildVersion(one)
    BY <1>5, <2>2, <2>4 DEF NextOf, BuiltFiles
  <2>7. SoundFiles(BuiltFiles(disk'), disk'.tables, 2)
    BY <2>5, <2>6 DEF SoundFiles
  <2>8. NextOf(disk') \in Nat /\ disk'.current < NextOf(disk')
    BY <1>2, <2>6
  <2> QED
    BY <2>1, <2>3, <2>6, <2>7, <2>8, DirectoryIs
<1>7. Control' /\ Versions'
  BY <1>1, <1>2 DEF IInv, Control, Versions, RenameNewDB, Opening, Reading, Running
<1>8. Recovering' /\ Synced' /\ Compacting'
  BY <1>1 DEF IInv, Recovering, Synced, Compacting, Opening, Running, Reading, RenameNewDB, Control
<1> QED
  BY <1>6, <1>7, <1>8 DEF IInv

(* VersionSet::Recover: the version that the manifest describes, and the   *)
(* number for the next manifest.                                           *)
LEMMA RecoverKeeps == ASSUME IInv, Recover PROVE IInv'
<1>1. CASE ~Readable
  BY <1>1, GoneDown DEF Recover, IInv, Control
<1>2. CASE Readable
  <2>1. main = "recover" /\ main' = "logs" /\ disk' = disk /\ disk.current # 0 /\ ReadManifest
        /\ bg' = bg /\ c' = c /\ iter' = iter /\ db' = db /\ vs = NewVersionSet
        /\ runs' = runs /\ faults' = faults
    BY <1>2 DEF Recover, ReadManifest, IInv, Control
  <2>2. PICK n \in Nat : /\ n = NextOf(disk) /\ disk.current < n /\ disk.current \in Nat
                         /\ SoundFiles(BuiltFiles(disk), disk.tables, n)
    <3>1. LastField(Manifest(disk), "next") # Absent
      BY <1>2 DEF Readable
    <3> QED
      BY <3>1, DirectoryIs DEF IInv, NextOf, IsDisk
  <2>3. PICK files : files = BuiltFiles(disk)
    OBVIOUS
  <2>4. files = [l \in Levels |-> files[l]]
    BY <2>3, BuildVersionShape DEF BuiltFiles
  <2>5. PICK log, last : vs' = [NewVersionSet EXCEPT !.next = n + 1, !.manifest = n, !.last = last,
                                     !.log = log, !.versions[1].files = files]
    BY <2>1, <2>2, <2>3 DEF ReadManifest, NextOf, BuiltFiles
  <2>6. /\ vs'.next = n + 1 /\ vs'.manifest = n /\ vs'.current = 1
        /\ DOMAIN vs'.versions = {1}
        /\ vs'.versions[1] = [files |-> files, refs |-> 1, seek |-> {}]
        /\ vs' = [next |-> vs'.next, manifest |-> vs'.manifest, last |-> vs'.last,
                  log |-> vs'.log, current |-> vs'.current, versions |-> vs'.versions]
    <3>1. PICK versions : versions = [NewVersionSet.versions EXCEPT ![1].files = files]
      OBVIOUS
    <3>2. DOMAIN versions = {1} /\ versions[1] = [files |-> files, refs |-> 1, seek |-> {}]
      BY <3>1, NewVersionSetIs
    <3>3. vs' = [NewVersionSet EXCEPT !.next = n + 1, !.manifest = n, !.last = last,
                                      !.log = log, !.versions = versions]
      BY <2>5, <3>1
    <3> QED
      BY <3>2, <3>3, NewVersionSetIs DEF IsVersionSet
  <2>7. rec'.logs \subseteq DOMAIN disk.logs /\ rec'.edit = NoEdit /\ IsRecovery(rec')
    <3>1. PICK logs : logs = {k \in DOMAIN disk.logs : k >= vs'.log}
      OBVIOUS
    <3>2. rec' = [NoRecovery EXCEPT !.logs = logs]
      BY <2>1, <3>1 DEF ReadManifest
    <3> QED
      BY <3>1, <3>2 DEF NoRecovery, IsRecovery
  <2>8. Control'
    <3>1. db \in [scheduled : BOOLEAN, shutting : BOOLEAN, error : BOOLEAN,
                  pending : SUBSET (1..2), logfile : 0..2]
      BY <2>1, NewVersionSetIs DEF IInv, Control
    <3>2. (1..2) \subseteq 1..(n + 1) /\ (0..2) \subseteq 0..(n + 1)
      BY <2>1, <2>2
    <3>3. db' \in [scheduled : BOOLEAN, shutting : BOOLEAN, error : BOOLEAN,
                  pending : SUBSET (1..vs'.next), logfile : 0..vs'.next]
      BY <2>1, <2>6, <3>1, <3>2
    <3> QED
      BY <2>1, <3>3 DEF IInv, Control, Opening, Reading, Running
  <2>9. c.version = 0 /\ iter.version = 0
    BY <2>1 DEF IInv, Control, NoCompaction, NoIterator, Running, Reading
  <2>10. Versions'
    <3>1. Referenced(vs', 0, 0)
      BY <2>6 DEF Referenced, Refs
    <3>2. SoundFiles(files, disk.tables, n + 1)
      BY <2>2, <2>3, SoundLater
    <3>3. IsVersionSet(vs')
      BY <2>4, <2>6 DEF IsVersionSet
    <3> QED
      BY <2>1, <2>2, <2>6, <2>9, <3>1, <3>2, <3>3 DEF Versions
  <2>11. Recovering'
    <3>1. Current(vs').files = BuildVersion(Manifest(disk'))
      BY <2>1, <2>3, <2>6 DEF Current, BuiltFiles
    <3>2. IsEdit(NoEdit) /\ \A tables, next : SoundEdit(NoEdit, tables, next)
      BY DEF IsEdit, SoundEdit, NoEdit
    <3>3. DOMAIN disk.logs \subseteq Nat
      BY DirectoryIs DEF IInv, IsDisk
    <3> QED
      BY <2>1, <2>2, <2>6, <2>7, <3>1, <3>2, <3>3 DEF Recovering, NextField, NextOf
  <2>12. Synced' /\ Compacting'
    BY <2>1 DEF IInv, Control, Synced, Compacting, Running, Reading
  <2> QED
    BY <2>1, <2>8, <2>10, <2>11, <2>12 DEF IInv
<1> QED
  BY <1>1, <1>2

(* MarkFileNumberUsed gives numbers out and takes none back.               *)
LEMMA NumbersGrow ==
  ASSUME NEW s, IsVersionSet(s), s.next \in Nat, NEW number \in Nat
  PROVE  LET t == MarkFileNumberUsed(s, number)
         IN  /\ IsVersionSet(t) /\ t.next \in Nat /\ s.next <= t.next
             /\ t.manifest = s.manifest /\ t.current = s.current /\ t.versions = s.versions
<1>1. PICK next : next = Max({s.next, number + 1})
  OBVIOUS
<1>2. next \in Nat /\ s.next <= next
  BY <1>1, MaxOfTwo
<1>3. MarkFileNumberUsed(s, number) = [s EXCEPT !.next = next]
  BY <1>1 DEF MarkFileNumberUsed
<1> QED
  BY <1>2, <1>3 DEF IsVersionSet

(* A step of the recovery before the new manifest: numbers are given out   *)
(* and files written under them, and what CURRENT names stays as it was.   *)
LEMMA OpeningGoes ==
  ASSUME IInv, main = "logs", main' \in {"logs", "manifest"},
         IsVersionSet(vs'), vs'.next \in Nat, vs.next <= vs'.next,
         vs'.manifest = vs.manifest, vs'.current = vs.current, vs'.versions = vs.versions,
         IsDisk(disk'), SameManifest(disk, disk'),
         \A n \in DOMAIN disk.tables \ {vs.next} : n \in DOMAIN disk'.tables
                                                   /\ disk'.tables[n] = disk.tables[n],
         rec'.logs \subseteq rec.logs, IsRecovery(rec'), IsEdit(rec'.edit),
         SoundEdit(rec'.edit, disk'.tables, vs'.next),
         db' \in [scheduled : {FALSE}, shutting : BOOLEAN, error : {FALSE},
                  pending : SUBSET (1..vs'.next), logfile : 0..vs'.next],
         UNCHANGED <<bg, c, iter, runs, faults>>
  PROVE  IInv'
<1>1. SoundFiles(Current(vs).files, disk.tables, vs.next) /\ vs.next \in Nat
  BY DEF IInv, Versions, Referenced, Current
<1>2. \A files : SoundFiles(files, disk.tables, vs.next) => SameTables(files, disk, disk')
  <2> SUFFICES ASSUME NEW files, SoundFiles(files, disk.tables, vs.next),
                      NEW l \in Levels, NEW f \in files[l], f.number \in DOMAIN disk.tables
               PROVE  f.number \in DOMAIN disk'.tables
                      /\ disk'.tables[f.number] = disk.tables[f.number]
    BY DEF SameTables
  <2>1. f.number < vs.next
    BY DEF SoundFiles, Sound
  <2> QED
    BY <1>1, <2>1
<1>3. \A files : SoundFiles(files, disk.tables, vs.next)
                   => SoundFiles(files, disk'.tables, vs'.next)
  <2> SUFFICES ASSUME NEW files, SoundFiles(files, disk.tables, vs.next)
               PROVE  SoundFiles(files, disk'.tables, vs'.next)
    OBVIOUS
  <2>1. SoundFiles(files, disk'.tables, vs.next)
    BY <1>2, SameTablesSound
  <2> QED
    BY <1>1, <2>1, SoundLater
<1>4. Current(vs).files = BuiltFiles(disk)
  BY DEF IInv, Recovering, Opening, BuiltFiles
<1>5. IsDirectory(disk')
  BY <1>1, <1>2, <1>4, DirectoryKept DEF IInv
<1>6. Manifest(disk') = Manifest(disk)
  BY SameManifestReads
<1>7. Control'
  BY DEF IInv, Control, Opening, Reading, Running
<1>8. Versions'
  <2>1. Referenced(vs', c'.version, iter'.version)
    BY DEF IInv, Versions, Referenced
  <2>2. vs'.next \in Nat \ {0} /\ vs'.manifest \in Nat
    BY <1>1 DEF IInv, Versions
  <2> QED
    BY <1>3, <2>1, <2>2 DEF IInv, Versions
<1>9. Recovering'
  <2>1. Current(vs') = Current(vs)
    BY DEF Current
  <2>2. rec'.logs \subseteq Nat
    BY DEF IInv, Recovering, Opening
  <2>3. vs'.manifest < vs'.next
    BY <1>1 DEF IInv, Recovering, Opening, Versions
  <2> QED
    BY <1>6, <2>1, <2>2, <2>3 DEF IInv, Recovering, Opening, NextField
<1>10. Synced' /\ Compacting'
  BY DEF IInv, Control, Synced, Compacting, Running, Reading
<1> QED
  BY <1>5, <1>7, <1>8, <1>9, <1>10 DEF IInv

(* A log's records become tables under new numbers.                        *)
LEMMA RecoverLogFileKeeps == ASSUME IInv, RecoverLogFile PROVE IInv'
<1>1. /\ IsVersionSet(vs) /\ vs.next \in Nat /\ vs.next # 0 /\ main = "logs" /\ main' = "logs"
      /\ IsDisk(disk) /\ rec.logs \subseteq Nat /\ rec.logs # {}
      /\ IsEdit(rec.edit) /\ SoundEdit(rec.edit, disk.tables, vs.next)
  BY DirectoryIs DEF IInv, Versions, Recovering, Opening, RecoverLogFile
<1>2. UNCHANGED <<db, bg, c, iter, runs, faults>>
  BY DEF RecoverLogFile
<1>3. PICK log \in Nat : log = Min(rec.logs)
  BY <1>1, MinIn
<1>4. /\ db \in [scheduled : {FALSE}, shutting : BOOLEAN, error : {FALSE},
                 pending : SUBSET (1..vs.next), logfile : 0..vs.next]
  BY <1>1 DEF IInv, Control, Running, Reading
<1>5. \A n \in Nat : vs.next <= n =>
        db \in [scheduled : {FALSE}, shutting : BOOLEAN, error : {FALSE},
                pending : SUBSET (1..n), logfile : 0..n]
  <2> SUFFICES ASSUME NEW n \in Nat, vs.next <= n
               PROVE  (1..vs.next) \subseteq 1..n /\ (0..vs.next) \subseteq 0..n
    BY <1>4
  <2> QED
    BY <1>1
<1>6. IsRecovery(rec)
  BY <1>1 DEF IInv, Recovering, Opening
<1> DEFINE LogEnds == /\ vs' = MarkFileNumberUsed(vs, log) /\ disk' = disk
                      /\ rec' = [rec EXCEPT !.logs = @ \ {log}, !.from = 1]
           Makes(E) ==
             /\ disk' = [disk EXCEPT !.tables = Put(@, vs.next, E)]
             /\ \/ vs' = MarkFileNumberUsed([vs EXCEPT !.next = @ + 1], log)
                \/ vs' = [vs EXCEPT !.next = @ + 1]
             /\ \E logs \in SUBSET rec.logs : \E from, max :
                   rec' = [logs |-> logs, from |-> from,
                           edit |-> [rec.edit EXCEPT !.added = @ \cup {<<0, FileMetaData(vs.next, E)>>}],
                           max |-> max]
<1>7. CASE LogEnds
  <2>1. /\ IsVersionSet(vs') /\ vs'.next \in Nat /\ vs.next <= vs'.next
        /\ vs'.manifest = vs.manifest /\ vs'.current = vs.current /\ vs'.versions = vs.versions
    BY <1>1, <1>7, NumbersGrow
  <2>2. PICK logs : logs = rec.logs \ {log}
    OBVIOUS
  <2>3. rec' = [rec EXCEPT !.logs = logs, !.from = 1]
    BY <1>7, <2>2
  <2>4. rec'.logs \subseteq rec.logs /\ IsRecovery(rec') /\ rec'.edit = rec.edit
    BY <1>6, <2>2, <2>3 DEF IsRecovery
  <2>5. SoundEdit(rec'.edit, disk'.tables, vs'.next)
    BY <1>1, <1>7, <2>1, <2>4 DEF SoundEdit, Sound
  <2>6. SameManifest(disk, disk')
    BY <1>7 DEF SameManifest
  <2>7. db' \in [scheduled : {FALSE}, shutting : BOOLEAN, error : {FALSE},
                 pending : SUBSET (1..vs'.next), logfile : 0..vs'.next]
    BY <1>2, <1>5, <2>1
  <2> QED
    BY <1>1, <1>2, <1>7, <2>1, <2>4, <2>5, <2>6, <2>7, OpeningGoes
<1>8. CASE \E E : Makes(E)
  <2>1. PICK E, tables :
          /\ tables = Put(disk.tables, vs.next, E)
          /\ disk' = [disk EXCEPT !.tables = tables]
          /\ Makes(E)
    BY <1>8
  <2>2. PICK used : used = [vs EXCEPT !.next = @ + 1]
    OBVIOUS
  <2>3. /\ IsVersionSet(used) /\ used.next = vs.next + 1 /\ used.manifest = vs.manifest
        /\ used.current = vs.current /\ used.versions = vs.versions
    BY <1>1, <2>2 DEF IsVersionSet
  <2>4. /\ IsVersionSet(vs') /\ vs'.next \in Nat /\ vs.next + 1 <= vs'.next
        /\ vs'.manifest = vs.manifest /\ vs'.current = vs.current /\ vs'.versions = vs.versions
    <3>1. CASE vs' = used
      BY <1>1, <2>3, <3>1
    <3>2. CASE vs' = MarkFileNumberUsed(used, log)
      <4>1. used.next \in Nat
        BY <1>1, <2>3
      <4> QED
        BY <2>3, <3>2, <4>1, NumbersGrow
    <3> QED
      BY <2>1, <2>2, <3>1, <3>2
  <2>5. PICK file : file = FileMetaData(vs.next, E)
    OBVIOUS
  <2>6. PICK added : added = rec.edit.added \cup {<<0, file>>}
    OBVIOUS
  <2>7. PICK logs \in SUBSET rec.logs : \E from, max :
           rec' = [logs |-> logs, from |-> from, edit |-> [rec.edit EXCEPT !.added = added],
                   max |-> max]
    BY <2>1, <2>5, <2>6
  <2>8. rec'.logs \subseteq rec.logs /\ IsRecovery(rec')
        /\ rec'.edit = [rec.edit EXCEPT !.added = added]
    BY <2>7 DEF IsRecovery
  <2>9. IsEdit(rec'.edit) /\ rec'.edit.added = added
    BY <1>1, <2>8 DEF IsEdit
  <2>10. /\ disk' = [current |-> disk.current, manifests |-> disk.manifests, tables |-> tables,
                     logs |-> disk.logs, temps |-> disk.temps]
         /\ DOMAIN tables = DOMAIN disk.tables \cup {vs.next} /\ tables[vs.next] = E
         /\ \A n \in DOMAIN disk.tables \ {vs.next} : tables[n] = disk.tables[n]
    BY <1>1, <2>1 DEF IsDisk, Put
  <2>11. SoundEdit(rec'.edit, disk'.tables, vs'.next)
    <3>1. Sound(file, tables, vs'.next)
      BY <1>1, <2>4, <2>5, <2>10 DEF Sound, FileMetaData
    <3>2. ASSUME NEW p \in rec.edit.added PROVE Sound(p[2], tables, vs'.next)
      <4>1. Sound(p[2], disk.tables, vs.next)
        BY <1>1 DEF SoundEdit
      <4> QED
        BY <1>1, <2>4, <2>10, <4>1 DEF Sound
    <3>3. <<0, file>>[2] = file
      OBVIOUS
    <3> QED
      BY <2>6, <2>9, <2>10, <3>1, <3>2, <3>3 DEF SoundEdit
  <2>12. SameManifest(disk, disk') /\ IsDisk(disk')
    BY <1>1, <2>10 DEF SameManifest, IsDisk
  <2>13. db' \in [scheduled : {FALSE}, shutting : BOOLEAN, error : {FALSE},
                  pending : SUBSET (1..vs'.next), logfile : 0..vs'.next]
    <3>1. vs.next <= vs'.next
      BY <1>1, <2>4
    <3> QED
      BY <1>2, <1>5, <2>4, <3>1
  <2>14. vs.next <= vs'.next
    BY <1>1, <2>4
  <2> QED
    BY <1>1, <1>2, <2>4, <2>8, <2>9, <2>10, <2>11, <2>12, <2>13, <2>14, OpeningGoes
<1>9. LogEnds \/ \E E : Makes(E)
  BY <1>1, <1>3 DEF RecoverLogFile
<1> QED
  BY <1>7, <1>8, <1>9

(* The new log has a new number too.                                       *)
LEMMA NewLogKeeps == ASSUME IInv, NewLog PROVE IInv'
<1>1. /\ IsVersionSet(vs) /\ vs.next \in Nat /\ vs.next # 0 /\ main = "logs" /\ main' = "manifest"
      /\ IsDisk(disk) /\ IsRecovery(rec)
      /\ IsEdit(rec.edit) /\ SoundEdit(rec.edit, disk.tables, vs.next)
      /\ UNCHANGED <<rec, bg, c, iter, runs, faults>>
  BY DirectoryIs DEF IInv, Versions, Recovering, Opening, NewLog
<1>2. PICK next, last : next = vs.next + 1 /\ vs' = [vs EXCEPT !.next = next, !.last = last]
  BY DEF NewLog
<1>3. /\ IsVersionSet(vs') /\ vs'.next = vs.next + 1 /\ vs'.manifest = vs.manifest
      /\ vs'.current = vs.current /\ vs'.versions = vs.versions
  BY <1>1, <1>2 DEF IsVersionSet
<1>4. PICK logs : logs = Put(disk.logs, vs.next, << >>)
  OBVIOUS
<1>5. disk' = [current |-> disk.current, manifests |-> disk.manifests, tables |-> disk.tables,
               logs |-> logs, temps |-> disk.temps]
  BY <1>1, <1>4 DEF NewLog, IsDisk
<1>6. DOMAIN logs = DOMAIN disk.logs \cup {vs.next}
  BY <1>4 DEF Put
<1>7. IsDisk(disk') /\ SameManifest(disk, disk') /\ disk'.tables = disk.tables
  BY <1>1, <1>5, <1>6 DEF IsDisk, SameManifest
<1>8. SoundEdit(rec'.edit, disk'.tables, vs'.next)
  BY <1>1, <1>3, <1>7 DEF SoundEdit, Sound
<1>9. db' \in [scheduled : {FALSE}, shutting : BOOLEAN, error : {FALSE},
               pending : SUBSET (1..vs'.next), logfile : 0..vs'.next]
  <2>1. db \in [scheduled : {FALSE}, shutting : BOOLEAN, error : {FALSE},
                pending : SUBSET (1..vs.next), logfile : 0..vs.next]
    BY <1>1 DEF IInv, Control, Running, Reading
  <2>2. (1..vs.next) \subseteq 1..vs'.next /\ vs.next \in 0..vs'.next
    BY <1>1, <1>3
  <2>3. db' = [db EXCEPT !.logfile = vs.next]
    BY DEF NewLog
  <2> QED
    BY <2>1, <2>2, <2>3
<1>10. vs.next <= vs'.next /\ vs'.next \in Nat
  BY <1>1, <1>3
<1> QED
  BY <1>1, <1>3, <1>7, <1>8, <1>9, <1>10, OpeningGoes

(* The new manifest gets the number that the old one had kept for it, so   *)
(* that it is written beside the old one and not over it.                  *)
LEMMA ManifestIsNew ==
  ASSUME IInv, main \in Opening
  PROVE  /\ disk.current < vs.manifest /\ disk.current \in Nat
         /\ vs.manifest \in Nat /\ vs.next \in Nat
         /\ SoundFiles(BuiltFiles(disk), disk.tables, vs.next)
<1>1. vs.manifest = NextOf(disk) /\ vs.manifest \in Nat /\ vs.next \in Nat
  BY DEF IInv, Recovering, Versions, NextField, NextOf
<1>2. disk.current < NextOf(disk) /\ disk.current \in Nat
  BY <1>1, DirectoryIs DEF IInv, Absent, IsDisk
<1>3. BuiltFiles(disk) = Current(vs).files
  BY DEF IInv, Recovering, BuiltFiles
<1> QED
  BY <1>1, <1>2, <1>3 DEF IInv, Versions, Referenced, Current

(* So CURRENT and what it names stay.                                      *)
LEMMA WriteManifestKeeps == ASSUME IInv, WriteManifest PROVE IInv'
<1>1. /\ IsDisk(disk) /\ main = "manifest" /\ main' = "temp"
      /\ UNCHANGED <<rec, vs, db, bg, c, iter, runs, faults>>
  BY DirectoryIs DEF IInv, WriteManifest
<1>2. disk.current < vs.manifest /\ vs.manifest \in Nat
  BY <1>1, ManifestIsNew DEF Opening
<1>3. PICK content : content = <<WriteSnapshot(Current(vs).files),
                                 Completed(rec.edit, vs, db.logfile)>>
  OBVIOUS
<1>4. PICK manifests : manifests = Put(disk.manifests, vs.manifest, content)
  OBVIOUS
<1>5. disk' = [current |-> disk.current, manifests |-> manifests,
               tables |-> disk.tables, logs |-> disk.logs, temps |-> disk.temps]
  BY <1>1, <1>3, <1>4 DEF WriteManifest, IsDisk
<1>6. /\ DOMAIN manifests = DOMAIN disk.manifests \cup {vs.manifest}
      /\ manifests[vs.manifest] = content
      /\ \A n \in DOMAIN disk.manifests \ {vs.manifest} : manifests[n] = disk.manifests[n]
  BY <1>4 DEF Put
<1>7. IsDisk(disk') /\ SameManifest(disk, disk')
  BY <1>1, <1>2, <1>5, <1>6 DEF IsDisk, SameManifest
<1>8. IsDirectory(disk')
  <2>1. \A files : SameTables(files, disk, disk')
    BY <1>5 DEF SameTables
  <2> QED
    BY <1>7, <2>1, DirectoryKept DEF IInv
<1>9. Manifest(disk') = Manifest(disk)
  BY <1>7, SameManifestReads
<1>10. Control' /\ Versions'
  BY <1>1, <1>5 DEF IInv, Control, Versions, Opening, Reading, Running
<1>11. Recovering'
  <2>1. vs'.manifest \in DOMAIN disk'.manifests
    BY <1>1, <1>5, <1>6
  <2>2. disk'.manifests[vs'.manifest] =
          <<WriteSnapshot(Current(vs').files), Completed(rec'.edit, vs', db'.logfile)>>
    BY <1>1, <1>3, <1>5, <1>6
  <2>3. /\ vs'.manifest = NextField' /\ vs'.manifest < vs'.next
        /\ Current(vs').files = BuildVersion(Manifest(disk'))
        /\ IsRecovery(rec') /\ rec'.logs \subseteq Nat
        /\ IsEdit(rec'.edit) /\ SoundEdit(rec'.edit, disk'.tables, vs'.next)
    BY <1>1, <1>5, <1>9 DEF IInv, Recovering, Opening, NextField
  <2> QED
    BY <1>1, <2>1, <2>2, <2>3 DEF Recovering
<1>12. Synced' /\ Compacting'
  BY <1>1 DEF IInv, Control, Synced, Compacting, Running, Reading
<1> QED
  BY <1>8, <1>10, <1>11, <1>12 DEF IInv

(* The files of the current version and those that an edit adds to it.     *)
LEMMA ApplyEditSound ==
  ASSUME NEW files, NEW edit, NEW tables, NEW next, SoundFiles(files, tables, next),
         SoundEdit(edit, tables, next)
  PROVE  SoundFiles(ApplyEdit(files, edit), tables, next)
<1> SUFFICES ASSUME NEW l \in Levels, NEW f \in ApplyEdit(files, edit)[l]
             PROVE  Sound(f, tables, next)
  BY DEF SoundFiles
<1>1. f \in files[l] \/ \E q \in edit.added : q[1] = l /\ q[2] = f
  <2>1. f \in ApplyEdit(files, edit)[l]
    OBVIOUS
  <2> QED
    BY <2>1 DEF ApplyEdit
<1> QED
  BY <1>1 DEF SoundFiles, SoundEdit

(* CURRENT is switched to the new manifest, and the version that this      *)
(* manifest describes is installed: the recovered one with the tables made *)
(* of the logs.                                                            *)
LEMMA RenameAndInstallKeeps == ASSUME IInv, RenameAndInstall PROVE IInv'
<1>1. /\ IsDisk(disk) /\ main = "rename" /\ main' = "opened" /\ ManifestToSet = vs.manifest
      /\ UNCHANGED <<db, bg, c, iter, runs, faults>>
      /\ IsVersionSet(vs) /\ vs.next \in Nat /\ vs.manifest \in Nat /\ vs.manifest < vs.next
      /\ IsEdit(rec.edit) /\ SoundEdit(rec.edit, disk.tables, vs.next)
      /\ Referenced(vs, c.version, iter.version)
  BY DirectoryIs DEF IInv, RenameAndInstall, ManifestToSet, Versions, Recovering, Opening
<1>2. bg = "idle" /\ c.version = 0 /\ iter.version = 0
  BY <1>1 DEF IInv, Control, NoCompaction, NoIterator, Running, Reading
<1>3. PICK temps : disk' = [current |-> vs.manifest, manifests |-> disk.manifests,
                            tables |-> disk.tables, logs |-> disk.logs, temps |-> temps]
  <2>1. PICK rest : rest = disk.temps \ {ManifestToSet}
    OBVIOUS
  <2> QED
    BY <1>1, <2>1 DEF RenameAndInstall, Renamed, IsDisk
<1>4. PICK files, snapshot, edit :
         /\ files = Current(vs).files /\ snapshot = WriteSnapshot(files)
         /\ edit = Completed(rec.edit, vs, db.logfile)
  OBVIOUS
<1>5. files = [l \in Levels |-> files[l]] /\ SoundFiles(files, disk.tables, vs.next)
  BY <1>1, <1>4 DEF IInv, Versions, IsVersionSet, Current, Referenced
<1>6. /\ vs.manifest \in DOMAIN disk.manifests
      /\ disk.manifests[vs.manifest] = <<snapshot, edit>>
  BY <1>1, <1>4 DEF IInv, Recovering
<1>7. Manifest(disk') = <<snapshot, edit>>
  BY <1>3, <1>6 DEF Manifest
<1>8. edit.next = vs.next /\ edit.added = rec.edit.added /\ edit.deleted = rec.edit.deleted
  BY <1>1, <1>4 DEF Completed, IsEdit
<1>9. BuildVersion(Manifest(disk')) = ApplyEdit(files, rec.edit)
  <2>1. BuildVersion(<<snapshot, edit>>) = ApplyEdit(files, edit)
    BY <1>4, <1>5, BuildSnapshot
  <2>2. ApplyEdit(files, edit) = ApplyEdit(files, rec.edit)
    BY <1>8 DEF ApplyEdit
  <2> QED
    BY <1>7, <2>1, <2>2
<1>10. SoundFiles(ApplyEdit(files, rec.edit), disk'.tables, vs.next)
  BY <1>1, <1>3, <1>5, ApplyEditSound
<1>11. PICK S, two : S = {snapshot, edit} /\ two = <<snapshot, edit>>
  OBVIOUS
<1>12. two \in Seq(S) /\ Len(two) = 2 /\ two[2] = edit /\ two \in Seq(Range(two))
  BY <1>11 DEF Range
<1>13. LastField(two, "next") = vs.next
  <2>1. Len(two) > 0 /\ two[Len(two)].next # Absent /\ two[Len(two)].next = vs.next
    BY <1>1, <1>8, <1>12 DEF Absent
  <2>2. LastField(two, "next") = two[Len(two)].next
    BY ONLY <1>12, <2>1, LastFieldOfLast
  <2> QED
    BY <2>1, <2>2
<1>14. IsDirectory(disk')
  <2>1. IsDisk(disk')
    BY <1>1, <1>3 DEF IsDisk
  <2>2. NextOf(disk') = vs.next /\ disk'.current < vs.next
        /\ BuiltFiles(disk') = ApplyEdit(files, rec.edit) /\ Manifest(disk') = two
    BY <1>1, <1>3, <1>7, <1>9, <1>11, <1>13 DEF NextOf, BuiltFiles
  <2> QED
    BY <1>1, <1>10, <1>12, <2>1, <2>2, DirectoryIs
<1>15. PICK t : t = AppendVersion(vs, rec.edit)
  OBVIOUS
<1>16. /\ IsVersionSet(t) /\ Referenced(t, 0, 0)
       /\ t.next = vs.next /\ t.manifest = vs.manifest
       /\ Current(t).files = ApplyEdit(files, rec.edit) /\ Current(t).seek = {}
       /\ \A v \in DOMAIN t.versions : v # t.current =>
             /\ v \in DOMAIN vs.versions
             /\ t.versions[v].files = vs.versions[v].files
             /\ t.versions[v].seek = vs.versions[v].seek
  BY <1>1, <1>2, <1>4, <1>15, AppendVersionCounts
<1>17. vs' = [t EXCEPT !.log = db.logfile]
  BY <1>15 DEF RenameAndInstall
<1>18. /\ IsVersionSet(vs') /\ vs'.next = t.next /\ vs'.manifest = t.manifest
       /\ vs'.current = t.current /\ vs'.versions = t.versions
  BY <1>16, <1>17 DEF IsVersionSet
<1>19. Control'
  <2>1. vs'.next = vs.next
    BY <1>16, <1>18
  <2> QED
    BY <1>1, <1>2, <2>1 DEF IInv, Control, Opening, Reading, Running
<1>20. Versions'
  <2>1. Referenced(vs', c'.version, iter'.version)
    BY <1>1, <1>2, <1>16, <1>18 DEF Referenced
  <2>2. ASSUME NEW v \in DOMAIN vs'.versions
        PROVE  /\ SoundFiles(vs'.versions[v].files, disk'.tables, vs'.next)
               /\ \A p \in vs'.versions[v].seek :
                     p[1] \in Levels /\ p[2] \in vs'.versions[v].files[p[1]]
    <3>1. DOMAIN vs'.versions = {vs'.current}
      BY <1>1, <1>2, <2>1 DEF Referenced
    <3>2. v = t.current
      BY <1>18, <3>1
    <3> QED
      BY <1>10, <1>16, <1>18, <3>2 DEF Current
  <2> QED
    BY <1>1, <1>16, <1>18, <2>1, <2>2 DEF IInv, Versions
<1>21. Recovering' /\ Compacting'
  BY <1>1, <1>2 DEF Recovering, Compacting, Opening
<1>22. Synced'
  <2>1. Current(vs').files = ApplyEdit(files, rec.edit)
    BY <1>16, <1>18 DEF Current
  <2>2. NextField' = vs.next
    BY <1>7, <1>11, <1>13 DEF NextField
  <2> QED
    BY <1>1, <1>2, <1>3, <1>6, <1>9, <1>16, <1>18, <2>1, <2>2 DEF Synced
<1> QED
  BY <1>14, <1>19, <1>20, <1>21, <1>22 DEF IInv

-----------------------------------------------------------------------------
(* What is deleted.  DeleteObsoleteFiles keeps the manifest of CURRENT and *)
(* every table that is live.                                               *)
LEMMA CleanedKeeps ==
  ASSUME NEW d, IsDirectory(d), NEW live, NEW log, NEW manifest, d.current = manifest,
         NEW e, e = Cleaned(d, live, log, manifest)
  PROVE  /\ IsDisk(e) /\ SameManifest(d, e)
         /\ \A files : (\A l \in Levels : \A f \in files[l] : f.number \in live)
                          => SameTables(files, d, e)
<1>1. PICK T, L, M, temps :
         /\ T = DOMAIN d.tables \cap live /\ L = {n \in DOMAIN d.logs : n >= log}
         /\ M = {n \in DOMAIN d.manifests : n >= manifest} /\ temps = d.temps \cap live
  OBVIOUS
<1>2. e = [d EXCEPT !.tables = Restrict(d.tables, T), !.temps = temps,
                    !.logs = Restrict(d.logs, L), !.manifests = Restrict(d.manifests, M)]
  BY <1>1 DEF Cleaned
<1>3. PICK tables, logs, manifests :
         /\ tables = Restrict(d.tables, T) /\ logs = Restrict(d.logs, L)
         /\ manifests = Restrict(d.manifests, M)
  OBVIOUS
<1>4. d = [current |-> d.current, manifests |-> d.manifests, tables |-> d.tables,
           logs |-> d.logs, temps |-> d.temps]
  BY DirectoryIs DEF IsDisk
<1>5. e = [d EXCEPT !.tables = tables, !.temps = temps, !.logs = logs, !.manifests = manifests]
  BY <1>2, <1>3
<1>6. e = [current |-> d.current, manifests |-> manifests, tables |-> tables, logs |-> logs,
           temps |-> temps]
  BY ONLY <1>4, <1>5
<1>7. e = [current |-> d.current, manifests |-> Restrict(d.manifests, M),
           tables |-> Restrict(d.tables, T), logs |-> Restrict(d.logs, L), temps |-> temps]
  BY <1>3, <1>6
<1>8. /\ T \subseteq DOMAIN d.tables /\ (DOMAIN d.tables \cap live) \subseteq T
      /\ L \subseteq DOMAIN d.logs /\ M \subseteq DOMAIN d.manifests
      /\ {n \in DOMAIN d.manifests : n >= manifest} \subseteq M
  BY <1>1
<1> QED
  BY <1>7, <1>8, CleaningKeeps

(* The files of a version are live.                                        *)
LEMMA FilesAreLive ==
  ASSUME NEW s, NEW v \in DOMAIN s.versions, NEW l \in Levels, NEW f \in s.versions[v].files[l]
  PROVE  f.number \in LiveFiles(s)
<1>1. f.number \in FileNumbers(s.versions[v].files)
  BY DEF FileNumbers
<1> QED
  BY <1>1 DEF LiveFiles

(* So after DeleteObsoleteFiles, finished or not, the directory is one and *)
(* the files of all versions are there, when the versions s belong to the  *)
(* manifest of CURRENT.                                                    *)
LEMMA ObsoleteFilesOnly ==
  ASSUME NEW d, IsDirectory(d), NEW e, NEW s, s.current \in DOMAIN s.versions,
         BuiltFiles(d) = s.versions[s.current].files,
         IsDisk(e), SameManifest(d, e),
         \A files : (\A l \in Levels : \A f \in files[l] : f.number \in LiveFiles(s))
                          => SameTables(files, d, e)
  PROVE  /\ IsDirectory(e)
         /\ \A v \in DOMAIN s.versions : SameTables(s.versions[v].files, d, e)
<1>1. \A v \in DOMAIN s.versions : SameTables(s.versions[v].files, d, e)
  <2> TAKE v \in DOMAIN s.versions
  <2>1. \A l \in Levels : \A f \in s.versions[v].files[l] : f.number \in LiveFiles(s)
    BY FilesAreLive
  <2>2. PICK files : files = s.versions[v].files
    OBVIOUS
  <2> QED
    BY <2>1, <2>2
<1>2. IsDirectory(e)
  BY <1>1, DirectoryKept
<1> QED
  BY <1>1, <1>2

(* MaybeScheduleCompaction asks for a compaction only when it may run.     *)
LEMMA MaybeScheduled ==
  ASSUME NEW d, NEW s, NEW n,
         d \in [scheduled : BOOLEAN, shutting : BOOLEAN, error : BOOLEAN,
                pending : SUBSET (1..n), logfile : 0..n]
  PROVE  LET t == MaybeScheduleCompaction(d, s)
         IN  /\ t \in [scheduled : BOOLEAN, shutting : BOOLEAN, error : BOOLEAN,
                       pending : SUBSET (1..n), logfile : 0..n]
             /\ t.error = d.error /\ t.shutting = d.shutting
             /\ d.scheduled => t.scheduled
             /\ t.scheduled /\ ~d.scheduled => ~d.error
<1>1. PICK need \in BOOLEAN :
         need <=> d.scheduled \/ (~d.shutting /\ ~d.error /\ NeedsCompaction(Current(s)))
  OBVIOUS
<1>2. MaybeScheduleCompaction(d, s) = [d EXCEPT !.scheduled = need]
  <2>1. (d.scheduled \/ (~d.shutting /\ ~d.error /\ NeedsCompaction(Current(s)))) = need
    BY <1>1, Zenon
  <2> QED
    BY <2>1 DEF MaybeScheduleCompaction
<1>3. [d EXCEPT !.scheduled = need].scheduled = need
  OBVIOUS
<1> QED
  BY <1>1, <1>2, <1>3

(* The last step of DB::Open deletes what is obsolete.                     *)
LEMMA OpenedKeeps == ASSUME IInv, Opened PROVE IInv'
<1>1. /\ main = "opened" /\ main' = "open" /\ bg = "idle" /\ ~db.error
      /\ UNCHANGED <<rec, vs, bg, c, iter, runs, faults>>
      /\ c.version = 0 /\ iter.version = 0
  BY DEF IInv, Control, Opened, NoCompaction, NoIterator, Running, Reading
<1>2. /\ disk.current = vs.manifest /\ BuiltFiles(disk) = Current(vs).files
      /\ vs.manifest \in DOMAIN disk.manifests
      /\ NextField \in Nat /\ NextField <= vs.next
  BY <1>1 DEF IInv, Synced, Running, BuiltFiles
<1>3. vs.current \in DOMAIN vs.versions
  BY DEF IInv, Versions, Referenced
<1>4. /\ IsDisk(disk') /\ SameManifest(disk, disk')
      /\ \A files : (\A l \in Levels : \A f \in files[l] : f.number \in LiveFiles(vs))
                       => SameTables(files, disk, disk')
  <2>1. PICK live : live = db.pending \cup LiveFiles(vs)
    OBVIOUS
  <2>2. PICK log, manifest : log = vs.log /\ manifest = vs.manifest
    OBVIOUS
  <2>3. disk' = Cleaned(disk, live, log, manifest)
    BY <1>1, <2>1, <2>2 DEF Opened, DeleteObsoleteFiles
  <2>4. /\ IsDisk(disk') /\ SameManifest(disk, disk')
        /\ \A files : (\A l \in Levels : \A f \in files[l] : f.number \in live)
                         => SameTables(files, disk, disk')
    BY <1>2, <2>2, <2>3, CleanedKeeps DEF IInv
  <2> QED
    BY <2>1, <2>4
<1>5. /\ IsDirectory(disk')
      /\ \A v \in DOMAIN vs.versions : SameTables(vs.versions[v].files, disk, disk')
  BY <1>2, <1>3, <1>4, ObsoleteFilesOnly DEF IInv, Current
<1>6. Versions'
  <2>1. \A v \in DOMAIN vs.versions : SoundFiles(vs.versions[v].files, disk'.tables, vs.next)
    BY <1>5, SameTablesSound DEF IInv, Versions
  <2> QED
    BY <1>1, <2>1 DEF IInv, Versions
<1>7. Control'
  <2>1. /\ db' \in [scheduled : BOOLEAN, shutting : BOOLEAN, error : BOOLEAN,
                    pending : SUBSET (1..vs'.next), logfile : 0..vs'.next]
        /\ ~db'.error
    BY <1>1, MaybeScheduled DEF IInv, Control, Opened
  <2> QED
    BY <1>1, <2>1 DEF IInv, Control, Opening, Running, Reading
<1>8. Synced'
  <2>1. Manifest(disk') = Manifest(disk)
    BY <1>4, SameManifestReads
  <2>2. disk'.current = disk.current /\ vs.manifest \in DOMAIN disk'.manifests
    BY <1>2, <1>4 DEF SameManifest
  <2> QED
    BY <1>1, <1>2, <2>1, <2>2 DEF Synced, NextField, BuiltFiles
<1>9. Recovering' /\ Compacting'
  BY <1>1 DEF Recovering, Compacting, Opening
<1> QED
  BY <1>5, <1>6, <1>7, <1>8, <1>9 DEF IInv

-----------------------------------------------------------------------------
(* Reading.  A step that leaves the directory alone, and of the versions   *)
(* changes only who refers to them, keeps their files and the manifest's.  *)
LEMMA FilesStay ==
  ASSUME IInv, disk' = disk, IsVersionSet(vs'), SameVersions(vs, vs'),
         Referenced(vs', c'.version, iter'.version),
         main \in Running, main' \in Running
  PROVE  /\ IsDirectory(disk') /\ Versions' /\ Recovering'
         /\ Current(vs').files = Current(vs).files
<1>1. Versions'
  BY DEF IInv, Versions, SameVersions
<1>2. Recovering'
  BY DEF Recovering, Running, Reading, Opening
<1>3. Current(vs').files = Current(vs).files
  BY DEF SameVersions, Current, Referenced
<1> QED
  BY <1>1, <1>2, <1>3 DEF IInv

(* What the background thread works on stays what it is.                   *)
LEMMA CompactionStays ==
  ASSUME IInv, disk' = disk, UNCHANGED <<bg, c>>, SameVersions(vs, vs')
  PROVE  Compacting'
BY DEF IInv, Compacting, SameVersions

(* The manifest and the current version still agree.                       *)
LEMMA StaysSynced ==
  ASSUME IInv, main \in Running, disk' = disk, UNCHANGED <<bg, c>>, SameVersions(vs, vs'),
         Current(vs').files = Current(vs).files, db'.error = db.error
  PROVE  Synced'
BY DEF IInv, Synced, SameVersions, NextField

(* NewIterator refers to the version that is current.                      *)
LEMMA NewIteratorKeeps == ASSUME IInv, NewIterator PROVE IInv'
<1>1. /\ main = "open" /\ main' = "seek" /\ iter'.version = vs.current
      /\ vs' = Ref(vs, vs.current) /\ iter.version = 0
      /\ UNCHANGED <<disk, rec, db, bg, c, runs, faults>>
      /\ vs.current \in DOMAIN vs.versions /\ vs.current # 0
  BY DEF IInv, Control, Versions, Referenced, NewIterator, Reading, NoIterator
<1>2. IsVersionSet(vs') /\ SameVersions(vs, vs') /\ Referenced(vs', c'.version, iter'.version)
  BY <1>1, RefCounts, RefByIterator DEF IInv, Versions
<1>3. main \in Running /\ main' \in Running
  BY <1>1 DEF Running, Reading
<1>4. IsDirectory(disk') /\ Versions' /\ Recovering' /\ Current(vs').files = Current(vs).files
  BY <1>1, <1>2, <1>3, FilesStay
<1>5. Compacting' /\ Synced'
  BY <1>1, <1>2, <1>3, <1>4, CompactionStays, StaysSynced
<1>6. Control'
  BY <1>1, <1>2 DEF IInv, Control, Opening, Reading, Running, SameVersions
<1> QED
  BY <1>4, <1>5, <1>6 DEF IInv

(* Deleting the iterator gives its version up.                             *)
LEMMA DeleteIteratorKeeps == ASSUME IInv, DeleteIterator PROVE IInv'
<1>1. /\ main = "release" /\ main' = "delete" /\ iter' = NoIterator /\ iter'.version = 0
      /\ vs' = Unref(vs, iter.version) /\ iter.version # 0
      /\ UNCHANGED <<disk, rec, db, bg, c, runs, faults>>
      /\ Referenced(vs, c.version, iter.version) /\ IsVersionSet(vs)
  BY DEF IInv, Control, Versions, DeleteIterator, Reading, NoIterator
<1>2. iter.version \in DOMAIN vs.versions
  BY <1>1 DEF Referenced
<1>3. IsVersionSet(vs') /\ SameVersions(vs, vs') /\ Referenced(vs', c'.version, iter'.version)
  BY <1>1, <1>2, UnrefCounts, UnrefByIterator
<1>4. main \in Running /\ main' \in Running
  BY <1>1 DEF Running, Reading
<1>5. IsDirectory(disk') /\ Versions' /\ Recovering' /\ Current(vs').files = Current(vs).files
  BY <1>1, <1>3, <1>4, FilesStay
<1>6. Compacting' /\ Synced'
  BY <1>1, <1>3, <1>4, <1>5, CompactionStays, StaysSynced
<1>7. Control'
  BY <1>1, <1>3 DEF IInv, Control, Opening, Reading, Running, SameVersions
<1> QED
  BY <1>5, <1>6, <1>7 DEF IInv

(* The destructor of DBImpl begins to wait.                                *)
LEMMA ShutDownKeeps == ASSUME IInv, ShutDown PROVE IInv'
<1>1. /\ main = "delete" /\ main' = "wait" /\ db' = [db EXCEPT !.shutting = TRUE]
      /\ UNCHANGED <<disk, rec, vs, bg, c, iter, runs, faults>>
  BY DEF ShutDown
<1>2. db'.error = db.error
  BY <1>1 DEF IInv, Control
<1>3. Control'
  BY <1>1 DEF IInv, Control, Opening, Reading, Running
<1>4. IsDirectory(disk') /\ Versions'
  BY <1>1 DEF IInv, Versions
<1>5. Recovering' /\ Synced' /\ Compacting'
  BY <1>1, <1>2
     DEF IInv, Recovering, Synced, Compacting, Opening, Running, Reading, NextField
<1> QED
  BY <1>3, <1>4, <1>5 DEF IInv

(* A read that samples a file of the current version may ask for its       *)
(* compaction.                                                             *)
LEMMA SampleKeeps ==
  ASSUME IInv, main \in Reading, main' \in Reading, NEW passed, RecordReadSample(passed),
         iter'.version = iter.version, UNCHANGED <<disk, rec, bg, c, runs, faults>>
  PROVE  IInv'
<1>1. main \in Running /\ main' \in Running /\ iter.version # 0 /\ IsVersionSet(vs)
      /\ Referenced(vs, c.version, iter.version)
  BY DEF IInv, Control, Versions, Running
<1>2. CASE UNCHANGED <<vs, db>>
  <2>1. IsDirectory(disk') /\ Versions' /\ Compacting'
    BY <1>2 DEF IInv, Versions, Compacting
  <2>2. Recovering' /\ Synced'
    BY <1>1, <1>2 DEF IInv, Recovering, Synced, Running, Reading, Opening, NextField
  <2>3. Control'
    BY <1>1, <1>2 DEF IInv, Control, Running, Reading, Opening
  <2> QED
    BY <2>1, <2>2, <2>3 DEF IInv
<1>3. CASE ~UNCHANGED <<vs, db>>
  <2>1. PICK pairs : /\ \E e : pairs = Overlapping(Current(vs).files, e)
                     /\ Cardinality(pairs) >= 2
                     /\ vs' = [vs EXCEPT !.versions[vs.current].seek = {FirstMatch(pairs)}]
                     /\ db' = MaybeScheduleCompaction(db, vs')
    BY <1>3 DEF RecordReadSample
  <2>2. pairs # {}
    BY <2>1, FS_EmptySet
  <2>3. vs.current \in DOMAIN vs.versions /\ Current(vs).files = vs.versions[vs.current].files
    BY <1>1 DEF Referenced, Current
  <2>4. \A p \in pairs : /\ p = <<p[1], p[2]>> /\ p[1] \in Levels /\ p[1] \in Nat
                         /\ p[2] \in vs.versions[vs.current].files[p[1]]
    BY <2>1, <2>3, OverlappingIn
  <2>5. \A p \in pairs : Sound(p[2], disk.tables, vs.next)
    BY <2>3, <2>4 DEF IInv, Versions, SoundFiles
  <2>6. PICK match \in pairs : match = FirstMatch(pairs)
    <3>1. vs.next \in Nat
      BY DEF IInv, Versions
    <3> QED
      BY <2>2, <2>4, <2>5, <3>1, FirstMatchIn
  <2>7. PICK versions : versions = [vs.versions EXCEPT ![vs.current].seek = {match}]
    OBVIOUS
  <2>8. vs' = [vs EXCEPT !.versions = versions]
    BY <2>1, <2>6, <2>7
  <2>9. /\ vs'.next = vs.next /\ vs'.manifest = vs.manifest /\ vs'.current = vs.current
        /\ vs'.versions = versions
        /\ vs' = [next |-> vs'.next, manifest |-> vs'.manifest, last |-> vs'.last,
                  log |-> vs'.log, current |-> vs'.current, versions |-> vs'.versions]
    BY <1>1, <2>8 DEF IsVersionSet
  <2>10. /\ DOMAIN versions = DOMAIN vs.versions
         /\ \A v \in DOMAIN vs.versions :
               /\ versions[v] = [files |-> versions[v].files, refs |-> versions[v].refs,
                                 seek |-> versions[v].seek]
               /\ versions[v].files = vs.versions[v].files
               /\ versions[v].refs = vs.versions[v].refs
               /\ versions[v].seek = IF v = vs.current THEN {match} ELSE vs.versions[v].seek
    <3>1. DOMAIN versions = DOMAIN vs.versions
      BY <2>7
    <3>2. ASSUME NEW v \in DOMAIN vs.versions
          PROVE  /\ versions[v] = [files |-> versions[v].files, refs |-> versions[v].refs,
                                   seek |-> versions[v].seek]
                 /\ versions[v].files = vs.versions[v].files
                 /\ versions[v].refs = vs.versions[v].refs
                 /\ versions[v].seek = IF v = vs.current THEN {match} ELSE vs.versions[v].seek
      <4>1. vs.versions[v] = [files |-> vs.versions[v].files, refs |-> vs.versions[v].refs,
                              seek |-> vs.versions[v].seek]
        BY <1>1 DEF IsVersionSet
      <4>2. CASE v = vs.current
        <5>1. versions[v] = [vs.versions[v] EXCEPT !.seek = {match}]
          BY <2>7, <4>2
        <5> QED
          BY <4>1, <4>2, <5>1
      <4>3. CASE v # vs.current
        BY <2>7, <4>1, <4>3
      <4> QED
        BY <4>2, <4>3
    <3> QED
      BY <3>1, <3>2
  <2>11. IsVersionSet(vs')
    BY <1>1, <2>9, <2>10 DEF IsVersionSet
  <2>12. /\ vs'.next = vs.next /\ vs'.manifest = vs.manifest /\ vs'.current = vs.current
         /\ DOMAIN vs'.versions = DOMAIN vs.versions
         /\ \A v \in DOMAIN vs.versions :
               /\ vs'.versions[v].files = vs.versions[v].files
               /\ vs'.versions[v].refs = vs.versions[v].refs
               /\ vs'.versions[v].seek = IF v = vs.current THEN {match} ELSE vs.versions[v].seek
    BY <2>9, <2>10
  <2>13. Versions'
    <3>1. Referenced(vs', c'.version, iter'.version)
      <4>1. c'.version = c.version
        OBVIOUS
      <4> QED
        BY ONLY <1>1, <2>12, <4>1, iter'.version = iter.version DEF Referenced
    <3>2. ASSUME NEW v \in DOMAIN vs'.versions
          PROVE  /\ SoundFiles(vs'.versions[v].files, disk'.tables, vs'.next)
                 /\ \A p \in vs'.versions[v].seek :
                       p[1] \in Levels /\ p[2] \in vs'.versions[v].files[p[1]]
      <4>1. v \in DOMAIN vs.versions /\ SoundFiles(vs.versions[v].files, disk.tables, vs.next)
            /\ \A p \in vs.versions[v].seek : p[1] \in Levels /\ p[2] \in vs.versions[v].files[p[1]]
        BY <2>12 DEF IInv, Versions
      <4>2. SoundFiles(vs'.versions[v].files, disk'.tables, vs'.next)
        BY <2>12, <4>1
      <4>3. match[1] \in Levels /\ match[2] \in vs.versions[vs.current].files[match[1]]
        BY <2>4
      <4>4. \A p \in vs'.versions[v].seek :
               p[1] \in Levels /\ p[2] \in vs'.versions[v].files[p[1]]
        BY ONLY <2>12, <4>1, <4>3
      <4> QED
        BY <4>2, <4>4
    <3> QED
      BY <2>9, <2>11, <3>1, <3>2 DEF IInv, Versions
  <2>14. /\ db' \in [scheduled : BOOLEAN, shutting : BOOLEAN, error : BOOLEAN,
                     pending : SUBSET (1..vs'.next), logfile : 0..vs'.next]
         /\ db'.error = db.error /\ (db.scheduled => db'.scheduled)
    <3>1. db \in [scheduled : BOOLEAN, shutting : BOOLEAN, error : BOOLEAN,
                  pending : SUBSET (1..vs.next), logfile : 0..vs.next]
      BY DEF IInv, Control
    <3>2. PICK s : db' = MaybeScheduleCompaction(db, s)
      BY <2>1
    <3> QED
      BY <2>12, <3>1, <3>2, MaybeScheduled
  <2>15. Control'
    <3>1. c'.version = c.version /\ (bg # "idle" => c'.version = vs'.current)
      BY <2>9 DEF IInv, Control
    <3> QED
      BY <1>1, <2>14, <3>1 DEF IInv, Control, Running, Reading, Opening
  <2>16. Compacting' /\ IsDirectory(disk')
    BY <2>12 DEF IInv, Compacting
  <2>17. Current(vs').files = Current(vs).files
    BY <2>3, <2>12 DEF Current
  <2>18. Recovering' /\ Synced'
    BY <1>1, <2>12, <2>14, <2>17
       DEF IInv, Recovering, Synced, Running, Reading, Opening, NextField
  <2> QED
    BY <2>13, <2>15, <2>16, <2>18 DEF IInv
<1> QED
  BY <1>2, <1>3

(* Moving the iterator keeps its version.                                  *)
LEMMA SeekKeeps == ASSUME IInv, Seek PROVE IInv'
<1>1. main \in Reading /\ main' \in Reading /\ UNCHANGED <<disk, rec, bg, c, runs, faults>>
  BY DEF Seek, Reading
<1>2. \E passed : RecordReadSample(passed)
  BY DEF Seek, FindNextUserEntry
<1>3. iter'.version = iter.version
  BY DEF Seek, FindNextUserEntry
<1> QED
  BY <1>1, <1>2, <1>3, SampleKeeps

(* So does handing out a pair.                                             *)
LEMMA NextPairKeeps == ASSUME IInv, NextPair PROVE IInv'
<1>1. main \in Reading /\ main' \in Reading /\ UNCHANGED <<disk, rec, bg, c, runs, faults>>
  BY DEF NextPair, Reading
<1>2. \E passed : RecordReadSample(passed)
  BY DEF NextPair, FindNextUserEntry
<1>3. iter'.version = iter.version
  BY DEF NextPair, FindNextUserEntry
<1> QED
  BY <1>1, <1>2, <1>3, SampleKeeps

(* The program has closed the database.                                    *)
LEMMA ClosedKeeps == ASSUME IInv, Closed PROVE IInv'
BY GoneDown DEF Closed, IInv, Control

-----------------------------------------------------------------------------
(* The background thread runs only after Open is through.                  *)
LEMMA BackgroundRuns ==
  ASSUME IInv, db.scheduled \/ bg # "idle"
  PROVE  /\ main \in Running /\ main # "opened" /\ main \notin Opening
         /\ main \notin {"down", "recover", "newdb_temp", "newdb_rename"}
BY DEF IInv, Control, Running, Reading, Opening

(* The end of BackgroundCall.                                              *)
LEMMA EndedCall ==
  ASSUME IInv, NEW d, NEW s, EndBackgroundCall(d, s),
         d \in [scheduled : BOOLEAN, shutting : BOOLEAN, error : BOOLEAN,
                pending : SUBSET (1..s.next), logfile : 0..s.next],
         main \in Running, main # "opened",
         UNCHANGED <<main, iter, runs, faults>>
  PROVE  Control' /\ db'.error = d.error
<1>1. PICK e : e = [d EXCEPT !.scheduled = FALSE]
  OBVIOUS
<1>2. /\ e \in [scheduled : BOOLEAN, shutting : BOOLEAN, error : BOOLEAN,
                pending : SUBSET (1..s.next), logfile : 0..s.next]
      /\ e.error = d.error
  BY <1>1
<1>3. /\ vs' = s /\ bg' = "idle" /\ c' = NoCompaction /\ db' = MaybeScheduleCompaction(e, s)
  BY <1>1 DEF EndBackgroundCall
<1>4. /\ db' \in [scheduled : BOOLEAN, shutting : BOOLEAN, error : BOOLEAN,
                  pending : SUBSET (1..s.next), logfile : 0..s.next]
      /\ db'.error = d.error
  BY <1>2, <1>3, MaybeScheduled
<1>5. Control'
  BY <1>3, <1>4 DEF IInv, Control, Running, Reading, Opening
<1> QED
  BY <1>4, <1>5

(* BackgroundCall finds the database closing.                              *)
LEMMA BackgroundCallIdleKeeps == ASSUME IInv, BackgroundCallIdle PROVE IInv'
<1>1. /\ bg = "idle" /\ bg' = "idle" /\ vs' = vs /\ c' = c
      /\ UNCHANGED <<disk, main, rec, iter, runs, faults>>
  BY DEF IInv, Control, BackgroundCallIdle, EndBackgroundCall
<1>2. main \in Running /\ main # "opened"
  BY BackgroundRuns DEF BackgroundCallIdle
<1>3. Control' /\ db'.error = db.error
  BY <1>2, EndedCall DEF IInv, Control, BackgroundCallIdle
<1>4. IsDirectory(disk') /\ Versions' /\ Compacting'
  BY <1>1 DEF IInv, Versions, Compacting
<1>5. Recovering' /\ Synced'
  BY <1>1, <1>2, <1>3 DEF IInv, Recovering, Synced, Running, Reading, Opening, NextField
<1> QED
  BY <1>3, <1>4, <1>5 DEF IInv

(* The background thread refers to the current version and begins with     *)
(* its compaction.                                                         *)
LEMMA BeginKeeps ==
  ASSUME IInv, bg = "idle", db.scheduled, ~db.error, bg' \in {"work", "write"},
         vs' = Ref(vs, vs.current), c'.version = vs.current,
         UNCHANGED <<disk, main, rec, db, iter, runs, faults>>
  PROVE  /\ IsDirectory(disk') /\ Control' /\ Versions' /\ Recovering' /\ Synced'
         /\ SameVersions(vs, vs') /\ IsVersionSet(vs')
<1>1. main \in Running /\ main # "opened"
  BY BackgroundRuns
<1>2. /\ c.version = 0 /\ IsVersionSet(vs) /\ Referenced(vs, 0, iter.version)
      /\ vs.current \in DOMAIN vs.versions
  BY DEF IInv, Control, Versions, NoCompaction, Referenced
<1>3. IsVersionSet(vs') /\ SameVersions(vs, vs') /\ Referenced(vs', c'.version, iter'.version)
  BY <1>2, RefCounts, RefByCompaction
<1>4. IsDirectory(disk') /\ Versions' /\ Recovering' /\ Current(vs').files = Current(vs).files
  BY <1>1, <1>3, FilesStay
<1>5. Control'
  BY <1>1, <1>3 DEF IInv, Control, Opening, Reading, Running, SameVersions
<1>6. Synced'
  <2>1. vs'.manifest = vs.manifest /\ vs'.next = vs.next
    BY <1>3 DEF SameVersions
  <2> QED
    BY <1>1, <1>4, <2>1 DEF IInv, Synced, Running, NextField
<1> QED
  BY <1>3, <1>4, <1>5, <1>6

(* What PickCompaction may pick of the current version.                    *)
LEMMA CurrentIsSound ==
  ASSUME IInv, NEW p \in PickCompaction(Current(vs))
  PROVE  p.level \in Levels /\ \A f \in p.inputs[1] : Sound(f, disk.tables, vs.next)
<1>1. /\ \A s \in Current(vs).seek : s[1] \in Levels /\ s[2] \in Current(vs).files[s[1]]
      /\ SoundFiles(Current(vs).files, disk.tables, vs.next)
  BY DEF IInv, Versions, Referenced, Current
<1>2. PICK version : version = Current(vs)
  OBVIOUS
<1>3. p.level \in Levels /\ p.inputs[1] \subseteq version.files[p.level]
  BY <1>1, <1>2, PickedInputs
<1> QED
  BY <1>1, <1>2, <1>3 DEF SoundFiles

(* A file that is moved down is a file of the version.                     *)
LEMMA TrivialMoveKeeps == ASSUME IInv, TrivialMove PROVE IInv'
<1>1. PICK p \in PickCompaction(Current(vs)) : \E f \in p.inputs[1] : \E edit :
        /\ edit = Completed([NoEdit EXCEPT !.added = {<<p.level + 1, f>>},
                                           !.deleted = {<<p.level, f.number>>}],
                            vs, vs.log)
        /\ c' = [version |-> vs.current, moved |-> TRUE, edit |-> edit]
  BY DEF TrivialMove
<1>2. PICK f \in p.inputs[1] : \E edit :
        /\ edit = Completed([NoEdit EXCEPT !.added = {<<p.level + 1, f>>},
                                           !.deleted = {<<p.level, f.number>>}],
                            vs, vs.log)
        /\ c' = [version |-> vs.current, moved |-> TRUE, edit |-> edit]
  BY <1>1
<1>3. PICK edit :
        /\ edit = Completed([NoEdit EXCEPT !.added = {<<p.level + 1, f>>},
                                           !.deleted = {<<p.level, f.number>>}],
                            vs, vs.log)
        /\ c' = [version |-> vs.current, moved |-> TRUE, edit |-> edit]
  BY <1>2
<1>4. IsEdit(edit) /\ edit.next = vs.next /\ edit.added = {<<p.level + 1, f>>}
  <2>1. PICK added, deleted : added = {<<p.level + 1, f>>} /\ deleted = {<<p.level, f.number>>}
    OBVIOUS
  <2>2. edit = Completed([NoEdit EXCEPT !.added = added, !.deleted = deleted], vs, vs.log)
    BY <1>3, <2>1
  <2>3. IsEdit(edit) /\ edit.next = vs.next /\ edit.added = added
    BY ONLY <2>2 DEF Completed, NoEdit, IsEdit
  <2> QED
    BY <2>1, <2>3
<1>5. Sound(f, disk.tables, vs.next)
  BY CurrentIsSound
<1>6. /\ IsDirectory(disk') /\ Control' /\ Versions' /\ Recovering' /\ Synced'
      /\ SameVersions(vs, vs')
  <2>1. c'.version = vs.current
    BY <1>3
  <2> QED
    BY <2>1, BeginKeeps DEF TrivialMove
<1>7. Compacting'
  <2>1. vs'.next = vs.next /\ disk' = disk /\ bg' = "write"
    BY <1>6 DEF SameVersions, TrivialMove
  <2>2. c'.edit = edit /\ c'.moved = TRUE
    BY <1>3
  <2>3. SoundEdit(edit, disk.tables, vs.next)
    BY <1>4, <1>5 DEF SoundEdit
  <2> QED
    BY <1>4, <2>1, <2>2, <2>3 DEF Compacting
<1> QED
  BY <1>6, <1>7 DEF IInv

(* A compaction begins without outputs.                                    *)
LEMMA StartCompactionKeeps == ASSUME IInv, StartCompaction PROVE IInv'
<1>1. \E level, inputs, left :
        c' = [version |-> vs.current, moved |-> FALSE, level |-> level, inputs |-> inputs,
              open |-> 0, outputs |-> {}, left |-> left]
  BY DEF StartCompaction
<1>2. /\ IsDirectory(disk') /\ Control' /\ Versions' /\ Recovering' /\ Synced'
  <2>1. c'.version = vs.current
    BY <1>1
  <2> QED
    BY <2>1, BeginKeeps DEF StartCompaction
<1>3. Compacting'
  BY <1>1 DEF Compacting, StartCompaction, IsCompaction
<1> QED
  BY <1>2, <1>3 DEF IInv

(* An output gets a number that no file of a version has.                  *)
LEMMA OpenCompactionOutputFileKeeps == ASSUME IInv, OpenCompactionOutputFile PROVE IInv'
<1>1. /\ bg = "work" /\ bg' = "work" /\ c' = [c EXCEPT !.open = vs.next]
      /\ vs' = [vs EXCEPT !.next = @ + 1]
      /\ db' = [db EXCEPT !.pending = @ \cup {vs.next}]
      /\ disk' = [disk EXCEPT !.tables = Put(@, vs.next, {})]
      /\ UNCHANGED <<main, rec, iter, runs, faults>>
      /\ IsVersionSet(vs) /\ vs.next \in Nat /\ vs.next # 0 /\ IsDisk(disk) /\ ~db.error
  BY DirectoryIs DEF IInv, Control, Versions, OpenCompactionOutputFile
<1>2. main \in Running /\ main \notin Opening /\ main # "opened"
      /\ main \notin {"down", "recover", "newdb_temp", "newdb_rename"}
  BY <1>1, BackgroundRuns
<1>3. IsCompaction(c)
  BY <1>1 DEF IInv, Compacting
<1>4. /\ IsVersionSet(vs') /\ vs'.next = vs.next + 1 /\ vs'.manifest = vs.manifest
      /\ vs'.current = vs.current /\ vs'.versions = vs.versions
  BY ONLY <1>1 DEF IsVersionSet
<1>5. PICK tables : tables = Put(disk.tables, vs.next, {})
  OBVIOUS
<1>6. /\ disk' = [current |-> disk.current, manifests |-> disk.manifests, tables |-> tables,
                  logs |-> disk.logs, temps |-> disk.temps]
      /\ DOMAIN tables = DOMAIN disk.tables \cup {vs.next}
      /\ \A n \in DOMAIN disk.tables \ {vs.next} : tables[n] = disk.tables[n]
  BY <1>1, <1>5 DEF IsDisk, Put
<1>7. \A f : Sound(f, disk.tables, vs.next)
               => Sound(f, disk'.tables, vs'.next) /\ f.number # vs.next
  <2>1. disk'.tables = tables
    BY <1>6
  <2>2. \A f : Sound(f, disk.tables, vs.next)
                 => Sound(f, tables, vs.next + 1) /\ f.number # vs.next
    BY ONLY <1>1, <1>6 DEF Sound
  <2> QED
    BY <1>4, <2>1, <2>2
<1>8. /\ BuiltFiles(disk) = Current(vs).files
      /\ SoundFiles(Current(vs).files, disk.tables, vs.next)
  BY <1>1, <1>2 DEF IInv, Synced, Running, BuiltFiles, Versions, Referenced, Current
<1>9. IsDisk(disk') /\ SameManifest(disk, disk')
  BY <1>1, <1>6 DEF IsDisk, SameManifest
<1>10. IsDirectory(disk')
  <2>1. SameTables(BuiltFiles(disk), disk, disk')
    BY <1>6, <1>7, <1>8 DEF SameTables, SoundFiles
  <2> QED
    BY <1>9, <2>1, DirectoryKept DEF IInv
<1>11. Versions'
  <2>1. c'.version = c.version
    BY <1>1 DEF IInv, Compacting
  <2>2. Referenced(vs', c'.version, iter'.version)
    BY <1>1, <1>4, <2>1 DEF IInv, Versions, Referenced
  <2>3. ASSUME NEW v \in DOMAIN vs'.versions
        PROVE  /\ SoundFiles(vs'.versions[v].files, disk'.tables, vs'.next)
               /\ \A p \in vs'.versions[v].seek :
                     p[1] \in Levels /\ p[2] \in vs'.versions[v].files[p[1]]
    BY <1>4, <1>7 DEF IInv, Versions, SoundFiles
  <2> QED
    BY <1>1, <1>4, <2>2, <2>3 DEF IInv, Versions
<1>12. Control'
  <2>1. (1..vs.next) \subseteq 1..vs'.next /\ (0..vs.next) \subseteq 0..vs'.next
        /\ vs.next \in 1..vs'.next
    BY <1>1, <1>4
  <2>2. PICK pending : pending = db.pending \cup {vs.next}
    OBVIOUS
  <2>3. db' = [db EXCEPT !.pending = pending]
    BY <1>1, <2>2
  <2>4. /\ db' \in [scheduled : BOOLEAN, shutting : BOOLEAN, error : BOOLEAN,
                    pending : SUBSET (1..vs'.next), logfile : 0..vs'.next]
        /\ db'.scheduled = db.scheduled /\ db'.error = db.error
    BY <2>1, <2>2, <2>3 DEF IInv, Control
  <2>5. c'.version = c.version /\ Control
    BY <1>1, <1>3 DEF IInv
  <2> QED
    BY ONLY <1>1, <1>2, <1>4, <2>4, <2>5 DEF Control
<1>13. Compacting'
  <2>1. c' = [version |-> c.version, moved |-> c.moved, level |-> c.level, inputs |-> c.inputs,
              open |-> vs.next, outputs |-> c.outputs, left |-> c.left]
    <3>1. PICK number, old : number = vs.next /\ old = c /\ c' = [old EXCEPT !.open = number]
      BY <1>1
    <3>2. IsCompaction(old)
      BY <1>3, <3>1
    <3>3. c' = [version |-> old.version, moved |-> old.moved, level |-> old.level,
                inputs |-> old.inputs, open |-> number, outputs |-> old.outputs,
                left |-> old.left]
      BY ONLY <3>1, <3>2 DEF IsCompaction
    <3> QED
      BY <3>1, <3>3
  <2>2. \A f \in c.outputs : Sound(f, disk'.tables, vs'.next) /\ f.number # vs.next
    BY <1>1, <1>7 DEF IInv, Compacting
  <2>3. \A v \in DOMAIN vs.versions : \A l \in Levels :
           \A f \in vs.versions[v].files[l] : f.number # vs.next
    BY <1>7 DEF IInv, Versions, SoundFiles
  <2>4. vs.next < vs'.next
    BY <1>1, <1>4
  <2>5. c'.open = vs.next /\ c'.outputs = c.outputs /\ c'.version = c.version
        /\ c'.level = c.level /\ c'.inputs = c.inputs /\ c'.left = c.left
    BY <2>1
  <2>6. IsCompaction(c')
    BY <2>1 DEF IsCompaction
  <2> QED
    BY ONLY <1>1, <1>4, <2>2, <2>3, <2>4, <2>5, <2>6 DEF Compacting
<1>14. Recovering'
  BY <1>1, <1>2 DEF Recovering, Opening
<1>15. Synced'
  <2>1. Manifest(disk') = Manifest(disk)
    BY <1>9, SameManifestReads
  <2>2. Current(vs') = Current(vs)
    BY <1>4 DEF Current
  <2>3. NextField \in Nat /\ NextField <= vs'.next
    BY <1>1, <1>2, <1>4 DEF IInv, Synced
  <2>4. disk'.manifests = disk.manifests /\ disk'.current = disk.current /\ Synced
    BY <1>6 DEF IInv
  <2> QED
    BY ONLY <1>1, <1>2, <1>4, <1>8, <2>1, <2>2, <2>3, <2>4 DEF Synced, NextField, BuiltFiles
<1> QED
  BY <1>10, <1>11, <1>12, <1>13, <1>14, <1>15 DEF IInv

(* And when it is written the tables of all versions are as they were.     *)
LEMMA FinishCompactionOutputFileKeeps == ASSUME IInv, FinishCompactionOutputFile PROVE IInv'
<1>1. /\ bg = "work" /\ bg' = "work" /\ c.open # 0
      /\ UNCHANGED <<main, rec, vs, db, iter, runs, faults>>
      /\ IsVersionSet(vs) /\ vs.next \in Nat /\ IsDisk(disk) /\ ~db.error
      /\ c.open \in Nat /\ c.open < vs.next
  BY DirectoryIs DEF IInv, Control, Versions, Compacting, FinishCompactionOutputFile
<1>2. main \in Running /\ main \notin Opening /\ main # "opened"
      /\ main \notin {"down", "recover", "newdb_temp", "newdb_rename"}
  BY <1>1, BackgroundRuns
<1>3. PICK E : /\ disk' = [disk EXCEPT !.tables = Put(@, c.open, E)]
               /\ c' = [c EXCEPT !.open = 0, !.left = @ \ E,
                                 !.outputs = @ \cup {FileMetaData(c.open, E)}]
  BY DEF FinishCompactionOutputFile
<1>4. PICK tables, left, outputs :
         /\ tables = Put(disk.tables, c.open, E)
         /\ left = c.left \ E /\ outputs = c.outputs \cup {FileMetaData(c.open, E)}
  OBVIOUS
<1>5. /\ disk' = [current |-> disk.current, manifests |-> disk.manifests, tables |-> tables,
                  logs |-> disk.logs, temps |-> disk.temps]
      /\ DOMAIN tables = DOMAIN disk.tables \cup {c.open} /\ tables[c.open] = E
      /\ \A n \in DOMAIN disk.tables \ {c.open} : tables[n] = disk.tables[n]
  BY <1>1, <1>3, <1>4 DEF IsDisk, Put
<1>6. c' = [version |-> c.version, moved |-> c.moved, level |-> c.level, inputs |-> c.inputs,
            open |-> 0, outputs |-> outputs, left |-> left]
  <2>1. PICK old : old = c /\ c' = [old EXCEPT !.open = 0, !.left = left, !.outputs = outputs]
    BY <1>3, <1>4
  <2>2. IsCompaction(old)
    BY <1>1, <2>1 DEF IInv, Compacting
  <2>3. c' = [version |-> old.version, moved |-> old.moved, level |-> old.level,
              inputs |-> old.inputs, open |-> 0, outputs |-> outputs, left |-> left]
    BY ONLY <2>1, <2>2 DEF IsCompaction
  <2> QED
    BY <2>1, <2>3
<1>7. \A f : Sound(f, disk.tables, vs.next) /\ f.number # c.open
               => Sound(f, disk'.tables, vs.next)
  BY <1>5 DEF Sound
<1>8. \A v \in DOMAIN vs.versions : \A l \in Levels :
         \A f \in vs.versions[v].files[l] : f.number # c.open
  BY <1>1 DEF IInv, Compacting
<1>9. \A v \in DOMAIN vs.versions : SoundFiles(vs.versions[v].files, disk'.tables, vs.next)
  BY <1>7, <1>8 DEF IInv, Versions, SoundFiles
<1>10. BuiltFiles(disk) = vs.versions[vs.current].files /\ vs.current \in DOMAIN vs.versions
  BY <1>1, <1>2 DEF IInv, Synced, BuiltFiles, Versions, Referenced, Current
<1>11. IsDisk(disk') /\ SameManifest(disk, disk')
  BY <1>1, <1>5 DEF IsDisk, SameManifest
<1>12. IsDirectory(disk')
  <2>1. SameTables(BuiltFiles(disk), disk, disk')
    BY <1>5, <1>8, <1>10 DEF SameTables
  <2> QED
    BY <1>11, <2>1, DirectoryKept DEF IInv
<1>13. c'.version = c.version
  BY <1>6
<1>14. Versions' /\ Control'
  BY <1>1, <1>2, <1>9, <1>13 DEF IInv, Versions, Control
<1>15. Compacting'
  <2>1. PICK file : file = FileMetaData(c.open, E)
    OBVIOUS
  <2>2. Sound(file, disk'.tables, vs.next)
    BY <1>1, <1>5, <2>1 DEF Sound, FileMetaData
  <2>3. \A f \in c.outputs : Sound(f, disk'.tables, vs.next)
    BY <1>1, <1>7 DEF IInv, Compacting
  <2>4. \A f \in outputs : Sound(f, disk'.tables, vs.next)
    BY <1>4, <2>1, <2>2, <2>3
  <2>5. c'.open = 0 /\ c'.outputs = outputs /\ c'.version = c.version
        /\ c'.level = c.level /\ c'.inputs = c.inputs /\ c'.left = left
    BY <1>6
  <2> QED
    BY <1>1, <1>6, <2>4, <2>5 DEF Compacting, IsCompaction
<1>16. Recovering' /\ Synced'
  <2>1. Manifest(disk') = Manifest(disk)
    BY <1>11, SameManifestReads
  <2> QED
    BY <1>1, <1>2, <1>5, <2>1 DEF IInv, Recovering, Synced, NextField
<1> QED
  BY <1>12, <1>14, <1>15, <1>16 DEF IInv

(* The edit of a compaction adds its outputs.                              *)
LEMMA InstallCompactionResultsKeeps == ASSUME IInv, InstallCompactionResults PROVE IInv'
<1>1. /\ bg = "work" /\ bg' = "write"
      /\ UNCHANGED <<disk, main, rec, vs, db, iter, runs, faults>> /\ ~db.error
  BY DEF IInv, Control, InstallCompactionResults
<1>2. main \in Running /\ main \notin Opening /\ main # "opened"
      /\ main \notin {"down", "recover", "newdb_temp", "newdb_rename"}
  BY <1>1, BackgroundRuns
<1>3. PICK deleted, added :
         /\ added = {<<c.level + 1, f>> : f \in c.outputs}
         /\ c' = [version |-> c.version, moved |-> FALSE,
                  edit |-> Completed([NoEdit EXCEPT !.added = added, !.deleted = deleted],
                                     vs, vs.log)]
  BY DEF InstallCompactionResults
<1>4. PICK edit : edit = Completed([NoEdit EXCEPT !.added = added, !.deleted = deleted],
                                   vs, vs.log)
  OBVIOUS
<1>5. c' = [version |-> c.version, moved |-> FALSE, edit |-> edit]
  BY <1>3, <1>4
<1>6. IsEdit(edit) /\ edit.next = vs.next /\ edit.added = added
  BY ONLY <1>4 DEF Completed, NoEdit, IsEdit
<1>7. SoundEdit(edit, disk.tables, vs.next)
  <2>1. \A f \in c.outputs : Sound(f, disk.tables, vs.next)
    BY <1>1 DEF IInv, Compacting
  <2>2. \A p \in added : \E f \in c.outputs : p = <<c.level + 1, f>>
    BY <1>3
  <2> QED
    BY <1>6, <2>1, <2>2 DEF SoundEdit
<1>8. c'.version = c.version /\ c'.moved = FALSE /\ c'.edit = edit
  BY <1>5
<1>9. Versions' /\ Control' /\ IsDirectory(disk')
  BY <1>1, <1>2, <1>8 DEF IInv, Versions, Control
<1>10. Recovering' /\ Synced'
  BY <1>1, <1>2 DEF IInv, Recovering, Synced, NextField
<1>11. Compacting'
  BY <1>1, <1>6, <1>7, <1>8 DEF Compacting
<1> QED
  BY <1>9, <1>10, <1>11 DEF IInv

(* LogAndApply's record in the manifest that CURRENT names: from then on   *)
(* the directory is that of the version to be installed.                   *)
LEMMA LoggedIs ==
  ASSUME IInv, bg = "write"
  PROVE  /\ IsDirectory(Logged) /\ Logged.tables = disk.tables /\ Logged.current = disk.current
         /\ vs.manifest \in DOMAIN Logged.manifests
         /\ BuiltFiles(Logged) = ApplyEdit(Current(vs).files, c.edit)
         /\ NextOf(Logged) = vs.next /\ Logged.logs = disk.logs
         /\ Manifest(Logged) = Append(Manifest(disk), c.edit)
<1>1. main \in Running /\ ~db.error
  BY BackgroundRuns DEF IInv, Control
<1>2. /\ disk.current = vs.manifest /\ vs.manifest \in DOMAIN disk.manifests
      /\ BuiltFiles(disk) = Current(vs).files
      /\ NextOf(disk) \in Nat /\ NextOf(disk) <= vs.next
  BY <1>1 DEF IInv, Synced, BuiltFiles, NextOf, NextField
<1>3. IsEdit(c.edit) /\ c.edit.next = vs.next /\ SoundEdit(c.edit, disk.tables, vs.next)
  BY DEF IInv, Compacting
<1>4. /\ vs.next \in Nat /\ SoundFiles(Current(vs).files, disk.tables, vs.next)
  BY DEF IInv, Versions, Referenced, Current
<1>5. PICK edits : edits = Manifest(disk)
  OBVIOUS
<1>6. edits = disk.manifests[vs.manifest] /\ edits \in Seq(Range(edits))
  BY <1>2, <1>5, DirectoryIs DEF IInv, Manifest
<1>7. PICK edit : edit = c.edit
  OBVIOUS
<1>8. PICK longer : longer = Append(edits, edit)
  OBVIOUS
<1>9. PICK n \in Nat : n = Len(edits)
  BY <1>6
<1>10. PICK S : S = Range(edits) \cup {edit}
  OBVIOUS
<1>11. edits \in Seq(S) /\ edit \in S
  <2>1. \A i \in 1..n : edits[i] \in Range(edits)
    BY <1>6, <1>9 DEF Range
  <2> QED
    BY <1>6, <1>9, <1>10, <2>1
<1>12. longer \in Seq(S) /\ Len(longer) = n + 1 /\ longer[n + 1] = edit
  BY ONLY <1>8, <1>9, <1>11
<1>13. longer \in Seq(Range(longer))
  <2>1. DOMAIN longer = 1..(n + 1) /\ longer = [i \in 1..(n + 1) |-> longer[i]]
    BY <1>12
  <2>2. \A i \in 1..(n + 1) : longer[i] \in Range(longer)
    BY <2>1 DEF Range
  <2> QED
    BY <2>1, <2>2
<1>14. PICK manifests : manifests = [disk.manifests EXCEPT ![vs.manifest] = longer]
  OBVIOUS
<1>15. DOMAIN manifests = DOMAIN disk.manifests /\ manifests[vs.manifest] = longer
  BY <1>2, <1>14
<1>16. Logged = [current |-> disk.current, manifests |-> manifests, tables |-> disk.tables,
                 logs |-> disk.logs, temps |-> disk.temps]
  <2>1. Logged = [disk EXCEPT !.manifests = manifests]
    BY <1>2, <1>6, <1>7, <1>8, <1>14 DEF Logged
  <2>2. IsDisk(disk)
    BY DirectoryIs DEF IInv
  <2> QED
    BY ONLY <2>1, <2>2 DEF IsDisk
<1>17. Manifest(Logged) = longer
  BY <1>2, <1>15, <1>16 DEF Manifest
<1>18. BuiltFiles(Logged) = ApplyEdit(Current(vs).files, c.edit)
  <2>1. BuildVersion(longer) = ApplyEdit(BuildVersion(edits), edit)
    BY <1>8, <1>11, BuildAppended
  <2> QED
    BY <1>2, <1>5, <1>7, <1>17, <2>1 DEF BuiltFiles
<1>19. NextOf(Logged) = vs.next
  <2>1. Len(longer) > 0 /\ longer[Len(longer)].next # Absent /\ longer[Len(longer)].next = vs.next
    BY <1>3, <1>4, <1>7, <1>12 DEF Absent
  <2>2. LastField(longer, "next") = longer[Len(longer)].next
    BY ONLY <1>12, <2>1, LastFieldOfLast
  <2> QED
    BY <1>17, <2>1, <2>2 DEF NextOf
<1>20. IsDirectory(Logged)
  <2>1. IsDisk(Logged)
    BY <1>15, <1>16, DirectoryIs DEF IInv, IsDisk
  <2>2. disk.current < NextOf(disk) /\ disk.current \in Nat
    BY <1>2, DirectoryIs DEF IInv, Absent, IsDisk
  <2>3. Logged.current < vs.next
    BY <1>2, <1>4, <1>16, <2>2
  <2>4. SoundFiles(ApplyEdit(Current(vs).files, c.edit), Logged.tables, vs.next)
    BY <1>3, <1>4, <1>16, ApplyEditSound
  <2> QED
    BY <1>4, <1>13, <1>17, <1>18, <1>19, <2>1, <2>3, <2>4, DirectoryIs
<1>21. Manifest(Logged) = Append(Manifest(disk), c.edit)
  BY <1>5, <1>7, <1>8, <1>17
<1> QED
  BY <1>2, <1>15, <1>16, <1>18, <1>19, <1>20, <1>21

(* So the step that writes the record keeps the directory.                 *)
LEMMA WriteEditKeeps == ASSUME IInv, WriteEdit PROVE IInv'
<1>1. /\ bg = "write" /\ bg' = "install" /\ disk' = Logged /\ ~db.error
      /\ UNCHANGED <<main, rec, vs, db, c, iter, runs, faults>>
  BY DEF IInv, Control, WriteEdit
<1>2. /\ main \in Running /\ main \notin Opening /\ main # "opened"
      /\ main \notin {"down", "recover", "newdb_temp", "newdb_rename"}
  BY <1>1, BackgroundRuns
<1>3. /\ IsDirectory(disk') /\ disk'.tables = disk.tables /\ disk'.current = disk.current
      /\ vs.manifest \in DOMAIN disk'.manifests
      /\ BuiltFiles(disk') = ApplyEdit(Current(vs).files, c.edit)
      /\ NextOf(disk') = vs.next
  BY <1>1, LoggedIs
<1>4. Versions' /\ Control' /\ Compacting'
  BY <1>1, <1>2, <1>3 DEF IInv, Versions, Control, Compacting
<1>5. Recovering'
  BY <1>1, <1>2 DEF Recovering, Opening
<1>6. Synced'
  <2>1. disk.current = vs.manifest /\ vs.next \in Nat
    BY <1>2 DEF IInv, Synced, Versions
  <2> QED
    BY <1>1, <1>3, <2>1 DEF Synced, NextField, NextOf, BuiltFiles
<1> QED
  BY <1>3, <1>4, <1>5, <1>6 DEF IInv

(* LogAndApply makes the version current; the compaction gives up the one  *)
(* it read.                                                                *)
Installed == Unref(AppendVersion(vs, c.edit), c.version)

(* What the installed versions are: the new one has the files the record   *)
(* says, and the others, the one an iterator reads among them, keep theirs. *)
LEMMA InstalledIs ==
  ASSUME IInv, bg = "install"
  PROVE  /\ IsVersionSet(Installed) /\ Referenced(Installed, 0, iter.version)
         /\ Installed.next = vs.next /\ Installed.manifest = vs.manifest
         /\ Installed.current \in DOMAIN Installed.versions
         /\ Installed.versions[Installed.current].files = ApplyEdit(Current(vs).files, c.edit)
         /\ \A v \in DOMAIN Installed.versions :
               /\ SoundFiles(Installed.versions[v].files, disk.tables, vs.next)
               /\ \A p \in Installed.versions[v].seek :
                     p[1] \in Levels /\ p[2] \in Installed.versions[v].files[p[1]]
<1>1. /\ IsVersionSet(vs) /\ Referenced(vs, c.version, iter.version) /\ c.version = vs.current
      /\ vs.current \in Nat \ {0}
  BY DEF IInv, Versions, Control, Referenced
<1>2. PICK edit, k, i, files :
        edit = c.edit /\ k = c.version /\ i = iter.version /\ files = Current(vs).files
  OBVIOUS
<1>3. PICK t : t = AppendVersion(vs, edit)
  OBVIOUS
<1>4. /\ IsVersionSet(t) /\ Referenced(t, k, i)
      /\ t.next = vs.next /\ t.manifest = vs.manifest
      /\ Current(t).files = ApplyEdit(files, edit) /\ Current(t).seek = {}
      /\ \A v \in DOMAIN t.versions : v # t.current =>
            /\ v \in DOMAIN vs.versions
            /\ t.versions[v].files = vs.versions[v].files
            /\ t.versions[v].seek = vs.versions[v].seek
  BY <1>1, <1>2, <1>3, AppendVersionCounts
<1>5. k \in DOMAIN t.versions /\ k # 0 /\ t.current \in DOMAIN t.versions
  BY <1>1, <1>2, <1>4 DEF Referenced
<1>6. PICK s : s = Unref(t, k)
  OBVIOUS
<1>7. IsVersionSet(s) /\ SameVersions(t, s) /\ Referenced(s, 0, i)
  BY <1>4, <1>5, <1>6, UnrefCounts, UnrefByCompaction
<1>8. s = Installed
  BY <1>2, <1>3, <1>6 DEF Installed
<1>9. s.current = t.current /\ s.current \in DOMAIN s.versions
      /\ s.versions[s.current].files = ApplyEdit(files, edit)
      /\ s.versions[s.current].seek = {}
  BY <1>4, <1>7 DEF SameVersions, Referenced, Current
<1>10. SoundFiles(ApplyEdit(files, edit), disk.tables, vs.next)
  <2>1. SoundFiles(files, disk.tables, vs.next)
    BY <1>1, <1>2 DEF IInv, Versions, Referenced, Current
  <2>2. SoundEdit(edit, disk.tables, vs.next)
    BY <1>2 DEF IInv, Compacting
  <2> QED
    BY <2>1, <2>2, ApplyEditSound
<1>11. ASSUME NEW v \in DOMAIN s.versions
       PROVE  /\ SoundFiles(s.versions[v].files, disk.tables, vs.next)
              /\ \A p \in s.versions[v].seek :
                    p[1] \in Levels /\ p[2] \in s.versions[v].files[p[1]]
  <2>1. CASE v = s.current
    BY <1>9, <1>10, <2>1
  <2>2. CASE v # s.current
    <3>1. v \in DOMAIN vs.versions /\ s.versions[v].files = vs.versions[v].files
          /\ s.versions[v].seek = vs.versions[v].seek
      BY <1>4, <1>7, <1>9, <2>2 DEF SameVersions
    <3> QED
      BY <3>1 DEF IInv, Versions
  <2> QED
    BY <2>1, <2>2
<1>12. s.next = vs.next /\ s.manifest = vs.manifest
  BY <1>4, <1>7 DEF SameVersions
<1> QED
  BY <1>2, <1>7, <1>8, <1>9, <1>11, <1>12

(* What is obsolete after that is deleted, all of it or, when the program  *)
(* crashes, a part.                                                        *)
LEMMA InstallVersionKeeps == ASSUME IInv, InstallVersion PROVE IInv'
<1>1. /\ bg = "install" /\ ~db.error /\ UNCHANGED <<main, rec, iter, runs, faults>>
  BY DEF IInv, Control, InstallVersion
<1>2. PICK s, d :
         /\ s = Installed /\ d = [db EXCEPT !.pending = {}]
         /\ disk' = IF c.moved THEN disk ELSE DeleteObsoleteFiles(disk, d, s)
         /\ EndBackgroundCall(d, s)
  BY DEF InstallVersion, Installed
<1>3. /\ main \in Running /\ main \notin Opening /\ main # "opened"
      /\ main \notin {"down", "recover", "newdb_temp", "newdb_rename"}
  BY <1>1, BackgroundRuns
<1>4. /\ IsVersionSet(s) /\ Referenced(s, 0, iter.version)
      /\ s.next = vs.next /\ s.manifest = vs.manifest
      /\ s.current \in DOMAIN s.versions
      /\ s.versions[s.current].files = ApplyEdit(Current(vs).files, c.edit)
      /\ \A v \in DOMAIN s.versions :
            /\ SoundFiles(s.versions[v].files, disk.tables, vs.next)
            /\ \A p \in s.versions[v].seek : p[1] \in Levels /\ p[2] \in s.versions[v].files[p[1]]
  BY <1>1, <1>2, InstalledIs
<1>5. /\ disk.current = vs.manifest /\ vs.manifest \in DOMAIN disk.manifests
      /\ BuiltFiles(disk) = s.versions[s.current].files
      /\ NextField \in Nat /\ NextField <= vs.next
  BY <1>1, <1>3, <1>4 DEF IInv, Synced, BuiltFiles
<1>6. /\ d \in [scheduled : BOOLEAN, shutting : BOOLEAN, error : BOOLEAN,
                pending : SUBSET (1..s.next), logfile : 0..s.next]
      /\ ~d.error
  BY <1>1, <1>2, <1>4 DEF IInv, Control
<1>7. /\ IsDirectory(disk') /\ SameManifest(disk, disk')
      /\ \A v \in DOMAIN s.versions : SameTables(s.versions[v].files, disk, disk')
  <2>1. CASE disk' = disk
    BY <2>1 DEF IInv, SameManifest, SameTables
  <2>2. CASE disk' = DeleteObsoleteFiles(disk, d, s)
    <3>1. PICK live, log, manifest :
             live = d.pending \cup LiveFiles(s) /\ log = s.log /\ manifest = s.manifest
      OBVIOUS
    <3>2. disk' = Cleaned(disk, live, log, manifest)
      BY <1>6, <2>2, <3>1 DEF DeleteObsoleteFiles
    <3>3. /\ IsDisk(disk') /\ SameManifest(disk, disk')
          /\ \A files : (\A l \in Levels : \A f \in files[l] : f.number \in live)
                           => SameTables(files, disk, disk')
      BY <1>4, <1>5, <3>1, <3>2, CleanedKeeps DEF IInv
    <3>4. \A files : (\A l \in Levels : \A f \in files[l] : f.number \in LiveFiles(s))
                        => SameTables(files, disk, disk')
      BY <3>1, <3>3
    <3> QED
      BY <1>4, <1>5, <3>3, <3>4, ObsoleteFilesOnly DEF IInv
  <2> QED
    BY <1>2, <2>1, <2>2
<1>8. vs' = s /\ bg' = "idle" /\ c' = NoCompaction /\ c'.version = 0
  BY <1>2 DEF EndBackgroundCall, NoCompaction
<1>9. Control' /\ db'.error = d.error
  BY <1>1, <1>2, <1>3, <1>6, EndedCall
<1>10. Versions'
  <2>1. \A v \in DOMAIN s.versions : SoundFiles(s.versions[v].files, disk'.tables, vs.next)
    BY <1>4, <1>7, SameTablesSound
  <2>2. Referenced(vs', c'.version, iter'.version)
    BY <1>1, <1>4, <1>8
  <2> QED
    BY <1>4, <1>8, <2>1, <2>2 DEF IInv, Versions
<1>11. Recovering' /\ Compacting'
  BY <1>1, <1>3, <1>8 DEF Recovering, Compacting, Opening
<1>12. Synced'
  <2>1. Manifest(disk') = Manifest(disk)
    BY <1>7, SameManifestReads
  <2>2. disk'.current = disk.current /\ vs.manifest \in DOMAIN disk'.manifests
    BY <1>5, <1>7 DEF SameManifest
  <2>3. Current(vs').files = BuildVersion(Manifest(disk'))
    BY <1>5, <1>8, <2>1 DEF Current, BuiltFiles
  <2> QED
    BY <1>4, <1>5, <1>8, <2>1, <2>2, <2>3 DEF Synced, NextField
<1> QED
  BY <1>7, <1>9, <1>10, <1>11, <1>12 DEF IInv

(* A compaction that is given up gives up its version as well.             *)
LEMMA AbandonCompactionKeeps == ASSUME IInv, AbandonCompaction PROVE IInv'
<1>1. /\ bg # "idle" /\ UNCHANGED <<disk, main, rec, iter, runs, faults>>
      /\ Referenced(vs, c.version, iter.version) /\ IsVersionSet(vs)
      /\ c.version = vs.current
  BY DEF IInv, Control, Versions, AbandonCompaction
<1>2. PICK s, d :
         /\ s = Unref(vs, c.version) /\ d = [db EXCEPT !.error = TRUE, !.pending = {}]
         /\ EndBackgroundCall(d, s)
  BY DEF AbandonCompaction
<1>3. main \in Running /\ main # "opened"
  BY <1>1, BackgroundRuns
<1>4. c.version # 0 /\ c.version \in DOMAIN vs.versions
  BY <1>1 DEF Referenced
<1>5. IsVersionSet(s) /\ SameVersions(vs, s) /\ Referenced(s, 0, iter.version)
  BY <1>1, <1>2, <1>4, UnrefCounts, UnrefByCompaction
<1>6. vs' = s /\ bg' = "idle" /\ c' = NoCompaction /\ c'.version = 0
  BY <1>2 DEF EndBackgroundCall, NoCompaction
<1>7. /\ d \in [scheduled : BOOLEAN, shutting : BOOLEAN, error : BOOLEAN,
                pending : SUBSET (1..s.next), logfile : 0..s.next]
      /\ d.error
  BY <1>2, <1>5 DEF IInv, Control, SameVersions
<1>8. Control' /\ db'.error = d.error
  BY <1>1, <1>2, <1>3, <1>7, EndedCall
<1>9. IsDirectory(disk') /\ Versions' /\ Recovering'
  BY <1>1, <1>3, <1>5, <1>6, FilesStay
<1>10. Compacting'
  BY <1>6 DEF Compacting
<1>11. Synced'
  <2>1. vs'.manifest = vs.manifest /\ vs'.next = vs.next
    BY <1>5, <1>6 DEF SameVersions
  <2> QED
    BY <1>1, <1>3, <1>6, <1>7, <1>8, <2>1 DEF IInv, Synced, NextField
<1> QED
  BY <1>8, <1>9, <1>10, <1>11 DEF IInv

(* A write of a compaction fails, the record of the manifest being there   *)
(* or not.                                                                 *)
LEMMA CompactionFailsKeeps == ASSUME IInv, CompactionFails PROVE IInv'
<1>1. /\ bg \in {"work", "write"} /\ bg' = "failed" /\ ~db.error
      /\ disk' = disk \/ (bg = "write" /\ disk' = Logged)
      /\ UNCHANGED <<main, rec, vs, db, c, iter, runs>>
      /\ faults' = faults + 1 /\ faults < MaxFaults
  BY DEF IInv, Control, CompactionFails
<1>2. /\ main \in Running /\ main \notin Opening /\ main # "opened"
      /\ main \notin {"down", "recover", "newdb_temp", "newdb_rename"}
  BY <1>1, BackgroundRuns
<1>3. /\ disk.current = vs.manifest /\ vs.manifest \in DOMAIN disk.manifests
      /\ NextOf(disk) \in Nat /\ NextOf(disk) <= vs.next /\ vs.next \in Nat
  BY <1>2 DEF IInv, Synced, NextField, NextOf, Versions
<1>4. /\ IsDirectory(disk') /\ disk'.tables = disk.tables /\ disk'.current = disk.current
      /\ vs.manifest \in DOMAIN disk'.manifests
      /\ NextOf(disk') \in Nat /\ NextOf(disk') <= vs.next
  <2>1. CASE disk' = disk
    BY <1>3, <2>1 DEF IInv
  <2>2. CASE bg = "write" /\ disk' = Logged
    BY <1>3, <2>2, LoggedIs
  <2> QED
    BY <1>1, <2>1, <2>2
<1>5. faults' \in 0..MaxFaults
  BY <1>1, LevelDbAssumption DEF IInv, Control
<1>6. Versions' /\ Control' /\ Compacting'
  BY <1>1, <1>2, <1>4, <1>5 DEF IInv, Versions, Control, Compacting
<1>7. Recovering'
  BY <1>1, <1>2 DEF Recovering, Opening
<1>8. Synced'
  BY <1>1, <1>3, <1>4 DEF Synced, NextField, NextOf
<1> QED
  BY <1>4, <1>6, <1>7, <1>8 DEF IInv

-----------------------------------------------------------------------------
(* What the program leaves behind when it stops in the middle: the         *)
(* manifest that CURRENT names and the tables it lists are as they were,   *)
(* and so are the logs, which go one by one only once they are not needed. *)
LeftBehind(e) ==
    /\ IsDisk(e) /\ SameManifest(disk, e) /\ SameTables(BuiltFiles(disk), disk, e)
    /\ \A n \in DOMAIN e.logs : n \in DOMAIN disk.logs /\ e.logs[n] = disk.logs[n]
    /\ main \notin Running => e.logs = disk.logs

LEMMA LeftIsDirectory == ASSUME IInv, NEW e, LeftBehind(e) PROVE IsDirectory(e)
BY DirectoryKept DEF IInv, LeftBehind

(* Failures.  Open gives up: what it was making goes, what CURRENT names   *)
(* stays.                                                                  *)
LEMMA OpenFailsLeaves == ASSUME IInv, OpenFails PROVE LeftBehind(disk')
<1>1. /\ Down /\ runs' = runs /\ faults' = faults + 1 /\ faults < MaxFaults /\ IsDisk(disk)
      /\ main \in {"recover", "newdb_temp", "newdb_rename"} \cup Opening
  BY DirectoryIs DEF IInv, OpenFails, Opening
<1>3. ASSUME main = "recover", disk.current = 0 PROVE LeftBehind(disk')
  <2>1. PICK manifests : manifests = Unlink(disk.manifests, 1)
    OBVIOUS
  <2>2. disk' = [current |-> disk.current, manifests |-> manifests, tables |-> disk.tables,
                 logs |-> disk.logs, temps |-> disk.temps]
    BY <1>1, <1>3, <2>1 DEF OpenFails, IsDisk
  <2>3. DOMAIN manifests \subseteq DOMAIN disk.manifests
    BY <2>1 DEF Unlink, Restrict
  <2> QED
    BY <1>1, <1>3, <2>2, <2>3 DEF IsDisk, LeftBehind, SameManifest, SameTables
<1>4. ASSUME main \in {"newdb_temp", "newdb_rename"} PROVE LeftBehind(disk')
  <2>1. PICK temps : temps = disk.temps \ {1}
    OBVIOUS
  <2>2. disk' = [current |-> disk.current, manifests |-> disk.manifests, tables |-> disk.tables,
                 logs |-> disk.logs, temps |-> temps]
    BY <1>1, <1>4, <2>1 DEF OpenFails, IsDisk
  <2> QED
    BY <1>1, <2>2 DEF IsDisk, LeftBehind, SameManifest, SameTables
<1>5. ASSUME main \in {"manifest", "temp", "rename"} PROVE LeftBehind(disk')
  <2>1. PICK manifests, temps : /\ manifests = Unlink(disk.manifests, vs.manifest)
                                /\ temps = disk.temps \ {vs.manifest}
    OBVIOUS
  <2>2. disk' = [current |-> disk.current, manifests |-> manifests, tables |-> disk.tables,
                 logs |-> disk.logs, temps |-> temps]
    BY <1>1, <1>5, <2>1 DEF OpenFails, IsDisk
  <2>3. disk.current # vs.manifest
    BY <1>5, ManifestIsNew DEF Opening
  <2>4. /\ DOMAIN manifests = DOMAIN disk.manifests \ {vs.manifest}
        /\ \A n \in DOMAIN manifests : manifests[n] = disk.manifests[n]
    BY <2>1 DEF Unlink, Restrict
  <2> QED
    BY <1>1, <2>2, <2>3, <2>4 DEF IsDisk, LeftBehind, SameManifest, SameTables
<1>6. ASSUME main = "logs", rec.logs # {} PROVE LeftBehind(disk')
  <2>1. PICK tables : tables = Unlink(disk.tables, vs.next)
    OBVIOUS
  <2>2. disk' = [current |-> disk.current, manifests |-> disk.manifests, tables |-> tables,
                 logs |-> disk.logs, temps |-> disk.temps]
    BY <1>1, <1>6, <2>1 DEF OpenFails, IsDisk
  <2>3. \A n \in DOMAIN disk.tables \ {vs.next} : n \in DOMAIN tables
                                                  /\ tables[n] = disk.tables[n]
    BY <2>1 DEF Unlink, Restrict
  <2>4. \A l \in Levels : \A f \in BuiltFiles(disk)[l] : f.number # vs.next
    BY <1>6, ManifestIsNew DEF Opening, SoundFiles, Sound
  <2>5. SameTables(BuiltFiles(disk), disk, disk')
    BY <2>2, <2>3, <2>4 DEF SameTables
  <2> QED
    BY <1>1, <2>2, <2>5 DEF IsDisk, LeftBehind, SameManifest
<1>7. ASSUME (main = "recover" /\ disk.current # 0) \/ (main = "logs" /\ rec.logs = {})
      PROVE  LeftBehind(disk')
  BY <1>1, <1>7 DEF OpenFails, LeftBehind, SameManifest, SameTables
<1> QED
  BY <1>1, <1>3, <1>4, <1>5, <1>6, <1>7 DEF Opening

LEMMA OpenFailsKeeps == ASSUME IInv, OpenFails PROVE IInv'
<1>1. Down /\ runs' = runs /\ faults' = faults + 1 /\ faults < MaxFaults
  BY DEF OpenFails
<1>2. IsDirectory(disk')
  BY OpenFailsLeaves, LeftIsDirectory
<1>3. runs' \in 0..MaxRuns /\ faults' \in 0..MaxFaults
  BY <1>1, LevelDbAssumption DEF IInv, Control
<1> QED
  BY <1>1, <1>2, <1>3, GoneDown

(* What a crash leaves of the file that is being written, and where        *)
(* nothing is being written of those that are being deleted.               *)
LEMMA CutOffIs ==
  ASSUME bg # "install"
  PROVE
    /\ main = "recover" /\ disk.current = 0 =>
          CutOff = {[disk EXCEPT !.manifests = Put(@, 1, << >>)]}
    /\ main \in {"newdb_temp", "temp"} =>
          CutOff = {[disk EXCEPT !.temps = @ \cup {ManifestToSet}]}
    /\ main = "logs" /\ rec.logs # {} =>
          CutOff = {[disk EXCEPT !.tables = Put(@, vs.next, {})]}
    /\ main = "manifest" =>
          CutOff = {[disk EXCEPT !.manifests = Put(@, vs.manifest, edits)] :
                      edits \in {<< >>, <<WriteSnapshot(Current(vs).files)>>}}
    /\ main = "opened" => CutOff = PartlyCleaned(DeleteObsoleteFiles(disk, db, vs))
<1>1. PICK cutNew, cutTemp, cutTable, cutManifest, cutOpened, cutInstall :
        /\ cutNew = {[disk EXCEPT !.manifests = Put(@, 1, << >>)]}
        /\ cutTemp = {[disk EXCEPT !.temps = @ \cup {ManifestToSet}]}
        /\ cutTable = {[disk EXCEPT !.tables = Put(@, vs.next, {})]}
        /\ cutManifest = {[disk EXCEPT !.manifests = Put(@, vs.manifest, edits)] :
                          edits \in {<< >>, <<WriteSnapshot(Current(vs).files)>>}}
        /\ cutOpened = PartlyCleaned(DeleteObsoleteFiles(disk, db, vs))
        /\ cutInstall = PartlyCleaned(DeleteObsoleteFiles(disk, [db EXCEPT !.pending = {}],
                                                       Unref(AppendVersion(vs, c.edit), c.version)))
  OBVIOUS
<1>2. CutOff = CASE main = "recover" /\ disk.current = 0 -> cutNew
                 [] main \in {"newdb_temp", "temp"} -> cutTemp
                 [] main = "logs" /\ rec.logs # {} -> cutTable
                 [] main = "manifest" -> cutManifest
                 [] main = "opened" -> cutOpened
                 [] bg = "install" /\ ~c.moved -> cutInstall
                 [] OTHER -> {}
  BY <1>1, Zenon DEF CutOff
<1>3. /\ main = "recover" /\ disk.current = 0 => CutOff = cutNew
      /\ main \in {"newdb_temp", "temp"} => CutOff = cutTemp
      /\ main = "logs" /\ rec.logs # {} => CutOff = cutTable
      /\ main = "manifest" => CutOff = cutManifest
      /\ main = "opened" => CutOff = cutOpened
  BY ONLY <1>2, bg # "install"
<1>4. main = "recover" /\ disk.current = 0 =>
        CutOff = {[disk EXCEPT !.manifests = Put(@, 1, << >>)]}
  BY <1>1, <1>3
<1>5. main \in {"newdb_temp", "temp"} =>
        CutOff = {[disk EXCEPT !.temps = @ \cup {ManifestToSet}]}
  BY <1>1, <1>3
<1>6. main = "logs" /\ rec.logs # {} =>
        CutOff = {[disk EXCEPT !.tables = Put(@, vs.next, {})]}
  BY <1>1, <1>3
<1>7. main = "manifest" =>
        CutOff = {[disk EXCEPT !.manifests = Put(@, vs.manifest, edits)] :
                    edits \in {<< >>, <<WriteSnapshot(Current(vs).files)>>}}
  BY <1>1, <1>3
<1>8. main = "opened" => CutOff = PartlyCleaned(DeleteObsoleteFiles(disk, db, vs))
  BY <1>1, <1>3
<1> QED
  BY <1>4, <1>5, <1>6, <1>7, <1>8, Zenon

(* Which files are still there is in three sets of numbers.                *)
LEMMA PartlyCleanedIs ==
  ASSUME NEW rest, NEW e \in PartlyCleaned(rest)
  PROVE  \E T \in SUBSET DOMAIN disk.tables, L \in SUBSET DOMAIN disk.logs,
            M \in SUBSET DOMAIN disk.manifests :
            /\ DOMAIN rest.tables \subseteq T /\ DOMAIN rest.manifests \subseteq M
            /\ e = Keeping(T, L, M)
<1>1. PICK tables, logs, manifests :
        /\ tables = {X \in SUBSET DOMAIN disk.tables : DOMAIN rest.tables \subseteq X}
        /\ logs = {X \in SUBSET DOMAIN disk.logs : DOMAIN rest.logs \subseteq X}
        /\ manifests = {X \in SUBSET DOMAIN disk.manifests : DOMAIN rest.manifests \subseteq X}
  OBVIOUS
<1>2. PartlyCleaned(rest) = {Keeping(T, L, M) : T \in tables, L \in logs, M \in manifests}
  BY <1>1 DEF PartlyCleaned
<1>3. PICK T \in tables, L \in logs, M \in manifests : e = Keeping(T, L, M)
  BY <1>2
<1>4. /\ T \in SUBSET DOMAIN disk.tables /\ DOMAIN rest.tables \subseteq T
      /\ L \in SUBSET DOMAIN disk.logs
      /\ M \in SUBSET DOMAIN disk.manifests /\ DOMAIN rest.manifests \subseteq M
  BY <1>1
<1> QED
  BY <1>3, <1>4, Zenon

(* A crash while obsolete files are deleted leaves some of them.           *)
LEMMA PartlyCleanedKeeps ==
  ASSUME IsDirectory(disk), NEW d, ~d.error, NEW s, s.manifest = disk.current,
         s.current \in DOMAIN s.versions, BuiltFiles(disk) = s.versions[s.current].files,
         NEW e \in PartlyCleaned(DeleteObsoleteFiles(disk, d, s))
  PROVE  /\ IsDisk(e) /\ SameManifest(disk, e) /\ SameTables(BuiltFiles(disk), disk, e)
         /\ \A n \in DOMAIN e.logs : n \in DOMAIN disk.logs /\ e.logs[n] = disk.logs[n]
<1>1. PICK live, log, manifest, rest :
        /\ live = d.pending \cup LiveFiles(s) /\ log = s.log /\ manifest = s.manifest
        /\ rest = Cleaned(disk, live, log, manifest)
  OBVIOUS
<1>2. e \in PartlyCleaned(rest)
  BY <1>1 DEF DeleteObsoleteFiles
<1>3. PICK T \in SUBSET DOMAIN disk.tables, L \in SUBSET DOMAIN disk.logs,
           M \in SUBSET DOMAIN disk.manifests :
        /\ DOMAIN rest.tables \subseteq T /\ DOMAIN rest.manifests \subseteq M
        /\ e = Keeping(T, L, M)
  BY <1>2, PartlyCleanedIs
<1>4. disk = [current |-> disk.current, manifests |-> disk.manifests, tables |-> disk.tables,
              logs |-> disk.logs, temps |-> disk.temps]
  BY DirectoryIs DEF IsDisk
<1>5. PICK keptTables, keptManifests :
        /\ keptTables = DOMAIN disk.tables \cap live
        /\ keptManifests = {n \in DOMAIN disk.manifests : n >= manifest}
  OBVIOUS
<1>6. DOMAIN rest.tables = keptTables /\ DOMAIN rest.manifests = keptManifests
  <2>1. PICK tables, manifests, logs, temps :
          /\ tables = Restrict(disk.tables, keptTables)
          /\ manifests = Restrict(disk.manifests, keptManifests)
          /\ logs = Restrict(disk.logs, {n \in DOMAIN disk.logs : n >= log})
          /\ temps = disk.temps \cap live
    OBVIOUS
  <2>2. rest = [disk EXCEPT !.tables = tables, !.temps = temps, !.logs = logs,
                            !.manifests = manifests]
    BY <1>1, <1>5, <2>1 DEF Cleaned
  <2>3. rest.tables = tables /\ rest.manifests = manifests
    BY ONLY <1>4, <2>2
  <2>4. DOMAIN tables = keptTables /\ DOMAIN manifests = keptManifests
    BY <2>1 DEF Restrict
  <2> QED
    BY <2>3, <2>4
<1>7. PICK temps, tables, logs, manifests :
        /\ temps = disk.temps /\ tables = Restrict(disk.tables, T)
        /\ logs = Restrict(disk.logs, L) /\ manifests = Restrict(disk.manifests, M)
  OBVIOUS
<1>8. e = [current |-> disk.current, manifests |-> manifests, tables |-> tables, logs |-> logs,
           temps |-> temps]
  <2>1. e = [disk EXCEPT !.tables = tables, !.logs = logs, !.manifests = manifests]
    BY <1>3, <1>7 DEF Keeping
  <2> QED
    BY ONLY <1>4, <1>7, <2>1
<1>9. e = [current |-> disk.current, manifests |-> Restrict(disk.manifests, M),
           tables |-> Restrict(disk.tables, T), logs |-> Restrict(disk.logs, L),
           temps |-> temps]
  BY <1>7, <1>8
<1>10. /\ (DOMAIN disk.tables \cap live) \subseteq T
       /\ {n \in DOMAIN disk.manifests : n >= manifest} \subseteq M
  BY <1>3, <1>5, <1>6
<1>11. /\ IsDisk(e) /\ SameManifest(disk, e)
       /\ \A files : (\A l \in Levels : \A f \in files[l] : f.number \in live)
                        => SameTables(files, disk, e)
  BY <1>1, <1>9, <1>10, CleaningKeeps
<1>12. \A files : (\A l \in Levels : \A f \in files[l] : f.number \in LiveFiles(s))
                     => SameTables(files, disk, e)
  BY <1>1, <1>11
<1>13. SameTables(BuiltFiles(disk), disk, e)
  BY <1>11, <1>12, ObsoleteFilesOnly
<1>14. \A n \in DOMAIN e.logs : n \in DOMAIN disk.logs /\ e.logs[n] = disk.logs[n]
  <2>1. \A n \in DOMAIN logs : n \in DOMAIN disk.logs /\ logs[n] = disk.logs[n]
    BY <1>7 DEF Restrict
  <2> QED
    BY <1>8, <2>1
<1> QED
  BY <1>11, <1>13, <1>14

(* The file that is being written when the program crashes is none that    *)
(* CURRENT and its manifest name.                                          *)
LEMMA CrashLeaves == ASSUME IInv, Crash PROVE LeftBehind(disk')
<1>1. /\ Down /\ runs' = runs /\ faults' = faults + 1 /\ faults < MaxFaults /\ IsDisk(disk)
      /\ disk' \in {disk} \cup CutOff /\ IsDirectory(disk)
  BY DirectoryIs DEF IInv, Crash
<1>3. main \notin Running \/ main = "opened" => bg # "install"
  BY BackgroundRuns
<1>4. ASSUME main = "recover", disk.current = 0, disk' \in CutOff PROVE LeftBehind(disk')
  <2>1. PICK manifests : manifests = Put(disk.manifests, 1, << >>)
    OBVIOUS
  <2>2. disk' = [current |-> disk.current, manifests |-> manifests, tables |-> disk.tables,
                 logs |-> disk.logs, temps |-> disk.temps]
    <3>1. CutOff = {[disk EXCEPT !.manifests = Put(@, 1, << >>)]}
      BY <1>4, <1>3, CutOffIs DEF Running, Reading
    <3> QED
      BY <1>1, <1>4, <2>1, <3>1 DEF IsDisk
  <2>3. DOMAIN manifests = DOMAIN disk.manifests \cup {1}
    BY <2>1 DEF Put
  <2>4. \A n \in DOMAIN disk.manifests \ {1} : manifests[n] = disk.manifests[n]
    BY <2>1 DEF Put
  <2> QED
    BY <1>1, <1>4, <2>2, <2>3, <2>4 DEF IsDisk, LeftBehind, SameManifest, SameTables
<1>5. ASSUME main \in {"newdb_temp", "temp"}, disk' \in CutOff PROVE LeftBehind(disk')
  <2>1. PICK temps : temps = disk.temps \cup {ManifestToSet}
    OBVIOUS
  <2>2. disk' = [current |-> disk.current, manifests |-> disk.manifests, tables |-> disk.tables,
                 logs |-> disk.logs, temps |-> temps]
    <3>1. CutOff = {[disk EXCEPT !.temps = @ \cup {ManifestToSet}]}
      BY <1>5, <1>3, CutOffIs DEF Running, Reading
    <3> QED
      BY <1>1, <1>5, <2>1, <3>1 DEF IsDisk
  <2> QED
    BY <1>1, <2>2 DEF IsDisk, LeftBehind, SameManifest, SameTables
<1>6. ASSUME main = "logs", rec.logs # {}, disk' \in CutOff PROVE LeftBehind(disk')
  <2>1. PICK tables : tables = Put(disk.tables, vs.next, {})
    OBVIOUS
  <2>2. disk' = [current |-> disk.current, manifests |-> disk.manifests, tables |-> tables,
                 logs |-> disk.logs, temps |-> disk.temps]
    <3>1. CutOff = {[disk EXCEPT !.tables = Put(@, vs.next, {})]}
      BY <1>6, <1>3, CutOffIs DEF Running, Reading
    <3> QED
      BY <1>1, <1>6, <2>1, <3>1 DEF IsDisk
  <2>3. \A l \in Levels : \A f \in BuiltFiles(disk)[l] : f.number # vs.next
    BY <1>6, ManifestIsNew DEF Opening, SoundFiles, Sound
  <2>4. SameTables(BuiltFiles(disk), disk, disk')
    BY <2>1, <2>2, <2>3, PutKeepsTables
  <2> QED
    BY <1>1, <2>2, <2>4 DEF IsDisk, LeftBehind, SameManifest
<1>7. ASSUME main = "manifest", disk' \in CutOff PROVE LeftBehind(disk')
  <2>1. PICK edits : disk' = [disk EXCEPT !.manifests = Put(@, vs.manifest, edits)]
    <3>1. CutOff = {[disk EXCEPT !.manifests = Put(@, vs.manifest, edits)] :
                      edits \in {<< >>, <<WriteSnapshot(Current(vs).files)>>}}
      BY <1>7, <1>3, CutOffIs DEF Running, Reading
    <3> QED
      BY <1>7, <3>1
  <2>2. PICK manifests : manifests = Put(disk.manifests, vs.manifest, edits)
    OBVIOUS
  <2>3. disk' = [current |-> disk.current, manifests |-> manifests, tables |-> disk.tables,
                 logs |-> disk.logs, temps |-> disk.temps]
    BY <1>1, <2>1, <2>2 DEF IsDisk
  <2>4. /\ DOMAIN manifests = DOMAIN disk.manifests \cup {vs.manifest}
        /\ \A n \in DOMAIN disk.manifests \ {vs.manifest} : manifests[n] = disk.manifests[n]
    BY <2>2 DEF Put
  <2>5. disk.current # vs.manifest /\ vs.manifest # 0
    BY <1>7, ManifestIsNew DEF Opening
  <2> QED
    BY <1>1, <2>3, <2>4, <2>5 DEF IsDisk, LeftBehind, SameManifest, SameTables
<1>8. ASSUME main = "opened", disk' \in CutOff PROVE LeftBehind(disk')
  <2>1. disk' \in PartlyCleaned(DeleteObsoleteFiles(disk, db, vs))
    <3>1. CutOff = PartlyCleaned(DeleteObsoleteFiles(disk, db, vs))
      BY <1>8, <1>3, CutOffIs DEF Running, Reading
    <3> QED
      BY <1>8, <3>1
  <2>2. /\ bg = "idle" /\ ~db.error /\ vs.manifest = disk.current
        /\ vs.current \in DOMAIN vs.versions
        /\ BuiltFiles(disk) = vs.versions[vs.current].files
    BY <1>8 DEF IInv, Control, Synced, Running, Versions, Referenced, Current, BuiltFiles
  <2> QED
    BY <1>1, <1>8, <2>1, <2>2, PartlyCleanedKeeps DEF LeftBehind, Running
<1>9. ASSUME bg = "install", ~c.moved, main \in Running, main # "opened", disk' \in CutOff
      PROVE  LeftBehind(disk')
  <2>1. PICK s, d : s = Installed /\ d = [db EXCEPT !.pending = {}]
    OBVIOUS
  <2>2. disk' \in PartlyCleaned(DeleteObsoleteFiles(disk, d, s))
    BY <1>9, <2>1 DEF CutOff, Installed, Running, Reading
  <2>3. ~d.error
    BY <1>9, <2>1 DEF IInv, Control
  <2>4. /\ s.manifest = disk.current /\ s.current \in DOMAIN s.versions
        /\ BuiltFiles(disk) = s.versions[s.current].files
    BY <1>9, <2>1, InstalledIs DEF IInv, Synced, BuiltFiles
  <2> QED
    BY <1>1, <1>9, <2>2, <2>3, <2>4, PartlyCleanedKeeps DEF LeftBehind
<1>10. LeftBehind(disk')
  <2>1. CASE disk' = disk
    BY <1>1, <2>1 DEF LeftBehind, SameManifest, SameTables
  <2>2. CASE disk' \in CutOff
    <3>1. \/ main = "recover" /\ disk.current = 0
          \/ main \in {"newdb_temp", "temp"}
          \/ main = "logs" /\ rec.logs # {}
          \/ main = "manifest"
          \/ main = "opened"
          \/ main # "opened" /\ bg = "install" /\ ~c.moved
      BY <2>2 DEF CutOff
    <3>2. bg = "install" => main \in Running
      BY BackgroundRuns DEF IInv
    <3> QED
      BY <1>4, <1>5, <1>6, <1>7, <1>8, <1>9, <2>2, <3>1, <3>2
  <2> QED
    BY <1>1, <2>1, <2>2
<1> QED
  BY <1>10

LEMMA CrashKeeps == ASSUME IInv, Crash PROVE IInv'
<1>1. Down /\ runs' = runs /\ faults' = faults + 1 /\ faults < MaxFaults
  BY DEF Crash
<1>2. IsDirectory(disk')
  BY CrashLeaves, LeftIsDirectory
<1>3. runs' \in 0..MaxRuns /\ faults' \in 0..MaxFaults
  BY <1>1, LevelDbAssumption DEF IInv, Control
<1> QED
  BY <1>1, <1>2, <1>3, GoneDown

-----------------------------------------------------------------------------
(* Every step of the two threads, and every failure.                       *)
LEMMA StepKeeps == IInv /\ [Next]_vars => IInv'
<1> SUFFICES ASSUME IInv, [Next]_vars PROVE IInv'
  OBVIOUS
<1>1. CASE Start
  BY <1>1, StartKeeps
<1>2. CASE Main
  BY <1>2, NewDBKeeps, WriteTempKeeps, RenameNewDBKeeps, RecoverKeeps, RecoverLogFileKeeps,
     NewLogKeeps, WriteManifestKeeps, RenameAndInstallKeeps, OpenedKeeps, NewIteratorKeeps,
     SeekKeeps, NextPairKeeps, DeleteIteratorKeeps, ShutDownKeeps, ClosedKeeps DEF Main
<1>3. CASE Background
  BY <1>3, BackgroundCallIdleKeeps, TrivialMoveKeeps, StartCompactionKeeps,
     OpenCompactionOutputFileKeeps, FinishCompactionOutputFileKeeps,
     InstallCompactionResultsKeeps, WriteEditKeeps, InstallVersionKeeps, AbandonCompactionKeeps
     DEF Background
<1>4. CASE CompactionFails \/ OpenFails \/ Crash
  BY <1>4, CompactionFailsKeeps, OpenFailsKeeps, CrashKeeps
<1>5. CASE UNCHANGED vars
  <2>1. IsDirectory(disk') /\ Control' /\ Versions' /\ Recovering' /\ Synced' /\ Compacting'
    BY <1>5 DEF IInv, vars, Control, Versions, Recovering, Synced, Compacting, NextField
  <2> QED
    BY <2>1 DEF IInv
<1> QED
  BY <1>1, <1>2, <1>3, <1>4, <1>5, Zenon DEF Next

(* The references of a version, counted.                                   *)
LEMMA RefsCounted ==
  ASSUME NEW v, NEW current, NEW compaction, NEW iterator
  PROVE  Cardinality({x \in {1, 2, 3} : v = <<current, compaction, iterator>>[x]}) =
            Refs(v, current, compaction, iterator)
<1> DEFINE S == {x \in {1, 2, 3} : v = <<current, compaction, iterator>>[x]}
           one == IF v = current THEN {1} ELSE {}
           two == IF v = compaction THEN one \cup {2} ELSE one
           three == IF v = iterator THEN two \cup {3} ELSE two
<1>1. S = three
  OBVIOUS
<1>2. IsFiniteSet(one) /\ Cardinality(one) = IF v = current THEN 1 ELSE 0
  BY FS_EmptySet, FS_Singleton
<1>3. 2 \notin one /\ 3 \notin two
  OBVIOUS
<1> HIDE DEF one
<1>4. /\ IsFiniteSet(two)
      /\ Cardinality(two) = Cardinality(one) + IF v = compaction THEN 1 ELSE 0
  <2>1. IsFiniteSet(one \cup {2}) /\ Cardinality(one \cup {2}) = Cardinality(one) + 1
    BY <1>2, <1>3, FS_AddElement
  <2>2. Cardinality(one) \in Nat
    BY <1>2
  <2> QED
    BY <1>2, <2>1, <2>2
<1> HIDE DEF two
<1>5. Cardinality(three) = Cardinality(two) + IF v = iterator THEN 1 ELSE 0
  <2>1. Cardinality(two \cup {3}) = Cardinality(two) + 1
    BY <1>3, <1>4, FS_AddElement
  <2>2. Cardinality(two) \in Nat
    BY <1>2, <1>4
  <2> QED
    BY <2>1, <2>2
<1> HIDE DEF three
<1> QED
  BY <1>1, <1>2, <1>4, <1>5 DEF Refs

(* So the invariant says that references are balanced,                     *)
LEMMA Balanced == IInv => TypeOK
<1> SUFFICES ASSUME IInv PROVE TypeOK
  OBVIOUS
<1>1. Control /\ Referenced(vs, c.version, iter.version)
  BY DEF IInv, Versions
<1>2. main \in {"down", "recover", "newdb_temp", "newdb_rename", "logs", "manifest", "temp",
                "rename", "opened", "open", "seek", "read", "release", "delete", "wait"}
  BY <1>1 DEF Control, Opening, Running, Reading
<1>3. \A v \in DOMAIN vs.versions :
         vs.versions[v].refs = Cardinality({x \in {1, 2, 3} :
            v = <<vs.current, c.version, iter.version>>[x]})
  BY <1>1, RefsCounted DEF Referenced
<1>4. vs.current \in DOMAIN vs.versions
  BY <1>1 DEF Referenced
<1> QED
  BY <1>1, <1>2, <1>3, <1>4 DEF TypeOK, Control

(* and that no file of a version is missing or overwritten.                *)
LEMMA NothingMissing == IInv => FilesKept
<1> SUFFICES ASSUME IInv, NEW v \in DOMAIN vs.versions,
                    NEW f \in UNION {vs.versions[v].files[l] : l \in Levels}
             PROVE  /\ f.number \in DOMAIN disk.tables
                    /\ f = FileMetaData(f.number, disk.tables[f.number])
  BY DEF FilesKept
<1>1. PICK l \in Levels : f \in vs.versions[v].files[l]
  OBVIOUS
<1> QED
  BY <1>1 DEF IInv, Versions, SoundFiles, Sound

(* The strengthened invariant holds in every state of the program.         *)
THEOREM StaysSound == Spec => []IInv
<1>1. Init => IInv
  BY StartsIn
<1>2. IInv /\ [Next]_vars => IInv'
  BY StepKeeps
<1> QED
  BY <1>1, <1>2, PTL DEF Spec, SafeSpec

(* Ref and Unref are balanced on every path of opening, reading,           *)
(* compacting and closing, the failing ones included: a version's count is *)
(* the number of those who hold it, so that it is freed neither too early  *)
(* nor never.                                                              *)
THEOREM ReferencesAreBalanced == Spec => []TypeOK
<1>1. IInv => TypeOK
  BY Balanced
<1> QED
  BY <1>1, StaysSound, PTL

(* DeleteObsoleteFiles takes no file from the version that the iterator    *)
(* reads, from the inputs of the compaction or from the current version,   *)
(* and nothing is written under the number of one of them: with a read, a  *)
(* compaction and a failure in any order.                                  *)
THEOREM FilesAreKept == Spec => []FilesKept
<1>1. IInv => FilesKept
  BY NothingMissing
<1> QED
  BY <1>1, StaysSound, PTL

-----------------------------------------------------------------------------
(***************************************************************************)
(* The second part: newer writes lie above older ones, and nothing is      *)
(* lost.  The invariant OInv says where the writes are: in the directory   *)
(* (Lasting), in the versions (InVersions), while the logs are read        *)
(* (InRecovery), when they have been read (InTables) and while tables are  *)
(* merged (InCompaction).                                                  *)
(***************************************************************************)
(* The writes in the files.  Those of a version: where they lie, none      *)
(* after the last that was given out.                                      *)
Settled(files, d, last) ==
    /\ Layered(d, files)
    /\ \A l \in Levels : IsFiniteSet(files[l])
    /\ \A l \in Levels : \A f \in files[l] :
          IsTable(d.tables[f.number]) /\ \A e \in d.tables[f.number] : e.seq <= last

LastOfDisk(d) == LastField(Manifest(d), "last")
LogOfDisk(d) == LastField(Manifest(d), "log")

NothingLogged(d, log) == \A n \in DOMAIN d.logs : n >= log => d.logs[n] = << >>

(* What recovery has yet to read, and the version it is making.            *)
RecordsLeft(d, logs, from) ==
    {p \in UNION {{n} \X DOMAIN ReadRecords(d.logs[n]) : n \in logs} :
        p[1] = Min(logs) => p[2] >= from}

Unread(d, logs, from) ==
    UNION {ReadRecords(d.logs[p[1]])[p[2]] : p \in RecordsLeft(d, logs, from)}

Recovered == ApplyEdit(Current(vs).files, rec.edit)

(* The inputs of a compaction leave nothing behind that shares a key with  *)
(* an input: in its own level, or in the next between the inputs.          *)
Separate(files, level, inputs) ==
    /\ level \in Nat /\ level < MaxLevel
    /\ inputs = <<inputs[1], inputs[2]>>
    /\ inputs[1] \subseteq files[level] /\ inputs[1] # {}
    /\ inputs[2] \subseteq files[level + 1]
    /\ level = 0 => \A f \in files[0] : \A g \in inputs[1] :
                        KeysMeet(f, g.smallest.key, g.largest.key) => f \in inputs[1]
    /\ \A h \in files[level + 1] :
          IF h \in inputs[2]
          THEN \E f, g \in inputs[1] : f.smallest.key <= h.largest.key
                                       /\ h.smallest.key <= g.largest.key
          ELSE \/ \A f \in inputs[1] : h.largest.key < f.smallest.key
               \/ \A f \in inputs[1] : f.largest.key < h.smallest.key

InputEntries(d, inputs) == UNION {TableEntries(d, f.number) : f \in inputs[1] \cup inputs[2]}
OutputEntries(d, outputs) == UNION {TableEntries(d, f.number) : f \in outputs}

Picked(files, level) == [level |-> level, files |-> files]

(* What was stored is stored, in the directory and in every version.       *)
Lasting == Intact(disk) /\ Visible(Stored(disk)) = contents

InVersions ==
    /\ vs.last \in Nat
    /\ \A v \in DOMAIN vs.versions :
          /\ Settled(vs.versions[v].files, disk, vs.last)
          /\ \A p \in vs.versions[v].seek : p[1] # MaxLevel
          /\ main \in Running => Visible(Entries(disk, vs.versions[v].files)) = contents

(* Opening moves the records of the logs, oldest first, to tables above    *)
(* those of the version.                                                   *)
InRecovery ==
    /\ main \in Opening =>
          rec.edit.deleted = {} /\ \A p \in rec.edit.added : p = <<0, p[2]>>
    /\ main = "logs" =>
          /\ vs.log = LogOfDisk(disk) /\ vs.last = LastOfDisk(disk)
          /\ rec.logs \subseteq LogsToRead(disk)
          /\ \A n \in LogsToRead(disk) \ rec.logs : n < vs.next
          /\ rec.from \in Nat \ {0} /\ rec.max \in Nat
          /\ Settled(Recovered, disk, Max({vs.last, rec.max}))
          /\ After(Unread(disk, rec.logs, rec.from), Entries(disk, Recovered))
          /\ Stored(disk) = Entries(disk, Recovered) \cup Unread(disk, rec.logs, rec.from)
    /\ main \in Opening \ {"logs"} =>
          /\ db.logfile \in Nat /\ NothingLogged(disk, db.logfile)
          /\ Settled(Recovered, disk, vs.last)
          /\ Stored(disk) = Entries(disk, Recovered)

(* Then the logs are empty.                                                *)
InTables ==
    main \in Running =>
        /\ LastOfDisk(disk) = vs.last
        /\ LogOfDisk(disk) = vs.log /\ vs.log \in Nat
        /\ NothingLogged(disk, vs.log)

(* A compaction that merges: what it has written and has left to write is  *)
(* what is kept of its inputs, in the order of the keys.                   *)
InCompaction ==
    /\ bg = "work" =>
          /\ Separate(Current(vs).files, c.level, c.inputs)
          /\ OutputEntries(disk, c.outputs) \cup c.left =
                Kept(Picked(Current(vs).files, c.level), InputEntries(disk, c.inputs), vs.last)
          /\ IsFiniteSet(c.outputs)
          /\ \A f \in c.outputs : IsTable(disk.tables[f.number])
          /\ \A f, g \in c.outputs : f # g => ~KeysMeet(f, g.smallest.key, g.largest.key)
          /\ \A f \in c.outputs : \A e \in disk.tables[f.number], x \in c.left : e.key < x.key
    /\ bg \in {"write", "install"} =>
          /\ c.edit.log = vs.log /\ c.edit.last = vs.last
          /\ Settled(ApplyEdit(Current(vs).files, c.edit), disk, vs.last)
          /\ Visible(Entries(disk, ApplyEdit(Current(vs).files, c.edit))) = contents

OInv == Lasting /\ InVersions /\ InRecovery /\ InTables /\ InCompaction

-----------------------------------------------------------------------------
(* Finite sets of numbers, and the ends of a table.                        *)
LEMMA FiniteBound ==
  ASSUME NEW S \in SUBSET Nat, IsFiniteSet(S)
  PROVE  \E n \in Nat : \A x \in S : x <= n
<1> DEFINE Good == {n \in Nat : \A U \in SUBSET Nat :
                      IsFiniteSet(U) /\ Cardinality(U) = n
                         => \E m \in Nat : \A x \in U : x <= m}
<1>1. 0 \in Good
  BY FS_EmptySet
<1>2. ASSUME NEW n \in Nat, n \in Good PROVE n + 1 \in Good
  <2> SUFFICES ASSUME NEW U \in SUBSET Nat, IsFiniteSet(U), Cardinality(U) = n + 1
               PROVE  \E m \in Nat : \A x \in U : x <= m
    OBVIOUS
  <2>1. U # {}
    <3>1. Cardinality({}) = 0 /\ n + 1 # 0
      BY FS_EmptySet
    <3> QED
      BY <3>1
  <2>2. PICK x \in U : TRUE
    BY <2>1
  <2>3. IsFiniteSet(U \ {x}) /\ Cardinality(U \ {x}) = n
    <3>1. Cardinality(U \ {x}) = Cardinality(U) - 1 /\ IsFiniteSet(U \ {x})
      BY FS_RemoveElement, Zenon
    <3> QED
      BY <3>1
  <2>4. PICK m \in Nat : \A y \in U \ {x} : y <= m
    BY <1>2, <2>3
  <2>5. \A y \in U : y <= m + x
    BY <2>4
  <2>6. m + x \in Nat
    OBVIOUS
  <2> QED
    BY <2>5, <2>6
<1>3. Cardinality(S) \in Good
  <2> HIDE DEF Good
  <2> QED
    BY <1>1, <1>2, SetInduction, FS_CardinalityType
<1> QED
  BY <1>3

(* And the greatest of finitely many numbers is one of them.               *)
LEMMA MaxIn ==
  ASSUME NEW S \in SUBSET Nat, IsFiniteSet(S), S # {}
  PROVE  Max(S) \in S /\ \A x \in S : x <= Max(S)
<1> DEFINE above == {n \in Nat : \A x \in S : x <= n}
<1>1. above \in SUBSET Nat /\ above # {}
  BY FiniteBound
<1>2. Min(above) \in above /\ \A n \in above : Min(above) <= n
  <2> HIDE DEF above
  <2> QED
    BY <1>1, MinIn
<1>3. PICK least \in Nat : /\ \A x \in S : x <= least
                           /\ \A n \in Nat : (\A x \in S : x <= n) => least <= n
  BY <1>2
<1>4. least \in S
  <2> SUFFICES ASSUME least \notin S PROVE FALSE
    OBVIOUS
  <2>1. PICK x \in S : TRUE
    OBVIOUS
  <2>2. \A y \in S : y <= least - 1
    BY <1>3
  <2>3. least - 1 \in Nat
    BY <1>3, <2>1, <2>2
  <2> QED
    BY <1>3, <2>2, <2>3
<1> QED
  BY <1>3, <1>4 DEF Max

(* What is counted among finitely many things is finite.                   *)
LEMMA ImageFinite ==
  ASSUME NEW f, IsFiniteSet(DOMAIN f)
  PROVE  IsFiniteSet({f[x] : x \in DOMAIN f})
<1>1. f \in Surjection(DOMAIN f, {f[x] : x \in DOMAIN f}) \/ f # [x \in DOMAIN f |-> f[x]]
  BY DEF Surjection
<1>2. [x \in DOMAIN f |-> f[x]] \in Surjection(DOMAIN f, {f[x] : x \in DOMAIN f})
  BY DEF Surjection
<1> QED
  BY <1>2, FS_Surjection

(* The first and the last entry of a table.                                *)
LEMMA TableEnds ==
  ASSUME NEW E, IsTable(E)
  PROVE  /\ FirstOf(E) \in E /\ LastOf(E) \in E
         /\ \A e \in E : FirstOf(E).key <= e.key /\ e.key <= LastOf(E).key
         /\ \A e \in E \ {FirstOf(E)} : Before(FirstOf(E), e)
<1> DEFINE keys == {e.key : e \in E}
<1>1. \A e \in E : e.key \in Nat /\ e.seq \in Nat
  BY DEF IsTable, Writes
<1>2. keys \in SUBSET Nat /\ keys # {}
  BY <1>1 DEF IsTable
<1>3. IsFiniteSet(keys)
  <2>1. DOMAIN [e \in E |-> e.key] = E /\ {[e \in E |-> e.key][x] : x \in E} = keys
    OBVIOUS
  <2> QED
    BY <2>1, ImageFinite DEF IsTable
<1>4. PICK low : low \in keys /\ \A k \in keys : low <= k
  <2> HIDE DEF keys
  <2> QED
    BY <1>2, MinIn
<1>5. PICK high : high \in keys /\ \A k \in keys : k <= high
  <2> HIDE DEF keys
  <2> QED
    BY <1>2, <1>3, MaxIn
<1>6. ASSUME NEW k \in keys
      PROVE  /\ \E e \in E : e.key = k /\ \A f \in E : f.key = k => f.seq <= e.seq
             /\ \E e \in E : e.key = k /\ \A f \in E : f.key = k => e.seq <= f.seq
  <2> DEFINE D == {e \in E : e.key = k}
             seqs == {e.seq : e \in D}
  <2>1. seqs \in SUBSET Nat /\ seqs # {}
    BY <1>1, <1>6
  <2>2. IsFiniteSet(D)
    BY FS_Subset DEF IsTable
  <2>3. IsFiniteSet(seqs)
    <3>1. DOMAIN [e \in D |-> e.seq] = D /\ {[e \in D |-> e.seq][x] : x \in D} = seqs
      OBVIOUS
    <3> QED
      BY <2>2, <3>1, ImageFinite
  <2>4. /\ \E s \in seqs : \A t \in seqs : t <= s
        /\ \E s \in seqs : \A t \in seqs : s <= t
    <3> HIDE DEF seqs
    <3> QED
      BY <2>1, <2>3, MaxIn, MinIn
  <2> QED
    BY <2>4
<1>7. \E e \in E : e.key = low /\ \A f \in E \ {e} : Before(e, f)
  <2>1. PICK e \in E : e.key = low /\ \A f \in E : f.key = low => f.seq <= e.seq
    BY <1>4, <1>6
  <2>2. ASSUME NEW f \in E \ {e} PROVE Before(e, f)
    <3>1. CASE f.key = low
      <4>1. f.seq <= e.seq /\ f.seq # e.seq
        BY <2>1, <3>1 DEF IsTable
      <4> QED
        BY <1>1, <2>1, <3>1, <4>1 DEF Before
    <3>2. CASE f.key # low
      <4>1. low <= f.key
        BY <1>4
      <4> QED
        BY <1>1, <2>1, <3>2, <4>1 DEF Before
    <3> QED
      BY <3>1, <3>2
  <2> QED
    BY <2>1, <2>2
<1>8. \E e \in E : e.key = high /\ \A f \in E \ {e} : Before(f, e)
  <2>1. PICK e \in E : e.key = high /\ \A f \in E : f.key = high => e.seq <= f.seq
    BY <1>5, <1>6
  <2>2. ASSUME NEW f \in E \ {e} PROVE Before(f, e)
    <3>1. CASE f.key = high
      <4>1. e.seq <= f.seq /\ f.seq # e.seq
        BY <2>1, <3>1 DEF IsTable
      <4> QED
        BY <1>1, <2>1, <3>1, <4>1 DEF Before
    <3>2. CASE f.key # high
      <4>1. f.key <= high
        BY <1>5
      <4> QED
        BY <1>1, <2>1, <3>2, <4>1 DEF Before
    <3> QED
      BY <3>1, <3>2
  <2> QED
    BY <2>1, <2>2
<1>9. FirstOf(E) \in E /\ \A f \in E \ {FirstOf(E)} : Before(FirstOf(E), f)
  BY <1>7, Zenon DEF FirstOf
<1>10. LastOf(E) \in E /\ \A f \in E \ {LastOf(E)} : Before(f, LastOf(E))
  BY <1>8, Zenon DEF LastOf
<1> HIDE DEF keys
<1> QED
  BY <1>1, <1>9, <1>10 DEF Before

(* So a file of a version spans the keys of its entries.                   *)
LEMMA FileSpan ==
  ASSUME NEW E, IsTable(E), NEW f, f = FileMetaData(f.number, E)
  PROVE  /\ f.smallest \in E /\ f.largest \in E
         /\ f.smallest.key \in Nat /\ f.largest.key \in Nat
         /\ f.smallest.key <= f.largest.key
         /\ \A e \in E : f.smallest.key <= e.key /\ e.key <= f.largest.key
<1>1. f.smallest = FirstOf(E) /\ f.largest = LastOf(E)
  <2>1. /\ FileMetaData(f.number, E).smallest = FirstOf(E)
        /\ FileMetaData(f.number, E).largest = LastOf(E)
    BY DEF FileMetaData
  <2> QED
    BY <2>1, Zenon
<1>2. \A e \in E : e.key \in Nat
  BY DEF IsTable, Writes
<1> QED
  BY <1>1, <1>2, TableEnds

-----------------------------------------------------------------------------
(* What is picked for a compaction.  The keys of the files F run from the  *)
(* lowest to the highest.                                                  *)
Spans(f) == f.smallest.key \in Nat /\ f.largest.key \in Nat /\ f.smallest.key <= f.largest.key

(* The lowest and the highest key of finitely many files are keys of       *)
(* theirs.                                                                 *)
LEMMA KeyRange ==
  ASSUME NEW F, IsFiniteSet(F), F # {}, \A f \in F : Spans(f)
  PROVE  /\ LowKey(F) \in Nat /\ HighKey(F) \in Nat
         /\ \E f \in F : f.smallest.key = LowKey(F)
         /\ \E f \in F : f.largest.key = HighKey(F)
         /\ \A f \in F : LowKey(F) <= f.smallest.key /\ f.largest.key <= HighKey(F)
<1>1. PICK lows : lows = {f.smallest.key : f \in F}
  OBVIOUS
<1>2. PICK highs : highs = {f.largest.key : f \in F}
  OBVIOUS
<1>3. lows \in SUBSET Nat /\ lows # {} /\ highs \in SUBSET Nat /\ highs # {}
  BY <1>1, <1>2 DEF Spans
<1>4. IsFiniteSet(highs)
  <2>1. /\ DOMAIN [f \in F |-> f.largest.key] = F
        /\ {[f \in F |-> f.largest.key][x] : x \in F} = highs
    BY <1>2
  <2> QED
    BY <2>1, ImageFinite
<1>5. Min(lows) \in lows /\ \A k \in lows : Min(lows) <= k
  BY <1>3, MinIn
<1>6. Max(highs) \in highs /\ \A k \in highs : k <= Max(highs)
  BY <1>3, <1>4, MaxIn
<1>7. LowKey(F) = Min(lows) /\ HighKey(F) = Max(highs)
  BY <1>1, <1>2 DEF LowKey, HighKey
<1>8. /\ \A f \in F : f.smallest.key \in lows /\ f.largest.key \in highs
      /\ \A k \in lows : \E f \in F : f.smallest.key = k
      /\ \A k \in highs : \E f \in F : f.largest.key = k
  BY <1>1, <1>2
<1> QED
  BY <1>3, <1>5, <1>6, <1>7, <1>8

(* GetOverlappingInputs: all files of the level that meet the range, in    *)
(* level 0 closed under meeting one another, in another level no more than *)
(* those.                                                                  *)
LEMMA OverlappingInputsAre ==
  ASSUME NEW files, NEW level, NEW F
  PROVE  LET G == GetOverlappingInputs(files, level, F)
         IN  /\ G \subseteq files[level]
             /\ {f \in files[level] : KeysMeet(f, LowKey(F), HighKey(F))} \subseteq G
             /\ level # 0 => G = {f \in files[level] : KeysMeet(f, LowKey(F), HighKey(F))}
             /\ level = 0 => \A f \in files[0], g \in G :
                                KeysMeet(f, g.smallest.key, g.largest.key) => f \in G
<1> DEFINE found == {f \in files[level] : KeysMeet(f, LowKey(F), HighKey(F))}
           IsClosed(G) == /\ found \subseteq G
                          /\ \A f \in files[0], g \in G :
                                KeysMeet(f, g.smallest.key, g.largest.key) => f \in G
           closed == {G \in SUBSET files[0] : IsClosed(G)}
           least == {f \in files[0] : \A G \in closed : f \in G}
<1>1. GetOverlappingInputs(files, level, F) =
        IF level = 0 THEN CHOOSE G \in closed : \A H \in closed : G \subseteq H ELSE found
  BY DEF GetOverlappingInputs
<1>2. CASE level # 0
  BY <1>1, <1>2
<1>3. CASE level = 0
  <2>1. found \subseteq files[0]
    BY <1>3
  <2> HIDE DEF found
  <2>2. least \in SUBSET files[0] /\ \A H \in closed : least \subseteq H
    OBVIOUS
  <2>3. IsClosed(least)
    <3>1. found \subseteq least
      BY <2>1
    <3>2. ASSUME NEW f \in files[0], NEW g \in least,
                 KeysMeet(f, g.smallest.key, g.largest.key)
          PROVE  f \in least
      <4>1. \A G \in closed : g \in G => f \in G
        BY <3>2
      <4> QED
        BY <4>1
    <3> QED
      BY <3>1, <3>2
  <2>4. least \in closed
    BY <2>2, <2>3
  <2> HIDE DEF closed, least
  <2>5. GetOverlappingInputs(files, level, F) \in closed
    BY <1>1, <1>3, <2>2, <2>4, Zenon
  <2>6. PICK G : G = GetOverlappingInputs(files, level, F)
    OBVIOUS
  <2>7. G \subseteq files[0] /\ IsClosed(G)
    BY <2>5, <2>6 DEF closed
  <2>8. found \subseteq G /\ \A f \in files[0], g \in G :
                                KeysMeet(f, g.smallest.key, g.largest.key) => f \in G
    BY <2>7
  <2> QED
    BY <1>3, <2>6, <2>7, <2>8 DEF found
<1> QED
  BY <1>2, <1>3

(* Files from which the next level's inputs are computed leave nothing     *)
(* between them there.                                                     *)
LEMMA BelowSeparates ==
  ASSUME NEW files, NEW level \in Nat, level < MaxLevel,
         \A l \in Levels : \A f \in files[l] : Spans(f),
         NEW F, IsFiniteSet(F), F # {}, F \subseteq files[level],
         level = 0 => \A f \in files[0] : \A g \in F :
                        KeysMeet(f, g.smallest.key, g.largest.key) => f \in F,
         NEW inputs, inputs = <<F, GetOverlappingInputs(files, level + 1, F)>>
  PROVE  Separate(files, level, inputs)
<1>1. PICK G : G = GetOverlappingInputs(files, level + 1, F)
  OBVIOUS
<1>2. inputs = <<inputs[1], inputs[2]>> /\ inputs[1] = F /\ inputs[2] = G
  BY <1>1
<1>3. level \in Levels /\ level + 1 \in Levels /\ level + 1 # 0
  BY LevelDbAssumption DEF Levels
<1>4. G = {f \in files[level + 1] : KeysMeet(f, LowKey(F), HighKey(F))}
  BY <1>1, <1>3, OverlappingInputsAre
<1>5. \A f \in F : Spans(f)
  BY <1>3
<1>6. /\ LowKey(F) \in Nat /\ HighKey(F) \in Nat
      /\ \E f \in F : f.smallest.key = LowKey(F)
      /\ \E f \in F : f.largest.key = HighKey(F)
      /\ \A f \in F : LowKey(F) <= f.smallest.key /\ f.largest.key <= HighKey(F)
  BY <1>5, KeyRange
<1>7. ASSUME NEW h \in files[level + 1]
      PROVE  IF h \in G
             THEN \E f, g \in F : f.smallest.key <= h.largest.key
                                  /\ h.smallest.key <= g.largest.key
             ELSE \/ \A f \in F : h.largest.key < f.smallest.key
                  \/ \A f \in F : f.largest.key < h.smallest.key
  <2>1. Spans(h)
    BY <1>3
  <2>2. h \in G <=> h.largest.key >= LowKey(F) /\ h.smallest.key <= HighKey(F)
    BY <1>4 DEF KeysMeet
  <2>3. CASE h \in G
    BY <1>6, <2>1, <2>2, <2>3 DEF Spans
  <2>4. CASE h \notin G
    <3>1. CASE h.largest.key < LowKey(F)
      BY <1>5, <1>6, <2>1, <2>4, <3>1 DEF Spans
    <3>2. CASE HighKey(F) < h.smallest.key
      BY <1>5, <1>6, <2>1, <2>4, <3>2 DEF Spans
    <3> QED
      BY <1>6, <2>1, <2>2, <2>4, <3>1, <3>2 DEF Spans
  <2> QED
    BY <2>3, <2>4
<1> QED
  BY <1>2, <1>4, <1>7 DEF Separate

(* A pick is of that kind: PickCompaction closes the files of level 0, and *)
(* SetupOtherInputs does so again when it takes more of them.              *)
LEMMA PickedSeparate ==
  ASSUME NEW version,
         \A l \in Levels : IsFiniteSet(version.files[l]) /\ \A f \in version.files[l] : Spans(f),
         \A s \in version.seek : /\ s[1] \in Levels /\ s[1] # MaxLevel
                                 /\ s[2] \in version.files[s[1]],
         NEW p \in PickCompaction(version)
  PROVE  /\ p = [level |-> p.level, inputs |-> p.inputs, files |-> version.files]
         /\ Separate(version.files, p.level, p.inputs)
<1> DEFINE files == version.files
           picks == IF Overfull(files) # {}
                    THEN UNION {{<<l, f>> : f \in files[l]} : l \in Overfull(files)}
                    ELSE version.seek
           first(s) == IF s[1] = 0 THEN GetOverlappingInputs(files, 0, {s[2]}) ELSE {s[2]}
<1>1. PICK s \in picks : p \in {[level |-> s[1], inputs |-> inputs, files |-> files] :
                   inputs \in UNION {SetupOtherInputs(files, s[1], F) : F \in {first(s)}}}
  BY DEF PickCompaction
<1>2. s[1] \in Levels \ {MaxLevel} /\ s[2] \in files[s[1]]
  <2>1. CASE Overfull(files) # {}
    <3>1. PICK l \in Overfull(files) : \E f \in files[l] : s = <<l, f>>
      BY <1>1, <2>1
    <3>2. l \in Levels \ {MaxLevel}
      BY <3>1 DEF Overfull
    <3> QED
      BY <3>1, <3>2
  <2>2. CASE Overfull(files) = {}
    BY <1>1, <2>2
  <2> QED
    BY <2>1, <2>2
<1>3. PICK level : level = s[1]
  OBVIOUS
<1>4. level \in Nat /\ level < MaxLevel /\ level \in Levels
  BY <1>2, <1>3, LevelDbAssumption DEF Levels
<1>5. PICK F : F = first(s)
  OBVIOUS
<1>6. PICK inputs \in SetupOtherInputs(files, level, F) :
         p = [level |-> level, inputs |-> inputs, files |-> files]
  BY <1>1, <1>3, <1>5
<1>7. /\ F \subseteq files[level] /\ F # {}
      /\ level = 0 => \A f \in files[0] : \A g \in F :
                        KeysMeet(f, g.smallest.key, g.largest.key) => f \in F
  <2>1. CASE level = 0
    <3>1. F = GetOverlappingInputs(files, 0, {s[2]})
      BY <1>3, <1>5, <2>1
    <3>2. /\ F \subseteq files[0]
          /\ {f \in files[0] : KeysMeet(f, LowKey({s[2]}), HighKey({s[2]}))} \subseteq F
          /\ \A f \in files[0], g \in F : KeysMeet(f, g.smallest.key, g.largest.key) => f \in F
      BY <3>1, OverlappingInputsAre
    <3>3. s[2] \in files[0] /\ Spans(s[2])
      BY <1>2, <1>3, <1>4, <2>1
    <3>4. KeysMeet(s[2], LowKey({s[2]}), HighKey({s[2]}))
      <4>1. IsFiniteSet({s[2]})
        BY FS_Singleton
      <4>2. LowKey({s[2]}) = s[2].smallest.key /\ HighKey({s[2]}) = s[2].largest.key
        <5>1. /\ \E f \in {s[2]} : f.smallest.key = LowKey({s[2]})
              /\ \E f \in {s[2]} : f.largest.key = HighKey({s[2]})
          BY <3>3, <4>1, KeyRange
        <5> QED
          BY <5>1
      <4> QED
        BY <3>3, <4>2 DEF KeysMeet, Spans
    <3> QED
      BY <2>1, <3>2, <3>3, <3>4
  <2>2. CASE level # 0
    BY <1>2, <1>3, <1>5, <2>2
  <2> QED
    BY <2>1, <2>2
<1>8. IsFiniteSet(F)
  BY <1>4, <1>7, FS_Subset
<1> DEFINE below(G) == GetOverlappingInputs(files, level + 1, G)
           grown == {GetOverlappingInputs(files, level, F \cup below(F))}
<1>9. \/ inputs = <<F, below(F)>>
      \/ \E G \in grown : inputs = <<G, below(G)>> /\ Cardinality(G) > Cardinality(F)
  BY <1>6 DEF SetupOtherInputs
<1>10. ASSUME inputs = <<F, below(F)>> PROVE Separate(files, level, inputs)
  BY <1>4, <1>6, <1>7, <1>8, <1>10, BelowSeparates
<1>11. ASSUME inputs # <<F, below(F)>> PROVE Separate(files, level, inputs)
  <2>1. PICK G : /\ G = GetOverlappingInputs(files, level, F \cup below(F))
                 /\ inputs = <<G, GetOverlappingInputs(files, level + 1, G)>>
                 /\ Cardinality(G) > Cardinality(F)
    BY <1>9, <1>11
  <2> HIDE DEF below, grown
  <2>2. /\ G \subseteq files[level]
        /\ level = 0 => \A f \in files[0], g \in G :
                           KeysMeet(f, g.smallest.key, g.largest.key) => f \in G
    BY <2>1, OverlappingInputsAre
  <2>3. G # {}
    <3>1. Cardinality(F) \in Nat /\ Cardinality({}) = 0
      BY <1>8, FS_CardinalityType, FS_EmptySet
    <3>2. ASSUME G = {} PROVE FALSE
      <4>1. 0 > Cardinality(F)
        BY <2>1, <3>1, <3>2
      <4> QED
        BY <3>1, <4>1
    <3> QED
      BY <3>2
  <2>4. IsFiniteSet(G)
    BY <1>4, <2>2, FS_Subset
  <2>5. \A l \in Levels : \A f \in files[l] : Spans(f)
    OBVIOUS
  <2>6. inputs = <<G, GetOverlappingInputs(files, level + 1, G)>>
    BY <2>1
  <2> HIDE DEF files
  <2> QED
    BY <1>4, <2>2, <2>3, <2>4, <2>5, <2>6, BelowSeparates
<1>12. Separate(files, level, inputs)
  BY <1>10, <1>11
<1> HIDE DEF files
<1>13. /\ p.level = level /\ p.inputs = inputs
       /\ p = [level |-> level, inputs |-> inputs, files |-> files]
  BY <1>6
<1> QED
  BY <1>12, <1>13 DEF files

-----------------------------------------------------------------------------
(* What a compaction leaves.  The entries of a file of a settled version.  *)
LEMMA EntriesSpan ==
  ASSUME NEW d, NEW f, f.number \in DOMAIN d.tables, IsTable(d.tables[f.number]),
         f = FileMetaData(f.number, d.tables[f.number])
  PROVE  /\ Spans(f) /\ TableEntries(d, f.number) = d.tables[f.number]
         /\ \A e \in d.tables[f.number] : /\ e.key \in Nat /\ e.seq \in Nat
                                          /\ f.smallest.key <= e.key /\ e.key <= f.largest.key
<1>1. \A e \in d.tables[f.number] : e.key \in Nat /\ e.seq \in Nat
  BY DEF IsTable, Writes
<1> QED
  BY <1>1, FileSpan DEF Spans, TableEntries

(* The same for all files of a version.                                    *)
LEMMA SettledSpans ==
  ASSUME NEW files, NEW d, NEW next, SoundFiles(files, d.tables, next), NEW last,
         Settled(files, d, last)
  PROVE  \A l \in Levels : IsFiniteSet(files[l]) /\ \A f \in files[l] :
            /\ Spans(f) /\ TableEntries(d, f.number) = d.tables[f.number]
            /\ \A e \in d.tables[f.number] : /\ e.key \in Nat /\ e.seq \in Nat
                                             /\ f.smallest.key <= e.key /\ e.key <= f.largest.key
<1>1. ASSUME NEW l \in Levels, NEW f \in files[l]
      PROVE  /\ Spans(f) /\ TableEntries(d, f.number) = d.tables[f.number]
             /\ \A e \in d.tables[f.number] : /\ e.key \in Nat /\ e.seq \in Nat
                                              /\ f.smallest.key <= e.key /\ e.key <= f.largest.key
  <2>1. /\ f.number \in DOMAIN d.tables /\ f = FileMetaData(f.number, d.tables[f.number])
        /\ IsTable(d.tables[f.number])
    BY DEF SoundFiles, Sound, Settled
  <2> QED
    BY <2>1, EntriesSpan
<1> QED
  BY <1>1 DEF Settled

(* In the level of a compaction no other file shares a key with an input,  *)
(* and in the next one every other file lies before all inputs or after    *)
(* them.                                                                   *)
LEMMA InputsApart ==
  ASSUME NEW files, NEW d, NEW next, SoundFiles(files, d.tables, next), NEW last,
         Settled(files, d, last), NEW level, NEW inputs, Separate(files, level, inputs)
  PROVE  /\ \A f \in files[level] \ inputs[1], g \in inputs[1] :
               \A e \in d.tables[f.number], x \in d.tables[g.number] : e.key # x.key
         /\ \A h \in files[level + 1] \ inputs[2] :
               \/ \A e \in InputEntries(d, inputs) : h.largest.key < e.key
               \/ \A e \in InputEntries(d, inputs) : e.key < h.smallest.key
<1>1. /\ level \in Nat /\ level \in Levels /\ level + 1 \in Levels /\ level + 1 # 0
      /\ inputs[1] \subseteq files[level] /\ inputs[2] \subseteq files[level + 1]
      /\ inputs[1] # {}
  BY LevelDbAssumption DEF Separate, Levels
<1>2. \A l \in Levels : \A f \in files[l] :
            /\ Spans(f) /\ TableEntries(d, f.number) = d.tables[f.number]
            /\ \A e \in d.tables[f.number] : /\ e.key \in Nat /\ e.seq \in Nat
                                             /\ f.smallest.key <= e.key /\ e.key <= f.largest.key
  BY SettledSpans
<1>3. \A l \in Levels \ {0} : \A f, g \in files[l] :
         f # g => ~KeysMeet(f, g.smallest.key, g.largest.key)
  BY DEF Settled, Layered
<1>4. ASSUME NEW f \in files[level] \ inputs[1], NEW g \in inputs[1],
             NEW e \in d.tables[f.number], NEW x \in d.tables[g.number]
      PROVE  e.key # x.key
  <2>1. ~KeysMeet(f, g.smallest.key, g.largest.key)
    <3>1. CASE level = 0
      BY <1>4, <3>1 DEF Separate
    <3>2. CASE level # 0
      BY <1>1, <1>3, <1>4, <3>2
    <3> QED
      BY <3>1, <3>2
  <2>2. f \in files[level] /\ g \in files[level]
    BY <1>1
  <2>3. /\ f.smallest.key <= e.key /\ e.key <= f.largest.key /\ e.key \in Nat
        /\ g.smallest.key <= x.key /\ x.key <= g.largest.key /\ x.key \in Nat
        /\ Spans(f) /\ Spans(g)
    BY <1>1, <1>2, <2>2
  <2> QED
    BY <2>1, <2>3 DEF KeysMeet, Spans
<1>5. ASSUME NEW h \in files[level + 1] \ inputs[2]
      PROVE  \/ \A e \in InputEntries(d, inputs) : h.largest.key < e.key
             \/ \A e \in InputEntries(d, inputs) : e.key < h.smallest.key
  <2>1. \/ \A f \in inputs[1] : h.largest.key < f.smallest.key
        \/ \A f \in inputs[1] : f.largest.key < h.smallest.key
    BY <1>5 DEF Separate
  <2>2. \A e \in InputEntries(d, inputs) :
           \/ \E f \in inputs[1] : e \in d.tables[f.number]
           \/ \E f \in inputs[2] : e \in d.tables[f.number]
    BY <1>1, <1>2 DEF InputEntries
  <2>3. Spans(h)
    BY <1>1, <1>2
  <2>4. \A g \in inputs[2] :
           /\ Spans(g) /\ ~KeysMeet(g, h.smallest.key, h.largest.key)
           /\ \E a, b \in inputs[1] : /\ a.smallest.key <= g.largest.key
                                      /\ g.smallest.key <= b.largest.key
                                      /\ Spans(a) /\ Spans(b)
    <3> TAKE g \in inputs[2]
    <3>1. g \in files[level + 1] /\ g # h
      BY <1>1
    <3>2. \E a, b \in inputs[1] : /\ a.smallest.key <= g.largest.key
                                  /\ g.smallest.key <= b.largest.key
      BY <3>1 DEF Separate
    <3> QED
      BY <1>1, <1>2, <1>3, <3>1, <3>2
  <2>5. CASE \A f \in inputs[1] : h.largest.key < f.smallest.key
    <3> SUFFICES ASSUME NEW e \in InputEntries(d, inputs) PROVE h.largest.key < e.key
      OBVIOUS
    <3>1. CASE \E f \in inputs[1] : e \in d.tables[f.number]
      <4>1. PICK f \in inputs[1] : e \in d.tables[f.number]
        BY <3>1
      <4>2. f.smallest.key <= e.key /\ e.key \in Nat /\ Spans(f) /\ h.largest.key < f.smallest.key
        BY <1>1, <1>2, <2>5, <4>1
      <4> QED
        BY <2>3, <4>2 DEF Spans
    <3>2. CASE \E g \in inputs[2] : e \in d.tables[g.number]
      <4>1. PICK g \in inputs[2] : e \in d.tables[g.number]
        BY <3>2
      <4>2. PICK a \in inputs[1] : a.smallest.key <= g.largest.key /\ Spans(a)
        BY <2>4
      <4>3. g.smallest.key <= e.key /\ e.key \in Nat
        BY <1>1, <1>2, <4>1
      <4>4. Spans(g) /\ ~KeysMeet(g, h.smallest.key, h.largest.key)
        BY <2>4
      <4>5. h.largest.key < a.smallest.key
        BY <2>5
      <4> QED
        BY <2>3, <4>2, <4>3, <4>4, <4>5 DEF Spans, KeysMeet
    <3> QED
      BY <2>2, <3>1, <3>2
  <2>6. CASE \A f \in inputs[1] : f.largest.key < h.smallest.key
    <3> SUFFICES ASSUME NEW e \in InputEntries(d, inputs) PROVE e.key < h.smallest.key
      OBVIOUS
    <3>1. CASE \E f \in inputs[1] : e \in d.tables[f.number]
      <4>1. PICK f \in inputs[1] : e \in d.tables[f.number]
        BY <3>1
      <4>2. e.key <= f.largest.key /\ e.key \in Nat /\ Spans(f) /\ f.largest.key < h.smallest.key
        BY <1>1, <1>2, <2>6, <4>1
      <4> QED
        BY <2>3, <4>2 DEF Spans
    <3>2. CASE \E g \in inputs[2] : e \in d.tables[g.number]
      <4>1. PICK g \in inputs[2] : e \in d.tables[g.number]
        BY <3>2
      <4>2. PICK b \in inputs[1] : g.smallest.key <= b.largest.key /\ Spans(b)
        BY <2>4
      <4>3. e.key <= g.largest.key /\ e.key \in Nat
        BY <1>1, <1>2, <4>1
      <4>4. Spans(g) /\ ~KeysMeet(g, h.smallest.key, h.largest.key)
        BY <2>4
      <4>5. b.largest.key < h.smallest.key
        BY <2>6
      <4> QED
        BY <2>3, <4>2, <4>3, <4>4, <4>5 DEF Spans, KeysMeet
    <3> QED
      BY <2>2, <3>1, <3>2
  <2> QED
    BY <2>1, <2>5, <2>6
<1> QED
  BY <1>4, <1>5

(* Outputs take the place of inputs, one level down.                       *)
Compacts(edit, level, inputs, outputs) ==
    /\ edit.added = {<<level + 1, f>> : f \in outputs}
    /\ edit.deleted = UNION {{<<level + i - 1, f.number>> : f \in inputs[i]} : i \in 1..2}

(* LogAndApply of a compaction: of the two levels the inputs are gone, the *)
(* outputs are in the lower one, and the other levels are as they were.    *)
LEMMA CompactedFiles ==
  ASSUME NEW files, NEW d, NEW next, SoundFiles(files, d.tables, next),
         NEW level, NEW inputs, Separate(files, level, inputs), NEW outputs, NEW edit,
         Compacts(edit, level, inputs, outputs), NEW l \in Levels
  PROVE  \A f : f \in ApplyEdit(files, edit)[l] <=>
            \/ /\ f \in files[l]
               /\ l = level => f \notin inputs[1]
               /\ l = level + 1 => f \notin inputs[2]
            \/ l = level + 1 /\ f \in outputs
<1>1. /\ level \in Nat /\ level \in Levels /\ level + 1 \in Levels /\ l \in Nat
      /\ inputs[1] \subseteq files[level] /\ inputs[2] \subseteq files[level + 1]
  BY LevelDbAssumption DEF Separate, Levels
<1>2. \A k \in Levels : \A f, g \in files[k] : f.number = g.number => f = g
  BY DEF SoundFiles, Sound
<1>3. \A n : <<l, n>> \in edit.deleted <=>
                \/ l = level /\ \E g \in inputs[1] : n = g.number
                \/ l = level + 1 /\ \E g \in inputs[2] : n = g.number
  <2> TAKE n
  <2>1. <<l, n>> \in edit.deleted <=>
           \E i \in 1..2 : \E g \in inputs[i] : l = level + i - 1 /\ n = g.number
    BY DEF Compacts
  <2> QED
    BY <1>1, <2>1
<1>4. \A f \in files[l] : <<l, f.number>> \in edit.deleted <=>
                \/ l = level /\ f \in inputs[1]
                \/ l = level + 1 /\ f \in inputs[2]
  BY <1>1, <1>2, <1>3
<1>5. \A f : f \in ApplyEdit(files, edit)[l] <=>
                \/ f \in files[l] /\ <<l, f.number>> \notin edit.deleted
                \/ \E q \in edit.added : q[1] = l /\ q[2] = f
  BY ApplyEditIs
<1>6. \A f : (\E q \in edit.added : q[1] = l /\ q[2] = f) <=> l = level + 1 /\ f \in outputs
  <2>1. edit.added = {<<level + 1, f>> : f \in outputs}
    BY DEF Compacts
  <2>2. ASSUME NEW f, f \in outputs PROVE <<level + 1, f>> \in edit.added
    BY <2>1, <2>2
  <2>3. ASSUME NEW q \in edit.added PROVE q[1] = level + 1 /\ q[2] \in outputs
    BY <2>1
  <2>4. \A f : <<level + 1, f>>[1] = level + 1 /\ <<level + 1, f>>[2] = f
    OBVIOUS
  <2> QED
    BY <2>2, <2>3, <2>4
<1> QED
  BY <1>4, <1>5, <1>6

(* The new version is as settled as the old one.                           *)
LEMMA CompactionSettles ==
  ASSUME NEW files, NEW d, NEW next, SoundFiles(files, d.tables, next), NEW last,
         Settled(files, d, last), NEW level, NEW inputs, Separate(files, level, inputs),
         NEW outputs, IsFiniteSet(outputs),
         \A f \in outputs : /\ f.number \in DOMAIN d.tables /\ IsTable(d.tables[f.number])
                            /\ f = FileMetaData(f.number, d.tables[f.number])
                            /\ d.tables[f.number] \subseteq InputEntries(d, inputs),
         \A f, g \in outputs : f # g => ~KeysMeet(f, g.smallest.key, g.largest.key),
         NEW edit, Compacts(edit, level, inputs, outputs)
  PROVE  Settled(ApplyEdit(files, edit), d, last)
<1>1. /\ level \in Nat /\ level \in Levels /\ level + 1 \in Levels /\ level + 1 # 0
      /\ inputs[1] \subseteq files[level] /\ inputs[2] \subseteq files[level + 1]
      /\ Levels \subseteq Nat
  BY LevelDbAssumption DEF Separate, Levels
<1>2. \A l \in Levels : IsFiniteSet(files[l]) /\ \A f \in files[l] :
            /\ Spans(f) /\ TableEntries(d, f.number) = d.tables[f.number]
            /\ \A e \in d.tables[f.number] : /\ e.key \in Nat /\ e.seq \in Nat
                                             /\ f.smallest.key <= e.key /\ e.key <= f.largest.key
  BY SettledSpans
<1>3. \A f \in outputs :
            /\ Spans(f) /\ TableEntries(d, f.number) = d.tables[f.number]
            /\ FileMetaData(f.number, d.tables[f.number]) = f
            /\ \A e \in d.tables[f.number] : /\ e.key \in Nat /\ e.seq \in Nat
                                             /\ f.smallest.key <= e.key /\ e.key <= f.largest.key
            /\ \A e \in d.tables[f.number] :
                  \E g \in inputs[1] \cup inputs[2] : e \in d.tables[g.number]
  <2> TAKE f \in outputs
  <2>1. \A g \in inputs[1] \cup inputs[2] : TableEntries(d, g.number) = d.tables[g.number]
    BY <1>1, <1>2
  <2> QED
    BY <2>1, EntriesSpan DEF InputEntries
<1>4. /\ \A f \in files[level] \ inputs[1], g \in inputs[1] :
               \A e \in d.tables[f.number], x \in d.tables[g.number] : e.key # x.key
      /\ \A h \in files[level + 1] \ inputs[2] :
               \/ \A e \in InputEntries(d, inputs) : h.largest.key < e.key
               \/ \A e \in InputEntries(d, inputs) : e.key < h.smallest.key
  BY InputsApart
<1>5. PICK new : new = ApplyEdit(files, edit)
  OBVIOUS
<1>7. \A l \in Levels : \A f \in new[l] :
         \/ f \in files[l] /\ (l = level => f \notin inputs[1]) /\ (l = level + 1 => f \notin inputs[2])
         \/ l = level + 1 /\ f \in outputs
  BY <1>5, CompactedFiles
<1>8. ASSUME NEW l \in Levels PROVE IsFiniteSet(new[l])
  <2>1. IsFiniteSet(files[l] \cup outputs)
    BY <1>2, FS_Union
  <2>2. new[l] \subseteq files[l] \cup outputs
    BY <1>7
  <2> QED
    BY <2>1, <2>2, FS_Subset
<1>9. ASSUME NEW l \in Levels, NEW f \in new[l]
      PROVE  IsTable(d.tables[f.number]) /\ \A e \in d.tables[f.number] : e.seq <= last
  <2>1. CASE f \in files[l]
    BY <2>1 DEF Settled
  <2>2. CASE f \in outputs
    <3>1. \A e \in d.tables[f.number] :
             \E g \in inputs[1] \cup inputs[2] : e \in d.tables[g.number]
      BY <1>3, <2>2
    <3>2. \A g \in inputs[1] \cup inputs[2] : \A e \in d.tables[g.number] : e.seq <= last
      BY <1>1 DEF Settled
    <3> QED
      BY <2>2, <3>1, <3>2
  <2> QED
    BY <1>7, <2>1, <2>2
<1>10. ASSUME NEW l \in Levels \ {0}, NEW f \in new[l], NEW g \in new[l], f # g
       PROVE  ~KeysMeet(f, g.smallest.key, g.largest.key)
  <2>1. CASE f \in files[l] /\ g \in files[l]
    BY <1>10, <2>1 DEF Settled, Layered
  <2>2. ASSUME NEW h \in files[level + 1] \ inputs[2], NEW o \in outputs
        PROVE  h.largest.key < o.smallest.key \/ o.largest.key < h.smallest.key
    <3>1. /\ o.smallest \in d.tables[o.number] /\ o.largest \in d.tables[o.number]
      BY <1>3, FileSpan
    <3>2. o.smallest \in InputEntries(d, inputs) /\ o.largest \in InputEntries(d, inputs)
      BY <3>1
    <3> QED
      BY <1>4, <3>2
  <2>3. \A x \in files[l] \cup outputs : Spans(x)
    BY <1>2, <1>3
  <2>4. CASE l = level + 1 /\ f \in outputs /\ g \in files[l] /\ g \notin inputs[2]
    BY <2>2, <2>3, <2>4 DEF KeysMeet, Spans
  <2>5. CASE l = level + 1 /\ g \in outputs /\ f \in files[l] /\ f \notin inputs[2]
    BY <2>2, <2>3, <2>5 DEF KeysMeet, Spans
  <2>6. CASE f \in outputs /\ g \in outputs
    BY <1>10, <2>6
  <2> QED
    BY <1>7, <2>1, <2>4, <2>5, <2>6
<1> DEFINE Above(k, f, l, g) == k < l \/ (k = 0 /\ l = 0 /\ f.number > g.number)
<1>11. \A k, l \in Levels : \A f \in files[k], g \in files[l] :
          Above(k, f, l, g) => After(d.tables[f.number], d.tables[g.number])
  <2>1. \A k, l \in Levels : \A f \in files[k], g \in files[l] :
          Above(k, f, l, g) => After(TableEntries(d, f.number), TableEntries(d, g.number))
    BY DEF Settled, Layered
  <2> QED
    BY <1>2, <2>1
<1>12. ASSUME NEW k \in Levels, NEW l \in Levels, NEW f \in new[k], NEW g \in new[l],
              Above(k, f, l, g)
       PROVE  After(TableEntries(d, f.number), TableEntries(d, g.number))
  <2>1. /\ TableEntries(d, f.number) = d.tables[f.number]
        /\ TableEntries(d, g.number) = d.tables[g.number]
    BY <1>2, <1>3, <1>7
  <2>2. SUFFICES ASSUME NEW e \in d.tables[f.number], NEW x \in d.tables[g.number],
                        e.key = x.key
                 PROVE  e.seq > x.seq
    BY <2>1 DEF After
  <2>3. CASE f \in files[k] /\ g \in files[l]
    BY <1>11, <1>12, <2>2, <2>3 DEF After
  <2>4. CASE k = level + 1 /\ f \in outputs /\ g \in files[l]
    <3>1. PICK a \in inputs[1] \cup inputs[2] : e \in d.tables[a.number]
      BY <1>3, <2>4
    <3>2. k < l
      BY <1>1, <1>12, <2>4
    <3>3. \/ a \in files[level] /\ Above(level, a, l, g)
          \/ a \in files[level + 1] /\ Above(level + 1, a, l, g)
      BY <1>1, <2>4, <3>1, <3>2
    <3>4. After(d.tables[a.number], d.tables[g.number])
      BY <1>1, <1>11, <2>4, <3>3
    <3> QED
      BY <2>2, <3>1, <3>4 DEF After
  <2>5. CASE /\ l = level + 1 /\ g \in outputs /\ f \in files[k]
             /\ k = level => f \notin inputs[1]
    <3>1. PICK a \in inputs[1] \cup inputs[2] : x \in d.tables[a.number]
      BY <1>3, <2>5
    <3>2. k < l
      BY <1>1, <1>12, <2>5
    <3>3. CASE a \in inputs[2]
      <4>1. a \in files[l] /\ Above(k, f, l, a)
        BY <1>1, <2>5, <3>2, <3>3
      <4>2. After(d.tables[f.number], d.tables[a.number])
        BY <1>11, <2>5, <4>1
      <4> QED
        BY <2>2, <3>1, <4>2 DEF After
    <3>4. CASE a \in inputs[1] /\ k = level
      BY <1>4, <2>2, <2>5, <3>1, <3>4
    <3>5. CASE a \in inputs[1] /\ k # level
      <4>1. a \in files[level] /\ Above(k, f, level, a)
        BY <1>1, <2>5, <3>2, <3>5
      <4>2. After(d.tables[f.number], d.tables[a.number])
        BY <1>1, <1>11, <2>5, <4>1
      <4> QED
        BY <2>2, <3>1, <4>2 DEF After
    <3> QED
      BY <3>1, <3>3, <3>4, <3>5
  <2>6. CASE k = level + 1 /\ l = level + 1
    BY <1>1, <1>12, <2>6
  <2> QED
    BY <1>7, <2>3, <2>4, <2>5, <2>6
<1>13. Layered(d, new)
  BY <1>10, <1>12 DEF Layered
<1> QED
  BY <1>5, <1>8, <1>9, <1>13 DEF Settled

(* The entries of a version, file by file.                                 *)
LEMMA EntriesAre ==
  ASSUME NEW d, NEW files, NEW e
  PROVE  e \in Entries(d, files) <=>
            \E l \in Levels : \E f \in files[l] : e \in TableEntries(d, f.number)
BY DEF Entries, FileNumbers

(* Of a key one entry is the newest, when no number is above the last.     *)
LEMMA NewestIn ==
  ASSUME NEW S, NEW last \in Nat, \A e \in S : e.seq \in Nat /\ e.seq <= last, NEW e \in S
  PROVE  \E f \in S : /\ f.key = e.key /\ e.seq <= f.seq
                      /\ \A g \in S : g.key = e.key => g.seq <= f.seq
<1> DEFINE those == {g \in S : g.key = e.key}
           back == {last - g.seq : g \in those}
<1>1. back \in SUBSET Nat /\ back # {}
  OBVIOUS
<1>2. Min(back) \in back /\ \A n \in back : Min(back) <= n
  <2> HIDE DEF back
  <2> QED
    BY <1>1, MinIn
<1>3. PICK f \in those : \A g \in those : last - f.seq <= last - g.seq
  BY <1>2
<1>4. \A g \in those : g.seq <= f.seq
  BY <1>3
<1> QED
  BY <1>3, <1>4

KeptIn(d, files, level, inputs, outputs, last) ==
    OutputEntries(d, outputs) = Kept(Picked(files, level), InputEntries(d, inputs), last)

(* What DoCompactionWork leaves out is not missed: an entry that a newer   *)
(* one hides, or a deletion when no older write of its key is left.        *)
LEMMA CompactionKeepsVisible ==
  ASSUME NEW files, NEW d, NEW next, SoundFiles(files, d.tables, next), NEW last \in Nat,
         Settled(files, d, last), NEW level, NEW inputs, Separate(files, level, inputs),
         NEW outputs, KeptIn(d, files, level, inputs, outputs, last),
         NEW edit, Compacts(edit, level, inputs, outputs)
  PROVE  Visible(Entries(d, ApplyEdit(files, edit))) = Visible(Entries(d, files))
<1>1. /\ level \in Nat /\ level \in Levels /\ level + 1 \in Levels /\ level + 1 # 0
      /\ inputs[1] \subseteq files[level] /\ inputs[2] \subseteq files[level + 1]
      /\ Levels \subseteq Nat
  BY LevelDbAssumption DEF Separate, Levels
<1>2. \A l \in Levels : IsFiniteSet(files[l]) /\ \A f \in files[l] :
            /\ Spans(f) /\ TableEntries(d, f.number) = d.tables[f.number]
            /\ \A e \in d.tables[f.number] : /\ e.key \in Nat /\ e.seq \in Nat
                                             /\ f.smallest.key <= e.key /\ e.key <= f.largest.key
  BY SettledSpans
<1>3. /\ \A f \in files[level] \ inputs[1], g \in inputs[1] :
               \A e \in d.tables[f.number], x \in d.tables[g.number] : e.key # x.key
      /\ \A h \in files[level + 1] \ inputs[2] :
               \/ \A e \in InputEntries(d, inputs) : h.largest.key < e.key
               \/ \A e \in InputEntries(d, inputs) : e.key < h.smallest.key
  BY InputsApart
<1>4. PICK new : new = ApplyEdit(files, edit)
  OBVIOUS
<1>5. \A l \in Levels : \A f : f \in new[l] <=>
            \/ /\ f \in files[l]
               /\ l = level => f \notin inputs[1]
               /\ l = level + 1 => f \notin inputs[2]
            \/ l = level + 1 /\ f \in outputs
  BY <1>4, CompactedFiles
<1>6. PICK S : S = Entries(d, files)
  OBVIOUS
<1>7. PICK T : T = Entries(d, new)
  OBVIOUS
<1>8. PICK E : E = InputEntries(d, inputs)
  OBVIOUS
<1>9. PICK K : K = Kept(Picked(files, level), E, last)
  OBVIOUS
<1>10. \A e : e \in S <=> \E l \in Levels : \E f \in files[l] : e \in d.tables[f.number]
  <2>1. \A e : e \in S <=> \E l \in Levels : \E f \in files[l] : e \in TableEntries(d, f.number)
    BY <1>6, EntriesAre
  <2> QED
    BY <1>2, <2>1
<1>11. \A e : e \in E <=> \E f \in inputs[1] \cup inputs[2] : e \in d.tables[f.number]
  BY <1>1, <1>2, <1>8 DEF InputEntries
<1>12. E \subseteq S /\ K \subseteq E
  BY <1>1, <1>9, <1>10, <1>11 DEF Kept
<1> DEFINE Beside(l, f) == /\ f \in files[l]
                           /\ l = level => f \notin inputs[1]
                           /\ l = level + 1 => f \notin inputs[2]
<1>13. \A e : e \in T <=> \/ \E l \in Levels : \E f : Beside(l, f) /\ e \in d.tables[f.number]
                          \/ e \in K
  <2>1. \A e : e \in T <=> \E l \in Levels : \E f \in new[l] : e \in TableEntries(d, f.number)
    BY <1>7, EntriesAre
  <2>2. \A e : e \in K <=> \E f \in outputs : e \in TableEntries(d, f.number)
    BY <1>8, <1>9 DEF OutputEntries, KeptIn
  <2>3. \A l \in Levels : \A f \in files[l] : TableEntries(d, f.number) = d.tables[f.number]
    BY <1>2
  <2> QED
    BY <1>1, <1>5, <2>1, <2>2, <2>3
<1>14. \A e \in S : e.seq \in Nat /\ e.seq <= last
  BY <1>2, <1>10 DEF Settled
<1>15. T \subseteq S
  BY <1>10, <1>12, <1>13
<1>16. \A e : e \in K <=>
          /\ e \in E
          /\ ~\E f \in E : f.key = e.key /\ f.seq > e.seq /\ f.seq <= last
          /\ ~(e.del /\ e.seq <= last /\ IsBaseLevelForKey(Picked(files, level), e.key))
  BY <1>9 DEF Kept
<1>17. \A e \in S : e \in T \/ e \in E
  BY <1>10, <1>11, <1>13
<1>18. ASSUME NEW e \in Visible(S) PROVE e \in Visible(T)
  <2>1. e \in S /\ ~e.del /\ \A f \in S : f.key = e.key => f.seq <= e.seq
    BY DEF Visible
  <2>2. e \in T
    <3>1. CASE e \in E
      <4>1. ~\E f \in E : f.key = e.key /\ f.seq > e.seq /\ f.seq <= last
        BY <1>12, <1>14, <2>1
      <4> QED
        BY <1>13, <1>16, <2>1, <3>1, <4>1
    <3> QED
      BY <1>17, <2>1, <3>1
  <2> QED
    BY <1>15, <2>1, <2>2 DEF Visible
<1>19. ASSUME NEW e \in Visible(T) PROVE e \in Visible(S)
  <2>1. e \in T /\ e \in S /\ ~e.del /\ \A f \in T : f.key = e.key => f.seq <= e.seq
    BY <1>15 DEF Visible
  <2>2. PICK f \in S : /\ f.key = e.key /\ e.seq <= f.seq
                       /\ \A g \in S : g.key = e.key => g.seq <= f.seq
    BY <1>14, <2>1, NewestIn
  <2>3. CASE f.seq = e.seq
    BY <2>1, <2>2, <2>3 DEF Visible
  <2>4. CASE f.seq # e.seq
    <3>1. f.seq > e.seq /\ f \notin T
      BY <1>14, <2>1, <2>2, <2>4
    <3>2. f \in E /\ f \notin K
      BY <1>13, <1>17, <3>1
    <3>3. ~\E g \in E : g.key = f.key /\ g.seq > f.seq /\ g.seq <= last
      BY <1>12, <1>14, <2>2
    <3>4. f.seq <= last /\ IsBaseLevelForKey(Picked(files, level), e.key)
      BY <1>14, <1>16, <2>2, <3>2, <3>3
    <3>5. e \notin K
      BY <1>16, <2>2, <3>1, <3>2, <3>4
    <3>6. PICK l \in Levels : \E g : Beside(l, g) /\ e \in d.tables[g.number]
      BY <1>13, <2>1, <3>5
    <3>7. PICK g : Beside(l, g) /\ e \in d.tables[g.number]
      BY <3>6
    <3>8. /\ g \in files[l] /\ Spans(g) /\ e.key \in Nat
          /\ g.smallest.key <= e.key /\ e.key <= g.largest.key
      BY <1>2, <3>7
    <3>9. PICK a \in inputs[1] \cup inputs[2] : f \in d.tables[a.number]
      BY <1>11, <3>2
    <3>10. CASE l = level + 1
      BY <1>3, <1>8, <2>2, <3>2, <3>7, <3>8, <3>10 DEF Spans
    <3>11. CASE l > level + 1
      <4>1. l \in (level + 2)..MaxLevel
        BY <1>1, <3>11, LevelDbAssumption DEF Levels
      <4>2. ~KeysMeet(g, e.key, e.key)
        BY <3>4, <3>8, <4>1 DEF IsBaseLevelForKey, Picked
      <4> QED
        BY <3>8, <4>2 DEF KeysMeet, Spans
    <3>12. CASE l < level \/ (l = level /\ a \in inputs[2])
      <4>1. PICK k \in Levels : a \in files[k] /\ l < k
        BY <1>1, <3>9, <3>12
      <4>2. After(TableEntries(d, g.number), TableEntries(d, a.number))
        BY <3>8, <4>1 DEF Settled, Layered
      <4>3. e \in TableEntries(d, g.number) /\ f \in TableEntries(d, a.number)
        BY <1>2, <3>7, <3>8, <3>9, <4>1
      <4>4. e.seq > f.seq
        BY <2>2, <4>2, <4>3 DEF After
      <4> QED
        BY <1>14, <2>1, <2>2, <3>1, <4>4
    <3>13. CASE l = level /\ a \in inputs[1]
      BY <1>3, <2>2, <3>7, <3>9, <3>13
    <3> QED
      BY <1>1, <3>9, <3>10, <3>11, <3>12, <3>13
  <2> QED
    BY <2>3, <2>4
<1> QED
  BY <1>4, <1>6, <1>7, <1>18, <1>19

(* A file that is moved down takes its entries along.                      *)
LEMMA MoveKeepsEntries ==
  ASSUME NEW files, NEW d, NEW next, SoundFiles(files, d.tables, next),
         NEW level, NEW inputs, Separate(files, level, inputs), inputs[2] = {},
         NEW edit, NEW outputs, outputs = inputs[1], Compacts(edit, level, inputs, outputs)
  PROVE  Entries(d, ApplyEdit(files, edit)) = Entries(d, files)
<1>1. level \in Levels /\ level + 1 \in Levels /\ inputs[1] \subseteq files[level]
  BY LevelDbAssumption DEF Separate, Levels
<1>2. PICK new : new = ApplyEdit(files, edit)
  OBVIOUS
<1>3. \A l \in Levels : \A g : g \in new[l] <=>
            \/ /\ g \in files[l]
               /\ l = level => g \notin inputs[1]
               /\ l = level + 1 => g \notin inputs[2]
            \/ l = level + 1 /\ g \in outputs
  <2> SUFFICES ASSUME NEW l \in Levels, NEW g
               PROVE  g \in ApplyEdit(files, edit)[l] <=>
                        \/ /\ g \in files[l]
                           /\ l = level => g \notin inputs[1]
                           /\ l = level + 1 => g \notin inputs[2]
                        \/ l = level + 1 /\ g \in outputs
    BY <1>2
  <2> QED
    BY ONLY SoundFiles(files, d.tables, next), Separate(files, level, inputs),
            Compacts(edit, level, inputs, outputs), CompactedFiles
<1>4. ASSUME NEW e PROVE e \in Entries(d, new) <=> e \in Entries(d, files)
  <2>1. /\ e \in Entries(d, new) <=>
              \E l \in Levels : \E g \in new[l] : e \in TableEntries(d, g.number)
        /\ e \in Entries(d, files) <=>
              \E l \in Levels : \E g \in files[l] : e \in TableEntries(d, g.number)
    BY EntriesAre
  <2>2. \A l \in Levels : \A g \in new[l] : \E k \in Levels : g \in files[k]
    BY <1>1, <1>3
  <2>3. \A l \in Levels : \A g \in files[l] : \E k \in Levels : g \in new[k]
    <3> TAKE l \in Levels
    <3> TAKE g \in files[l]
    <3>1. CASE g \in inputs[1]
      BY <1>1, <1>3, <3>1
    <3>2. CASE g \notin inputs[1]
      <4>1. g \in new[l]
        BY <1>3, <3>2
      <4> QED
        BY <4>1
    <3> QED
      BY <3>1, <3>2
  <2> QED
    BY <2>1, <2>2, <2>3
<1> QED
  BY <1>2, <1>4

-----------------------------------------------------------------------------
(* What the writing of other files leaves alone.                           *)
LEMMA SettledStays ==
  ASSUME NEW files, NEW d, NEW e, SameTables(files, d, e), NEW next,
         SoundFiles(files, d.tables, next)
  PROVE  /\ \A last : Settled(files, d, last) => Settled(files, e, last)
         /\ Entries(e, files) = Entries(d, files)
<1>1. \A l \in Levels : \A f \in files[l] :
         /\ f.number \in DOMAIN d.tables /\ f.number \in DOMAIN e.tables
         /\ e.tables[f.number] = d.tables[f.number]
         /\ TableEntries(e, f.number) = TableEntries(d, f.number)
  BY DEF SameTables, SoundFiles, Sound, TableEntries
<1>2. Layered(d, files) => Layered(e, files)
  <2> SUFFICES ASSUME Layered(d, files) PROVE Layered(e, files)
    OBVIOUS
  <2>1. \A l \in Levels \ {0} : \A f, g \in files[l] :
           f # g => ~KeysMeet(f, g.smallest.key, g.largest.key)
    BY DEF Layered
  <2>2. \A k, l \in Levels : \A f \in files[k], g \in files[l] :
           k < l \/ (k = 0 /\ l = 0 /\ f.number > g.number) =>
              After(TableEntries(d, f.number), TableEntries(d, g.number))
    BY DEF Layered
  <2>3. \A k, l \in Levels : \A f \in files[k], g \in files[l] :
           k < l \/ (k = 0 /\ l = 0 /\ f.number > g.number) =>
              After(TableEntries(e, f.number), TableEntries(e, g.number))
    BY <1>1, <2>2
  <2> QED
    BY <2>1, <2>3 DEF Layered
<1>3. ASSUME NEW last, Settled(files, d, last) PROVE Settled(files, e, last)
  BY <1>1, <1>2, <1>3 DEF Settled
<1>4. ASSUME NEW x PROVE x \in Entries(e, files) <=> x \in Entries(d, files)
  BY <1>1, EntriesAre
<1> QED
  BY <1>3, <1>4

(* No later write is among the entries when there is a later last one.     *)
LEMMA SettledLater ==
  ASSUME NEW files, NEW d, NEW m \in Nat, NEW n \in Nat, m <= n, Settled(files, d, m)
  PROVE  Settled(files, d, n)
<1>1. \A l \in Levels : \A f \in files[l] : \A e \in d.tables[f.number] : e.seq \in Nat
  BY DEF Settled, IsTable, Writes
<1>2. \A l \in Levels : \A f \in files[l] : \A e \in d.tables[f.number] : e.seq <= n
  BY <1>1 DEF Settled
<1> QED
  BY <1>2 DEF Settled

(* A version without files is in order.                                    *)
LEMMA NoFilesSettled ==
  ASSUME NEW d, NEW last PROVE Settled(NoFiles, d, last)
BY FS_EmptySet DEF Settled, Layered, NoFiles

(* The files of a directory are sound, whether it is a new one or not.     *)
LEMMA BuiltSound ==
  ASSUME NEW d, IsDirectory(d), Intact(d)
  PROVE  \E next : SoundFiles(BuiltFiles(d), d.tables, next)
<1>1. CASE NextOf(d) # Absent
  BY <1>1, DirectoryIs
<1>2. CASE NextOf(d) = Absent
  <2>1. d.current = 0 /\ Manifest(d) = << >>
    BY <1>2, DirectoryIs DEF Intact, Complete, NextOf, Manifest, IsDisk
  <2>2. \A l \in Levels : \A f : f \notin BuiltFiles(d)[l]
    <3>1. \A l \in Levels : \A f : f \in BuildVersion(<< >>)[l] <=>
            \E i \in DOMAIN << >> : \E q \in << >>[i].added :
               /\ q[1] = l /\ q[2] = f
               /\ \A j \in (i + 1)..Len(<< >>) : <<l, f.number>> \notin << >>[j].deleted
      BY BuildVersionIs
    <3> QED
      BY <2>1, <3>1 DEF BuiltFiles
  <2> QED
    BY <2>2 DEF SoundFiles
<1> QED
  BY <1>1, <1>2

(* The logs still to be read have the same records.                        *)
SameRecords(d, e) ==
    /\ \A n \in LogsToRead(d) : \/ d.logs[n] = << >>
                                \/ n \in LogsToRead(e) /\ e.logs[n] = d.logs[n]
    /\ \A n \in LogsToRead(e) : \/ e.logs[n] = << >>
                                \/ n \in LogsToRead(d) /\ e.logs[n] = d.logs[n]

(* An empty log has no records.                                            *)
LEMMA NoRecords == ReadRecords(<< >>) = << >> /\ DOMAIN ReadRecords(<< >>) = {}
BY DEF ReadRecords

LogEntries(d) == UNION {UNION {ReadRecords(d.logs[n])[i] : i \in DOMAIN ReadRecords(d.logs[n])} :
                           n \in LogsToRead(d)}

(* What the logs hold, record by record.                                   *)
LEMMA LogEntriesAre ==
  ASSUME NEW d, NEW e
  PROVE  e \in LogEntries(d) <=>
            \E n \in LogsToRead(d) : \E i \in DOMAIN ReadRecords(d.logs[n]) :
               e \in ReadRecords(d.logs[n])[i]
BY DEF LogEntries

(* What a directory holds is in the tables of its version and in its logs. *)
LEMMA StoredIs ==
  ASSUME NEW d
  PROVE  Stored(d) = Entries(d, BuiltFiles(d)) \cup LogEntries(d)
BY DEF Stored, LogEntries, LogsToRead, BuiltFiles

(* The parts of an intact directory.                                       *)
LogsInOrder(d, E) ==
    \A n \in LogsToRead(d) :
       /\ d.logs[n] \in Seq(SUBSET Writes)
       /\ \A i \in DOMAIN ReadRecords(d.logs[n]) :
             /\ IsTable(ReadRecords(d.logs[n])[i])
             /\ After(ReadRecords(d.logs[n])[i], E)
             /\ \A m \in LogsToRead(d) : \A j \in DOMAIN ReadRecords(d.logs[m]) :
                   m < n \/ (m = n /\ j < i) =>
                      After(ReadRecords(d.logs[n])[i], ReadRecords(d.logs[m])[j])

(* An intact directory is complete, its version is in order, and so are    *)
(* its logs above that.                                                    *)
LEMMA IntactIs ==
  ASSUME NEW d
  PROVE  Intact(d) <=>
            /\ Complete(d) /\ Settled(BuiltFiles(d), d, LastOfDisk(d))
            /\ {LastOfDisk(d), LogOfDisk(d)} \subseteq Nat \cup {Absent}
            /\ LogOfDisk(d) <= NextOf(d)
            /\ LogsInOrder(d, Entries(d, BuiltFiles(d)))
BY DEF Intact, Settled, LogsInOrder, BuiltFiles, LastOfDisk, LogOfDisk, NextOf

(* A directory stays intact, and holds the same, when its manifest, the    *)
(* tables of its version and the records of its logs are as before.        *)
LEMMA IntactStays ==
  ASSUME NEW d, NEW e, IsDirectory(d), Intact(d), SameManifest(d, e),
         SameTables(BuiltFiles(d), d, e), SameRecords(d, e)
  PROVE  Intact(e) /\ Stored(e) = Stored(d)
<1>1. PICK next : SoundFiles(BuiltFiles(d), d.tables, next)
  BY BuiltSound
<1>2. /\ Manifest(e) = Manifest(d) /\ BuiltFiles(e) = BuiltFiles(d) /\ e.current = d.current
      /\ LastOfDisk(e) = LastOfDisk(d) /\ LogOfDisk(e) = LogOfDisk(d) /\ NextOf(e) = NextOf(d)
  BY SameManifestReads DEF LastOfDisk, LogOfDisk, SameManifest
<1>3. /\ Settled(BuiltFiles(e), e, LastOfDisk(e))
      /\ Entries(e, BuiltFiles(e)) = Entries(d, BuiltFiles(d))
  BY <1>1, <1>2, SettledStays, IntactIs
<1>4. Complete(e)
  <2>1. \A n \in FileNumbers(BuiltFiles(d)) : n \in DOMAIN d.tables =>
           n \in DOMAIN e.tables /\ e.tables[n] = d.tables[n]
    BY DEF SameTables, FileNumbers
  <2>2. Complete(d)
    BY IntactIs
  <2> QED
    BY <1>2, <2>1, <2>2 DEF Complete, BuiltFiles
<1>5. LogsInOrder(e, Entries(d, BuiltFiles(d)))
  <2>1. LogsInOrder(d, Entries(d, BuiltFiles(d)))
    BY IntactIs
  <2> SUFFICES ASSUME NEW n \in LogsToRead(e)
               PROVE
       /\ e.logs[n] \in Seq(SUBSET Writes)
       /\ \A i \in DOMAIN ReadRecords(e.logs[n]) :
             /\ IsTable(ReadRecords(e.logs[n])[i])
             /\ After(ReadRecords(e.logs[n])[i], Entries(d, BuiltFiles(d)))
             /\ \A m \in LogsToRead(e) : \A j \in DOMAIN ReadRecords(e.logs[m]) :
                   m < n \/ (m = n /\ j < i) =>
                      After(ReadRecords(e.logs[n])[i], ReadRecords(e.logs[m])[j])
    BY DEF LogsInOrder
  <2>2. CASE e.logs[n] = << >>
    BY <2>2, NoRecords
  <2>3. CASE n \in LogsToRead(d) /\ e.logs[n] = d.logs[n]
    <3>1. ASSUME NEW i \in DOMAIN ReadRecords(e.logs[n]), NEW m \in LogsToRead(e),
                 NEW j \in DOMAIN ReadRecords(e.logs[m]), m < n \/ (m = n /\ j < i)
          PROVE  After(ReadRecords(e.logs[n])[i], ReadRecords(e.logs[m])[j])
      <4>1. e.logs[m] # << >>
        BY <3>1, NoRecords
      <4>2. m \in LogsToRead(d) /\ e.logs[m] = d.logs[m]
        BY <4>1 DEF SameRecords
      <4> QED
        BY <2>1, <2>3, <3>1, <4>2 DEF LogsInOrder
    <3> QED
      BY <2>1, <2>3, <3>1 DEF LogsInOrder
  <2> QED
    BY <2>2, <2>3 DEF SameRecords
<1>6. LogEntries(e) = LogEntries(d)
  <2>1. ASSUME NEW x PROVE x \in LogEntries(e) <=> x \in LogEntries(d)
    <3>1. ASSUME x \in LogEntries(e) PROVE x \in LogEntries(d)
      <4>1. PICK n \in LogsToRead(e) : \E i \in DOMAIN ReadRecords(e.logs[n]) :
               x \in ReadRecords(e.logs[n])[i]
        BY <3>1, LogEntriesAre
      <4>2. e.logs[n] # << >>
        BY <4>1, NoRecords
      <4>3. n \in LogsToRead(d) /\ e.logs[n] = d.logs[n]
        BY <4>2 DEF SameRecords
      <4> QED
        BY <4>1, <4>3, LogEntriesAre
    <3>2. ASSUME x \in LogEntries(d) PROVE x \in LogEntries(e)
      <4>1. PICK n \in LogsToRead(d) : \E i \in DOMAIN ReadRecords(d.logs[n]) :
               x \in ReadRecords(d.logs[n])[i]
        BY <3>2, LogEntriesAre
      <4>2. d.logs[n] # << >>
        BY <4>1, NoRecords
      <4>3. n \in LogsToRead(e) /\ e.logs[n] = d.logs[n]
        BY <4>2 DEF SameRecords
      <4> QED
        BY <4>1, <4>3, LogEntriesAre
    <3> QED
      BY <3>1, <3>2
  <2> QED
    BY <2>1
<1> QED
  BY <1>2, <1>3, <1>4, <1>5, <1>6, IntactIs, StoredIs

(* When all that is logged is in tables, the tables are what counts.       *)
LEMMA IntactInTables ==
  ASSUME NEW d, NEW next, SoundFiles(BuiltFiles(d), d.tables, next),
         \A field \in {"log", "next", "last"} : LastField(Manifest(d), field) # Absent,
         LastOfDisk(d) \in Nat, LogOfDisk(d) \in Nat, LogOfDisk(d) <= NextOf(d),
         Settled(BuiltFiles(d), d, LastOfDisk(d)), NothingLogged(d, LogOfDisk(d))
  PROVE  Intact(d) /\ Stored(d) = Entries(d, BuiltFiles(d))
<1>1. \A n \in LogsToRead(d) : d.logs[n] = << >> /\ DOMAIN ReadRecords(d.logs[n]) = {}
  BY NoRecords DEF LogsToRead, NothingLogged, LogOfDisk
<1>2. LogsInOrder(d, Entries(d, BuiltFiles(d)))
  <2>1. << >> \in Seq(SUBSET Writes)
    OBVIOUS
  <2> QED
    BY <1>1, <2>1 DEF LogsInOrder
<1>3. Complete(d)
  <2>1. \A n \in FileNumbers(BuiltFiles(d)) : n \in DOMAIN d.tables /\ d.tables[n] # {}
    BY DEF FileNumbers, SoundFiles, Sound, Settled, IsTable
  <2> QED
    BY <2>1 DEF Complete, BuiltFiles
<1>4. LogEntries(d) = {}
  BY <1>1, LogEntriesAre
<1> QED
  BY <1>2, <1>3, <1>4, IntactIs, StoredIs

(* The end of the process, by whatever cause.                              *)
LEMMA DownKeeps ==
  ASSUME Down, Intact(disk'), Visible(Stored(disk')) = contents'
  PROVE  OInv'
<1>1. main' = "down" /\ bg' = "idle" /\ vs' = NewVersionSet
  BY DEF Down
<1>2. InVersions'
  <2>1. vs'.last \in Nat /\ DOMAIN vs'.versions = {1}
        /\ vs'.versions[1].files = NoFiles /\ vs'.versions[1].seek = {}
    BY <1>1, NewVersionSetIs DEF NewVersionSet
  <2> QED
    BY <1>1, <2>1, NoFilesSettled DEF InVersions, Running, Reading
<1>3. Lasting'
  BY DEF Lasting
<1>4. InRecovery' /\ InTables' /\ InCompaction'
  BY <1>1 DEF InRecovery, InTables, InCompaction, Opening, Running, Reading
<1> QED
  BY <1>2, <1>3, <1>4 DEF OInv

-----------------------------------------------------------------------------
(* The steps, once more: what each does to the writes.                     *)
LEMMA LastFieldIs ==
  ASSUME NEW S, NEW edits \in Seq(S), Len(edits) > 0, NEW field,
         edits[Len(edits)][field] # Absent
  PROVE  LastField(edits, field) = edits[Len(edits)][field]
<1> DEFINE having == {i \in DOMAIN edits : edits[i][field] # Absent}
<1>1. PICK n \in Nat : n = Len(edits)
  BY LenProperties
<1>2. n \in having /\ \A i \in having : n >= i /\ i \in Nat
  BY <1>1
<1>3. Max(having) = n
  <2> HIDE DEF having
  <2>1. \A m \in having : (\A i \in having : m >= i) => m = n
    BY <1>2
  <2>2. Max(having) \in having /\ \A i \in having : Max(having) >= i
    BY <1>2, Zenon DEF Max
  <2> QED
    BY <2>1, <2>2
<1>4. having # {}
  BY <1>2
<1> QED
  BY <1>1, <1>3, <1>4 DEF LastField

(* The program starts with what a node has left, and with no files open.   *)
LEMMA IntactStart ==
  ASSUME \A d \in Databases : Intact(d), Init
  PROVE  OInv
<1>1. main = "down" /\ bg = "idle" /\ vs = NewVersionSet /\ Lasting
  BY DEF Init, Lasting
<1>2. InVersions
  <2>1. vs.last \in Nat /\ DOMAIN vs.versions = {1}
        /\ vs.versions[1].files = NoFiles /\ vs.versions[1].seek = {}
    BY <1>1, NewVersionSetIs DEF NewVersionSet
  <2> QED
    BY <1>1, <2>1, NoFilesSettled DEF InVersions, Running, Reading
<1>3. InRecovery /\ InTables /\ InCompaction
  BY <1>1 DEF InRecovery, InTables, InCompaction, Opening, Running, Reading
<1> QED
  BY <1>1, <1>2, <1>3 DEF OInv

(* Before a manifest is read there is no version to speak of.              *)
Early == {"down", "recover", "newdb_temp", "newdb_rename"}

(* Before the manifest is read nothing is known of the directory in        *)
(* memory.                                                                 *)
LEMMA EarlyKeeps ==
  ASSUME IInv, main \in Early, main' \in Early, vs' = vs, bg' = bg, Lasting'
  PROVE  OInv'
<1>1. vs' = NewVersionSet /\ bg' = "idle"
  BY DEF IInv, Control, Early, Running, Reading
<1>2. InVersions'
  <2>1. vs'.last \in Nat /\ DOMAIN vs'.versions = {1}
        /\ vs'.versions[1].files = NoFiles /\ vs'.versions[1].seek = {}
    BY <1>1, NewVersionSetIs DEF NewVersionSet
  <2> QED
    BY <2>1, NoFilesSettled DEF InVersions, Running, Reading, Early
<1>3. InRecovery' /\ InTables' /\ InCompaction'
  BY <1>1 DEF InRecovery, InTables, InCompaction, Opening, Running, Reading, Early
<1> QED
  BY <1>2, <1>3 DEF OInv

(* The directory keeps what it holds when neither its manifest, nor the    *)
(* tables this lists, nor the records of the logs change.                  *)
LEMMA LastingStays ==
  ASSUME IInv, OInv, contents' = contents, SameManifest(disk, disk'),
         SameTables(BuiltFiles(disk), disk, disk'), SameRecords(disk, disk')
  PROVE  Lasting' /\ Stored(disk') = Stored(disk)
BY IntactStays DEF Lasting, IInv, OInv

(* Start changes nothing in the directory.                                 *)
LEMMA StartKeepsOrder == ASSUME IInv, OInv, Start PROVE OInv'
BY EarlyKeeps DEF Start, OInv, Lasting, Early

(* Logs that are the same have the same records.                           *)
LEMMA SameLogs ==
  ASSUME NEW d, NEW e, SameManifest(d, e), e.logs = d.logs
  PROVE  SameRecords(d, e)
BY SameManifestReads DEF SameRecords, LogsToRead

(* NewDB writes a manifest that CURRENT does not name yet.                 *)
LEMMA NewDBKeepsOrder == ASSUME IInv, OInv, NewDB PROVE OInv'
<1>1. main \in Early /\ main' \in Early /\ vs' = vs /\ bg' = bg /\ contents' = contents
      /\ disk.current = 0 /\ IsDisk(disk)
  BY DirectoryIs DEF NewDB, Early, IInv
<1>2. PICK content : content = <<[NoEdit EXCEPT !.log = 0, !.next = 2, !.last = 0]>>
  OBVIOUS
<1>3. /\ disk' = [current |-> disk.current, manifests |-> Put(disk.manifests, 1, content),
                  tables |-> disk.tables, logs |-> disk.logs, temps |-> disk.temps]
  BY <1>1, <1>2 DEF NewDB, IsDisk, Put
<1>4. DOMAIN disk'.manifests = DOMAIN disk.manifests \cup {1}
  BY <1>3 DEF Put
<1>5. SameManifest(disk, disk')
  BY <1>1, <1>3, <1>4 DEF SameManifest, IsDisk
<1>6. SameTables(BuiltFiles(disk), disk, disk') /\ SameRecords(disk, disk')
  BY <1>3, <1>5, SameLogs DEF SameTables
<1> QED
  BY <1>1, <1>5, <1>6, LastingStays, EarlyKeeps

(* When it does, the directory holds what it held: nothing.                *)
LEMMA RenameNewDBKeepsOrder == ASSUME IInv, OInv, RenameNewDB PROVE OInv'
<1>1. IsDisk(disk) /\ main = "newdb_rename" /\ main' = "recover" /\ ManifestToSet = 1
      /\ disk.current = 0 /\ vs' = vs /\ bg' = bg /\ contents' = contents
  BY DirectoryIs DEF IInv, Recovering, RenameNewDB, ManifestToSet
<1>2. PICK temps : disk' = [current |-> 1, manifests |-> disk.manifests,
                            tables |-> disk.tables, logs |-> disk.logs, temps |-> temps]
  <2>1. PICK rest : rest = disk.temps \ {ManifestToSet}
    OBVIOUS
  <2> QED
    BY <1>1, <2>1 DEF RenameNewDB, Renamed, IsDisk
<1>3. PICK edit : /\ edit = [NoEdit EXCEPT !.log = 0, !.next = 2, !.last = 0]
                  /\ 1 \in DOMAIN disk.manifests /\ disk.manifests[1] = <<edit>>
  BY <1>1 DEF IInv, Recovering
<1>4. edit["log"] = 0 /\ edit["next"] = 2 /\ edit["last"] = 0 /\ edit.added = {}
  BY <1>3 DEF NoEdit
<1>5. PICK S, one : S = {edit} /\ one = <<edit>>
  OBVIOUS
<1>6. one \in Seq(S) /\ Len(one) = 1 /\ DOMAIN one = {1} /\ one[1] = edit
  BY <1>5
<1>7. LastField(one, "log") = 0 /\ LastField(one, "next") = 2 /\ LastField(one, "last") = 0
  <2>1. ASSUME NEW field, edit[field] # Absent PROVE LastField(one, field) = edit[field]
    <3>1. Len(one) > 0 /\ one[Len(one)][field] # Absent
      BY <1>6, <2>1
    <3>2. LastField(one, field) = one[Len(one)][field]
      BY ONLY <1>6, <3>1, LastFieldIs
    <3> QED
      BY <1>6, <3>2
  <2> QED
    BY <1>4, <2>1 DEF Absent
<1>8. Manifest(disk') = one /\ Manifest(disk) = << >>
  BY <1>1, <1>2, <1>3, <1>5 DEF Manifest, IsDisk
<1>9. /\ \A l \in Levels : BuiltFiles(disk')[l] = {}
      /\ \A l \in Levels : BuiltFiles(disk)[l] = {}
  <2>1. \A l \in Levels : \A f : f \notin BuildVersion(one)[l]
    <3> SUFFICES ASSUME NEW l \in Levels, NEW f, f \in BuildVersion(one)[l] PROVE FALSE
      OBVIOUS
    <3>1. PICK i \in DOMAIN one : \E q \in one[i].added :
             /\ q[1] = l /\ q[2] = f
             /\ \A j \in (i + 1)..Len(one) : <<l, f.number>> \notin one[j].deleted
      BY BuildVersionIs, Zenon
    <3> QED
      BY <1>4, <1>6, <3>1
  <2>2. \A l \in Levels : \A f : f \notin BuildVersion(<< >>)[l]
    <3> SUFFICES ASSUME NEW l \in Levels, NEW f, f \in BuildVersion(<< >>)[l] PROVE FALSE
      OBVIOUS
    <3>1. PICK nothing : nothing = << >>
      OBVIOUS
    <3>2. f \in BuildVersion(nothing)[l]
      BY <3>1
    <3>3. PICK i \in DOMAIN nothing : \E q \in nothing[i].added :
             /\ q[1] = l /\ q[2] = f
             /\ \A j \in (i + 1)..Len(nothing) : <<l, f.number>> \notin nothing[j].deleted
      BY <3>2, BuildVersionIs, Zenon
    <3> QED
      BY <3>1, <3>3
  <2> QED
    BY <1>8, <2>1, <2>2 DEF BuiltFiles
<1>10. /\ \A d : Entries(d, BuiltFiles(disk)) = {} /\ Entries(d, BuiltFiles(disk')) = {}
       /\ \A d, last : Settled(BuiltFiles(disk'), d, last)
  <2>1. \A d : Entries(d, BuiltFiles(disk)) = {} /\ Entries(d, BuiltFiles(disk')) = {}
    BY <1>9, EntriesAre
  <2>2. \A d, last : Settled(BuiltFiles(disk'), d, last)
    BY <1>9, FS_EmptySet DEF Settled, Layered
  <2> QED
    BY <2>1, <2>2
<1>11. LogsToRead(disk') = LogsToRead(disk) /\ disk'.logs = disk.logs
  <2>1. LastField(Manifest(disk), "log") = -1 /\ LastField(Manifest(disk'), "log") = 0
    BY <1>7, <1>8 DEF LastField, Absent
  <2>2. disk'.logs = disk.logs /\ DOMAIN disk.logs \subseteq Nat
    BY <1>1, <1>2 DEF IsDisk
  <2>3. \A n \in DOMAIN disk.logs : n >= -1 /\ n >= 0
    BY <2>2
  <2> QED
    BY <2>1, <2>2, <2>3 DEF LogsToRead
<1>12. LogsInOrder(disk, {})
  BY <1>10, IntactIs DEF OInv, Lasting
<1>13. LogsInOrder(disk', Entries(disk', BuiltFiles(disk')))
  BY <1>10, <1>11, <1>12 DEF LogsInOrder
<1>14. Complete(disk')
  <2>1. FileNumbers(BuildVersion(one)) = {}
    BY <1>8, <1>9 DEF FileNumbers, BuiltFiles
  <2> QED
    BY <1>7, <1>8, <2>1 DEF Complete, Absent
<1>15. LastOfDisk(disk') = 0 /\ LogOfDisk(disk') = 0 /\ NextOf(disk') = 2
  BY <1>7, <1>8 DEF LastOfDisk, LogOfDisk, NextOf
<1>16. Intact(disk')
  BY <1>10, <1>13, <1>14, <1>15, IntactIs
<1>17. Stored(disk') = Stored(disk)
  <2>1. LogEntries(disk') = LogEntries(disk)
    BY <1>11 DEF LogEntries
  <2> QED
    BY <1>10, <2>1, StoredIs
<1>18. Lasting'
  BY <1>1, <1>16, <1>17 DEF OInv, Lasting
<1> QED
  BY <1>1, <1>18, EarlyKeeps DEF Early

(* The records that recovery has yet to read, one by one.                  *)
LEMMA RecordsLeftAre ==
  ASSUME NEW d, NEW logs, NEW from, NEW n, NEW i
  PROVE  <<n, i>> \in RecordsLeft(d, logs, from) <=>
            n \in logs /\ i \in DOMAIN ReadRecords(d.logs[n]) /\ (n = Min(logs) => i >= from)
BY DEF RecordsLeft

(* And the writes in those records.                                        *)
LEMMA UnreadAre ==
  ASSUME NEW d, NEW logs, NEW from, NEW e
  PROVE  e \in Unread(d, logs, from) <=>
            \E n \in logs : \E i \in DOMAIN ReadRecords(d.logs[n]) :
               /\ n = Min(logs) => i >= from
               /\ e \in ReadRecords(d.logs[n])[i]
<1>1. ASSUME e \in Unread(d, logs, from)
      PROVE  \E n \in logs : \E i \in DOMAIN ReadRecords(d.logs[n]) :
               /\ n = Min(logs) => i >= from
               /\ e \in ReadRecords(d.logs[n])[i]
  <2>1. PICK p \in RecordsLeft(d, logs, from) : e \in ReadRecords(d.logs[p[1]])[p[2]]
    BY <1>1 DEF Unread
  <2>2. PICK n \in logs : p \in {n} \X DOMAIN ReadRecords(d.logs[n])
    BY DEF RecordsLeft
  <2>3. p[1] = Min(logs) => p[2] >= from
    BY DEF RecordsLeft
  <2> QED
    BY <2>1, <2>2, <2>3
<1>2. ASSUME NEW n \in logs, NEW i \in DOMAIN ReadRecords(d.logs[n]),
             n = Min(logs) => i >= from, e \in ReadRecords(d.logs[n])[i]
      PROVE  e \in Unread(d, logs, from)
  <2>1. PICK p : p = <<n, i>>
    OBVIOUS
  <2>2. p \in RecordsLeft(d, logs, from) /\ p[1] = n /\ p[2] = i
    BY <1>2, <2>1, RecordsLeftAre
  <2> QED
    BY <1>2, <2>2 DEF Unread
<1> QED
  BY <1>1, <1>2

(* log::Reader delivers the records at the front of the log, as many as    *)
(* are whole.                                                              *)
LEMMA RecordsAre ==
  ASSUME NEW S, NEW log \in Seq(S)
  PROVE  \E n \in 0..Len(log) : /\ DOMAIN ReadRecords(log) = 1..n
                                /\ Len(ReadRecords(log)) = n
                                /\ \A i \in 1..n : ReadRecords(log)[i] = log[i] /\ log[i] # {}
<1> DEFINE torn == {i \in DOMAIN log : log[i] = {}}
<1>1. CASE torn = {}
  BY <1>1 DEF ReadRecords
<1>2. CASE torn # {}
  <2>1. torn \subseteq Nat /\ torn \subseteq 1..Len(log) /\ Len(log) \in Nat
    OBVIOUS
  <2>2. PICK m : m = Min(torn)
    OBVIOUS
  <2>3. m \in torn /\ \A i \in torn : m <= i
    <3> HIDE DEF torn
    <3> QED
      BY <1>2, <2>1, <2>2, MinIn
  <2>4. m \in 1..Len(log) /\ \A i \in 1..(m - 1) : log[i] # {}
    BY <2>1, <2>3
  <2>5. ReadRecords(log) = SubSeq(log, 1, m - 1)
    BY <1>2, <2>2 DEF ReadRecords
  <2>6. /\ Len(SubSeq(log, 1, m - 1)) = m - 1
        /\ DOMAIN SubSeq(log, 1, m - 1) = 1..(m - 1)
        /\ \A i \in 1..(m - 1) : SubSeq(log, 1, m - 1)[i] = log[i]
    BY <2>4
  <2>7. m - 1 \in 0..Len(log)
    BY <2>1, <2>4
  <2> QED
    BY <2>4, <2>5, <2>6, <2>7
<1> QED
  BY <1>1, <1>2

(* The background thread runs only when the database is open.              *)
LEMMA IdleOutside == ASSUME IInv, main \notin Running PROVE bg = "idle"
BY DEF IInv, Control

(* The current version is one of those in use, and its files are there.    *)
LEMMA CurrentIn ==
  ASSUME IInv
  PROVE  /\ vs.current \in DOMAIN vs.versions
         /\ SoundFiles(Current(vs).files, disk.tables, vs.next)
BY DEF IInv, Versions, Referenced, Current

(* Every version keeps its shape while its tables stay.                    *)
LEMMA VersionsStaySettled ==
  ASSUME IInv, OInv, NEW v \in DOMAIN vs.versions,
         SameTables(vs.versions[v].files, disk, disk')
  PROVE  /\ Settled(vs.versions[v].files, disk', vs.last)
         /\ Entries(disk', vs.versions[v].files) = Entries(disk, vs.versions[v].files)
BY SettledStays DEF IInv, Versions, OInv, InVersions

(* From the new log to the new version.                                    *)
LEMMA OpeningKeepsOrder ==
  ASSUME IInv, OInv, main \in Opening \ {"logs"}, main' \in Opening \ {"logs"},
         UNCHANGED <<contents, rec, vs, db, bg, c>>,
         SameManifest(disk, disk'), disk'.tables = disk.tables, disk'.logs = disk.logs
  PROVE  OInv'
<1>1. /\ \A files : SameTables(files, disk, disk')
      /\ SameRecords(disk, disk') /\ bg' = "idle"
      /\ main' \notin Running /\ main \notin Running
  BY SameLogs, IdleOutside DEF SameTables, Opening, Running, Reading
<1>2. Lasting' /\ Stored(disk') = Stored(disk)
  BY <1>1, LastingStays
<1>3. InVersions'
  BY <1>1, VersionsStaySettled DEF OInv, InVersions
<1>4. InRecovery'
  <2>1. SoundFiles(Recovered, disk.tables, vs.next)
    BY CurrentIn, ApplyEditSound DEF Recovered, IInv, Recovering
  <2>2. Recovered' = Recovered
    BY DEF Recovered
  <2>3. Settled(Recovered', disk', vs.last) /\ Entries(disk', Recovered') = Entries(disk, Recovered)
    BY <1>1, <2>1, <2>2, SettledStays DEF OInv, InRecovery
  <2> QED
    BY <1>2, <2>2, <2>3 DEF OInv, InRecovery, NothingLogged
<1>5. InTables' /\ InCompaction'
  BY <1>1 DEF InTables, InCompaction
<1> QED
  BY <1>2, <1>3, <1>4, <1>5 DEF OInv

(* LogAndApply writes a new manifest beside the one in use,                *)
LEMMA WriteManifestKeepsOrder == ASSUME IInv, OInv, WriteManifest PROVE OInv'
<1>1. /\ IsDisk(disk) /\ main = "manifest" /\ main' = "temp"
      /\ UNCHANGED <<contents, rec, vs, db, bg, c, iter, runs, faults>>
  BY DirectoryIs DEF IInv, WriteManifest
<1>2. disk.current < vs.manifest /\ vs.manifest \in Nat /\ disk.current \in Nat
  BY <1>1, ManifestIsNew DEF Opening
<1>3. PICK content : content = <<WriteSnapshot(Current(vs).files),
                                 Completed(rec.edit, vs, db.logfile)>>
  OBVIOUS
<1>4. PICK manifests : manifests = Put(disk.manifests, vs.manifest, content)
  OBVIOUS
<1>5. disk' = [current |-> disk.current, manifests |-> manifests,
               tables |-> disk.tables, logs |-> disk.logs, temps |-> disk.temps]
  BY <1>1, <1>3, <1>4 DEF WriteManifest, IsDisk
<1>6. /\ DOMAIN manifests = DOMAIN disk.manifests \cup {vs.manifest}
      /\ \A n \in DOMAIN disk.manifests \ {vs.manifest} : manifests[n] = disk.manifests[n]
  BY <1>4 DEF Put
<1>7. SameManifest(disk, disk') /\ disk'.tables = disk.tables /\ disk'.logs = disk.logs
  BY <1>1, <1>2, <1>5, <1>6 DEF SameManifest
<1> QED
  BY <1>1, <1>7, OpeningKeepsOrder DEF Opening

(* and SetCurrentFile a temporary file.                                    *)
LEMMA WriteTempKeepsOrder == ASSUME IInv, OInv, WriteTemp PROVE OInv'
<1>1. IsDisk(disk) /\ main \in {"newdb_temp", "temp"}
      /\ UNCHANGED <<contents, rec, vs, db, bg, c>>
      /\ main' = IF main = "temp" THEN "rename" ELSE "newdb_rename"
  BY DirectoryIs DEF IInv, WriteTemp
<1>2. PICK temps : disk' = [current |-> disk.current, manifests |-> disk.manifests,
                            tables |-> disk.tables, logs |-> disk.logs, temps |-> temps]
  <2>1. PICK number : number = ManifestToSet
    OBVIOUS
  <2> QED
    BY <1>1, <2>1 DEF WriteTemp, IsDisk
<1>3. SameManifest(disk, disk') /\ disk'.tables = disk.tables /\ disk'.logs = disk.logs
  BY <1>2 DEF SameManifest
<1>4. CASE main = "temp"
  BY <1>1, <1>3, <1>4, OpeningKeepsOrder DEF Opening
<1>5. CASE main = "newdb_temp"
  <2>1. Lasting'
    BY <1>1, <1>3, SameLogs, LastingStays DEF SameTables
  <2> QED
    BY <1>1, <1>5, <2>1, EarlyKeeps DEF Early
<1> QED
  BY <1>1, <1>4, <1>5

(* VersionSet::Recover: the logs are still to be read.                     *)
LEMMA RecoverKeepsOrder == ASSUME IInv, OInv, Recover PROVE OInv'
<1>1. CASE ~Readable
  BY <1>1, DownKeeps DEF Recover, OInv, Lasting
<1>2. CASE Readable
  <2>1. main = "recover" /\ main' = "logs" /\ disk' = disk /\ ReadManifest
        /\ bg' = bg /\ c' = c /\ contents' = contents
    BY <1>2 DEF Recover, ReadManifest
  <2>2. /\ Settled(BuiltFiles(disk), disk, LastOfDisk(disk))
        /\ LastOfDisk(disk) \in Nat /\ LogOfDisk(disk) \in Nat
        /\ LogsInOrder(disk, Entries(disk, BuiltFiles(disk)))
    BY <1>2, IntactIs DEF Readable, OInv, Lasting, LastOfDisk, LogOfDisk
  <2>3. PICK files, n, last, log : /\ files = BuiltFiles(disk) /\ n = NextOf(disk)
                                   /\ last = LastOfDisk(disk) /\ log = LogOfDisk(disk)
    OBVIOUS
  <2>4. vs' = [NewVersionSet EXCEPT !.next = n + 1, !.manifest = n, !.last = last,
                                    !.log = log, !.versions[1].files = files]
    BY <2>1, <2>3 DEF ReadManifest, NextOf, BuiltFiles, LastOfDisk, LogOfDisk
  <2>5. /\ vs'.last = last /\ vs'.log = log /\ vs'.current = 1
        /\ DOMAIN vs'.versions = {1}
        /\ vs'.versions[1].files = files /\ vs'.versions[1].seek = {}
    <3>1. PICK versions : versions = [NewVersionSet.versions EXCEPT ![1].files = files]
      OBVIOUS
    <3>2. DOMAIN versions = {1} /\ versions[1].files = files /\ versions[1].seek = {}
      BY <3>1, NewVersionSetIs
    <3>3. vs' = [NewVersionSet EXCEPT !.next = n + 1, !.manifest = n, !.last = last,
                                      !.log = log, !.versions = versions]
      BY <2>4, <3>1
    <3> QED
      BY <3>2, <3>3, NewVersionSetIs DEF IsVersionSet
  <2>6. rec' = [logs |-> LogsToRead(disk), from |-> 1, edit |-> NoEdit, max |-> 0]
    <3>1. PICK logs : logs = {k \in DOMAIN disk.logs : k >= vs'.log}
      OBVIOUS
    <3>2. rec' = [NoRecovery EXCEPT !.logs = logs]
      BY <2>1, <3>1 DEF ReadManifest
    <3>3. logs = LogsToRead(disk)
      BY <2>3, <2>5, <3>1 DEF LogsToRead, LogOfDisk
    <3> QED
      BY <3>2, <3>3 DEF NoRecovery
  <2>7. Lasting'
    BY <2>1 DEF OInv, Lasting
  <2>8. InVersions'
    BY <2>1, <2>2, <2>3, <2>5 DEF InVersions, Running, Reading
  <2>9. Recovered' = files
    <3>1. Recovered' = ApplyEdit(files, NoEdit)
      BY <2>5, <2>6 DEF Recovered, Current
    <3>2. \A l \in Levels : \A f : f \in ApplyEdit(files, NoEdit)[l] <=> f \in files[l]
      <4>1. PICK edit : edit = NoEdit
        OBVIOUS
      <4>2. edit.added = {} /\ edit.deleted = {}
        BY <4>1 DEF NoEdit
      <4> SUFFICES ASSUME NEW l \in Levels, NEW f
                   PROVE  f \in ApplyEdit(files, edit)[l] <=> f \in files[l]
        BY <4>1
      <4>3. f \in ApplyEdit(files, edit)[l] <=>
               \/ f \in files[l] /\ <<l, f.number>> \notin edit.deleted
               \/ \E q \in edit.added : q[1] = l /\ q[2] = f
        BY ApplyEditIs
      <4> QED
        BY <4>2, <4>3
    <3>3. \A l \in Levels : ApplyEdit(files, NoEdit)[l] = files[l]
      BY <3>2
    <3>4. files = [l \in Levels |-> files[l]]
      BY <2>3, BuildVersionShape DEF BuiltFiles
    <3>5. ApplyEdit(files, NoEdit) = [l \in Levels |-> ApplyEdit(files, NoEdit)[l]]
      BY ApplyEditShape
    <3>6. PICK applied : applied = ApplyEdit(files, NoEdit)
      OBVIOUS
    <3> QED
      BY ONLY <3>1, <3>3, <3>4, <3>5, <3>6
  <2>10. Unread(disk, LogsToRead(disk), 1) = LogEntries(disk)
    <3>1. PICK logs : logs = LogsToRead(disk)
      OBVIOUS
    <3>2. \A m \in logs : disk.logs[m] \in Seq(SUBSET Writes)
      BY <2>2, <3>1 DEF LogsInOrder
    <3>3. ASSUME NEW m \in logs, NEW i \in DOMAIN ReadRecords(disk.logs[m]) PROVE i >= 1
      BY <3>1, <3>2, <3>3, RecordsAre
    <3>4. ASSUME NEW e PROVE e \in Unread(disk, logs, 1) <=> e \in LogEntries(disk)
      <4>1. e \in Unread(disk, logs, 1) <=>
              \E k \in logs : \E i \in DOMAIN ReadRecords(disk.logs[k]) :
                 /\ k = Min(logs) => i >= 1
                 /\ e \in ReadRecords(disk.logs[k])[i]
        BY UnreadAre
      <4>2. e \in LogEntries(disk) <=>
              \E k \in logs : \E i \in DOMAIN ReadRecords(disk.logs[k]) :
                 e \in ReadRecords(disk.logs[k])[i]
        BY <3>1, LogEntriesAre
      <4> QED
        BY <3>3, <4>1, <4>2
    <3> QED
      BY <3>1, <3>4
  <2>11. After(LogEntries(disk), Entries(disk, files))
    <3> SUFFICES ASSUME NEW e \in LogEntries(disk), NEW f \in Entries(disk, files), f.key = e.key
                 PROVE  e.seq > f.seq
      BY DEF After
    <3>1. PICK m \in LogsToRead(disk) : \E i \in DOMAIN ReadRecords(disk.logs[m]) :
             e \in ReadRecords(disk.logs[m])[i]
      BY LogEntriesAre
    <3> QED
      BY <2>2, <2>3, <3>1 DEF LogsInOrder, After
  <2>12. Max({vs'.last, rec'.max}) = vs'.last
    BY <2>2, <2>3, <2>5, <2>6, MaxOfTwo
  <2>13. InRecovery'
    <3>1. rec'.edit.deleted = {} /\ rec'.edit.added = {}
      BY <2>6 DEF NoEdit
    <3>2. rec'.logs = LogsToRead(disk) /\ rec'.from = 1 /\ rec'.max = 0
      BY <2>6
    <3>3. vs'.log = LogOfDisk(disk') /\ vs'.last = LastOfDisk(disk')
      BY <2>1, <2>3, <2>5
    <3>4. Settled(Recovered', disk', Max({vs'.last, rec'.max}))
      BY <2>1, <2>2, <2>3, <2>5, <2>9, <2>12
    <3>5. /\ After(Unread(disk', rec'.logs, rec'.from), Entries(disk', Recovered'))
          /\ Stored(disk') = Entries(disk', Recovered') \cup Unread(disk', rec'.logs, rec'.from)
      BY <2>1, <2>3, <2>9, <2>10, <2>11, <3>2, StoredIs
    <3> QED
      BY <2>1, <3>1, <3>2, <3>3, <3>4, <3>5 DEF InRecovery, Opening
  <2>14. InTables' /\ InCompaction'
    BY <2>1, IdleOutside DEF InTables, InCompaction, Running, Opening, Reading
  <2> QED
    BY <2>7, <2>8, <2>13, <2>14 DEF OInv
<1> QED
  BY <1>1, <1>2

(* Reading on in the oldest log, up to the record last, or to its end.     *)
RecordsOf(d, log, from, last) == UNION {ReadRecords(d.logs[log])[i] : i \in from..last}

ReadsOn(d, logs, log, from, last, rest, next) ==
    /\ logs \in SUBSET Nat /\ log \in logs /\ log = Min(logs)
    /\ \A n \in logs : d.logs[n] \in Seq(SUBSET Writes)
    /\ from \in Nat \ {0} /\ last \in Nat /\ next \in Nat \ {0}
    /\ \/ /\ last = Len(ReadRecords(d.logs[log])) /\ rest = logs \ {log} /\ next = 1
       \/ /\ last < Len(ReadRecords(d.logs[log])) /\ rest = logs /\ next = last + 1
          /\ from <= last

(* RecoverLogFile takes the next records of the oldest log, which are the  *)
(* oldest that are left.                                                   *)
LEMMA ReadingOn ==
  ASSUME NEW d, NEW logs, NEW log, NEW from, NEW last, NEW rest, NEW next,
         ReadsOn(d, logs, log, from, last, rest, next)
  PROVE  /\ Unread(d, logs, from) = RecordsOf(d, log, from, last) \cup Unread(d, rest, next)
         /\ \A n, i : <<n, i>> \in RecordsLeft(d, rest, next) =>
               /\ n \in logs /\ i \in DOMAIN ReadRecords(d.logs[n])
               /\ log < n \/ (log = n /\ last < i)
         /\ \A i \in from..last : i \in DOMAIN ReadRecords(d.logs[log])
<1>0. /\ logs \in SUBSET Nat /\ log \in logs /\ log = Min(logs)
      /\ \A n \in logs : d.logs[n] \in Seq(SUBSET Writes)
      /\ from \in Nat \ {0} /\ last \in Nat /\ next \in Nat \ {0}
      /\ \/ /\ last = Len(ReadRecords(d.logs[log])) /\ rest = logs \ {log} /\ next = 1
         \/ /\ last < Len(ReadRecords(d.logs[log])) /\ rest = logs /\ next = last + 1
            /\ from <= last
  BY DEF ReadsOn
<1> USE <1>0
<1>1. PICK size \in Nat : /\ size = Len(ReadRecords(d.logs[log]))
                          /\ DOMAIN ReadRecords(d.logs[log]) = 1..size
  BY RecordsAre
<1>2. \A n \in logs : \A i \in DOMAIN ReadRecords(d.logs[n]) : i \in Nat /\ i >= 1
  BY RecordsAre
<1>3. \A n \in logs : log <= n
  BY MinIn
<1>4. rest = logs => Min(rest) = log
  OBVIOUS
<1>5. ASSUME NEW n, NEW i
      PROVE  /\ <<n, i>> \in RecordsLeft(d, rest, next) <=>
                  /\ n \in logs /\ i \in DOMAIN ReadRecords(d.logs[n])
                  /\ log < n \/ (log = n /\ last < i)
  <2>1. <<n, i>> \in RecordsLeft(d, rest, next) <=>
          n \in rest /\ i \in DOMAIN ReadRecords(d.logs[n]) /\ (n = Min(rest) => i >= next)
    BY RecordsLeftAre
  <2>2. CASE last = size /\ rest = logs \ {log} /\ next = 1
    <3>1. n \in logs /\ i \in DOMAIN ReadRecords(d.logs[n]) => i >= next
      BY <1>2, <2>2
    <3>2. n \in logs /\ n # log => log < n
      BY <1>3
    <3>3. i \in DOMAIN ReadRecords(d.logs[log]) => ~(last < i)
      BY <1>1, <2>2
    <3> QED
      BY <2>1, <2>2, <3>1, <3>2, <3>3
  <2>3. CASE last < size /\ rest = logs /\ next = last + 1
    <3>1. n \in logs /\ n # log => log < n
      BY <1>3
    <3>2. i \in DOMAIN ReadRecords(d.logs[log]) => (last < i <=> i >= next)
      BY <1>1, <2>3
    <3>3. Min(rest) = log
      BY <1>4, <2>3
    <3>4. ~(log < log)
      OBVIOUS
    <3> QED
      BY <2>1, <2>3, <3>1, <3>2, <3>3, <3>4
  <2> QED
    BY <1>1, <2>2, <2>3
<1>6. \A i \in from..last : i \in DOMAIN ReadRecords(d.logs[log])
  BY <1>1
<1>7. ASSUME NEW n, NEW i
      PROVE  <<n, i>> \in RecordsLeft(d, logs, from) <=>
                (n = log /\ i \in from..last) \/ <<n, i>> \in RecordsLeft(d, rest, next)
  <2>1. <<n, i>> \in RecordsLeft(d, logs, from) <=>
          n \in logs /\ i \in DOMAIN ReadRecords(d.logs[n]) /\ (n = log => i >= from)
    BY RecordsLeftAre
  <2>2. CASE n = log
    <3>1. i \in DOMAIN ReadRecords(d.logs[log]) => (i >= from <=> i \in from..last \/ last < i)
      BY <1>1
    <3>2. <<n, i>> \in RecordsLeft(d, rest, next) <=>
             i \in DOMAIN ReadRecords(d.logs[log]) /\ last < i
      <4>1. ~(log < log)
        OBVIOUS
      <4> QED
        BY <1>5, <2>2, <4>1
    <3>3. <<n, i>> \in RecordsLeft(d, logs, from) <=>
             i \in DOMAIN ReadRecords(d.logs[log]) /\ i >= from
      BY <2>1, <2>2
    <3>4. i \in from..last => i >= from /\ i \in DOMAIN ReadRecords(d.logs[log])
      BY <1>6
    <3>5. i \in DOMAIN ReadRecords(d.logs[log]) /\ last < i => i >= from
      BY <1>1
    <3> QED
      BY <2>2, <3>1, <3>2, <3>3, <3>4, <3>5
  <2>3. CASE n # log
    <3>1. n \in logs => log < n
      BY <1>3, <2>3
    <3>2. <<n, i>> \in RecordsLeft(d, rest, next) <=>
             n \in logs /\ i \in DOMAIN ReadRecords(d.logs[n])
      BY <1>5, <2>3, <3>1
    <3> QED
      BY <2>1, <2>3, <3>2
  <2> QED
    BY <2>2, <2>3
<1>8. ASSUME NEW e
      PROVE  e \in Unread(d, logs, from) <=>
                e \in RecordsOf(d, log, from, last) \/ e \in Unread(d, rest, next)
  <2>1. \A l, k : e \in Unread(d, l, k) <=>
           \E n, i : <<n, i>> \in RecordsLeft(d, l, k) /\ e \in ReadRecords(d.logs[n])[i]
    <3> SUFFICES ASSUME NEW l, NEW k
                 PROVE  e \in Unread(d, l, k) <=>
           \E n, i : <<n, i>> \in RecordsLeft(d, l, k) /\ e \in ReadRecords(d.logs[n])[i]
      OBVIOUS
    <3>1. e \in Unread(d, l, k) <=>
            \E n \in l : \E i \in DOMAIN ReadRecords(d.logs[n]) :
               /\ n = Min(l) => i >= k
               /\ e \in ReadRecords(d.logs[n])[i]
      BY UnreadAre
    <3>2. \A n, i : <<n, i>> \in RecordsLeft(d, l, k) <=>
            n \in l /\ i \in DOMAIN ReadRecords(d.logs[n]) /\ (n = Min(l) => i >= k)
      BY RecordsLeftAre
    <3> QED
      BY <3>1, <3>2
  <2>2. e \in RecordsOf(d, log, from, last) <=>
           \E i \in from..last : e \in ReadRecords(d.logs[log])[i]
    BY DEF RecordsOf
  <2> QED
    BY <1>7, <2>1, <2>2
<1> QED
  BY <1>5, <1>6, <1>8

(* The records of one log, read together, are the entries of a table.      *)
LEMMA TableOfRecords ==
  ASSUME NEW d, NEW F, LogsInOrder(d, F), NEW log \in LogsToRead(d),
         NEW from \in Nat \ {0}, NEW last \in Nat, from <= last,
         \A i \in from..last : i \in DOMAIN ReadRecords(d.logs[log])
  PROVE  IsTable(RecordsOf(d, log, from, last))
<1> DEFINE record(i) == ReadRecords(d.logs[log])[i]
           E == UNION {record(i) : i \in from..last}
<1>1. \A i \in from..last :
         /\ IsTable(record(i))
         /\ \A j \in from..last : j < i => After(record(i), record(j))
  BY DEF LogsInOrder
<1>2. E \subseteq Writes
  BY <1>1 DEF IsTable
<1>3. E # {}
  <2>1. from \in from..last
    OBVIOUS
  <2> QED
    BY <1>1, <2>1 DEF IsTable
<1>4. IsFiniteSet(E)
  <2>1. PICK f : f = [i \in from..last |-> record(i)]
    OBVIOUS
  <2>2. IsFiniteSet(DOMAIN f)
    BY <2>1, FS_Interval
  <2>3. IsFiniteSet({f[x] : x \in DOMAIN f})
    BY <2>2, ImageFinite
  <2>4. {f[x] : x \in DOMAIN f} = {record(i) : i \in from..last}
    BY <2>1
  <2>5. \A A \in {record(i) : i \in from..last} : IsFiniteSet(A)
    BY <1>1 DEF IsTable
  <2> QED
    BY <2>3, <2>4, <2>5, FS_UNION
<1>5. ASSUME NEW e \in E, NEW f \in E, e.key = f.key, e.seq = f.seq PROVE e = f
  <2>1. PICK i \in from..last : e \in record(i)
    OBVIOUS
  <2>2. PICK j \in from..last : f \in record(j)
    OBVIOUS
  <2>3. e.seq \in Nat /\ f.seq \in Nat
    BY <1>2 DEF Writes
  <2>4. ~(j < i) /\ ~(i < j)
    BY <1>1, <1>5, <2>1, <2>2, <2>3 DEF After
  <2>5. i = j
    BY <2>4
  <2> QED
    BY <1>1, <1>5, <2>1, <2>2, <2>5 DEF IsTable
<1> QED
  BY <1>2, <1>3, <1>4, <1>5 DEF IsTable, RecordsOf

(* A table of newer writes on top of a version.                            *)
OnTop(new, files, file) ==
    \A l \in Levels : \A f : f \in new[l] <=> f \in files[l] \/ (l = 0 /\ f = file)

(* A table of newer writes on level 0, with a number above all others,     *)
(* leaves a version in order.                                              *)
LEMMA TopSettles ==
  ASSUME NEW files, NEW d, NEW next \in Nat, SoundFiles(files, d.tables, next),
         NEW m \in Nat, NEW n \in Nat, m <= n, Settled(files, d, m),
         NEW E, IsTable(E), \A x \in E : x.seq <= n, After(E, Entries(d, files)),
         NEW e, e.tables = Put(d.tables, next, E),
         NEW file, file = FileMetaData(next, E), NEW new, OnTop(new, files, file)
  PROVE  Settled(new, e, n) /\ Entries(e, new) = Entries(d, files) \cup E
<1> USE DEF OnTop
<1>1. /\ DOMAIN e.tables = DOMAIN d.tables \cup {next} /\ e.tables[next] = E
      /\ \A k \in DOMAIN d.tables : k # next => e.tables[k] = d.tables[k]
  BY DEF Put
<1>2. file.number = next /\ TableEntries(e, file.number) = E /\ e.tables[file.number] = E
  BY <1>1 DEF FileMetaData, TableEntries
<1>3. \A l \in Levels : \A f \in files[l] :
         /\ f.number \in Nat /\ f.number < next
         /\ TableEntries(e, f.number) = TableEntries(d, f.number)
         /\ e.tables[f.number] = d.tables[f.number]
         /\ After(E, TableEntries(d, f.number))
  <2> SUFFICES ASSUME NEW l \in Levels, NEW f \in files[l]
               PROVE  /\ f.number \in Nat /\ f.number < next
                      /\ TableEntries(e, f.number) = TableEntries(d, f.number)
                      /\ e.tables[f.number] = d.tables[f.number]
                      /\ After(E, TableEntries(d, f.number))
    OBVIOUS
  <2>1. f.number \in Nat /\ f.number < next /\ f.number \in DOMAIN d.tables
    BY DEF SoundFiles, Sound
  <2>2. f.number # next
    BY <2>1
  <2>3. TableEntries(d, f.number) \subseteq Entries(d, files)
    BY EntriesAre
  <2> QED
    BY <1>1, <2>1, <2>2, <2>3 DEF TableEntries, After
<1>4. Levels \subseteq Nat /\ 0 \in Levels
  BY LevelDbAssumption DEF Levels
<1>5. ASSUME NEW k \in Levels, NEW l \in Levels, NEW f \in new[k], NEW g \in new[l],
             k < l \/ (k = 0 /\ l = 0 /\ f.number > g.number)
      PROVE  After(TableEntries(e, f.number), TableEntries(e, g.number))
  <2>1. g \in files[l]
    <3>1. CASE l = 0 /\ g = file
      <4>1. k = 0 /\ f.number > next
        BY <1>2, <1>4, <1>5, <3>1
      <4>2. f \in files[k] \/ f.number = next
        BY <1>2, <4>1
      <4>3. f.number \in Nat /\ f.number <= next
        BY <1>2, <1>3, <4>2
      <4> QED
        BY <4>1, <4>3
    <3> QED
      BY <3>1
  <2>2. CASE k = 0 /\ f = file
    BY <1>2, <1>3, <2>1, <2>2
  <2>3. CASE f \in files[k]
    <3>1. After(TableEntries(d, f.number), TableEntries(d, g.number))
      BY <1>5, <2>1, <2>3 DEF Settled, Layered
    <3> QED
      BY <1>3, <2>1, <2>3, <3>1
  <2> QED
    BY <2>2, <2>3
<1>6. Layered(e, new)
  <2>1. ASSUME NEW l \in Levels \ {0}, NEW f \in new[l], NEW g \in new[l], f # g
        PROVE  ~KeysMeet(f, g.smallest.key, g.largest.key)
    BY <2>1 DEF Settled, Layered
  <2> QED
    BY <1>5, <2>1 DEF Layered
<1>7. ASSUME NEW l \in Levels
      PROVE  /\ IsFiniteSet(new[l])
             /\ \A f \in new[l] : IsTable(e.tables[f.number])
                                  /\ \A x \in e.tables[f.number] : x.seq <= n
  <2>1. IsFiniteSet(new[l])
    <3>1. IsFiniteSet(files[l]) /\ IsFiniteSet(files[l] \cup {file})
      BY FS_AddElement DEF Settled
    <3>2. new[l] \subseteq files[l] \cup {file}
      OBVIOUS
    <3> QED
      BY <3>1, <3>2, FS_Subset
  <2>2. ASSUME NEW f \in files[l]
        PROVE  IsTable(d.tables[f.number]) /\ \A x \in d.tables[f.number] : x.seq <= n
    BY DEF Settled, IsTable, Writes
  <2> QED
    BY <1>2, <1>3, <2>1, <2>2
<1>8. Settled(new, e, n)
  BY <1>6, <1>7 DEF Settled
<1>9. ASSUME NEW x PROVE x \in Entries(e, new) <=> x \in Entries(d, files) \/ x \in E
  <2>1. x \in Entries(e, new) <=>
          \E l \in Levels : \E f \in new[l] : x \in TableEntries(e, f.number)
    BY EntriesAre
  <2>2. x \in Entries(d, files) <=>
          \E l \in Levels : \E f \in files[l] : x \in TableEntries(d, f.number)
    BY EntriesAre
  <2> QED
    BY <1>2, <1>3, <1>4, <2>1, <2>2
<1> QED
  BY <1>8, <1>9

(* MarkFileNumberUsed changes the next number only.                        *)
LEMMA NumberUsed ==
  ASSUME NEW s, IsVersionSet(s), s.next \in Nat, NEW number \in Nat
  PROVE  LET t == MarkFileNumberUsed(s, number)
         IN  /\ t.next \in Nat /\ s.next <= t.next /\ number < t.next
             /\ t.last = s.last /\ t.log = s.log /\ t.current = s.current
             /\ t.versions = s.versions
<1>1. PICK n : n = Max({s.next, number + 1})
  OBVIOUS
<1>2. n \in Nat /\ s.next <= n /\ number < n
  BY <1>1, MaxOfTwo
<1>3. MarkFileNumberUsed(s, number) = [s EXCEPT !.next = n]
  BY <1>1 DEF MarkFileNumberUsed
<1> QED
  BY <1>2, <1>3 DEF IsVersionSet

(* Records become a table, or a log turns out to be read.                  *)
LEMMA RecoverLogFileKeepsOrder == ASSUME IInv, OInv, RecoverLogFile PROVE OInv'
<1>1. /\ main = "logs" /\ main' = "logs" /\ rec.logs # {} /\ bg' = bg /\ bg = "idle"
      /\ contents' = contents
      /\ IsVersionSet(vs) /\ vs.next \in Nat /\ vs.next # 0 /\ IsRecovery(rec)
      /\ IsEdit(rec.edit) /\ SoundEdit(rec.edit, disk.tables, vs.next)
      /\ IsDisk(disk)
  BY DirectoryIs, IdleOutside
     DEF RecoverLogFile, IInv, Versions, Recovering, Opening, Running, Reading
<1>2. /\ rec.edit.deleted = {} /\ \A p \in rec.edit.added : p = <<0, p[2]>>
      /\ vs.log = LogOfDisk(disk) /\ vs.last = LastOfDisk(disk)
      /\ rec.logs \subseteq LogsToRead(disk)
      /\ \A n \in LogsToRead(disk) \ rec.logs : n < vs.next
      /\ rec.from \in Nat \ {0} /\ rec.max \in Nat
      /\ Settled(Recovered, disk, Max({vs.last, rec.max}))
      /\ After(Unread(disk, rec.logs, rec.from), Entries(disk, Recovered))
      /\ Stored(disk) = Entries(disk, Recovered) \cup Unread(disk, rec.logs, rec.from)
      /\ vs.last \in Nat
  BY <1>1 DEF OInv, InRecovery, InVersions, Opening
<1>3. LogsInOrder(disk, Entries(disk, BuiltFiles(disk)))
  BY IntactIs DEF OInv, Lasting
<1>4. rec.logs \in SUBSET Nat /\ LogsToRead(disk) \subseteq DOMAIN disk.logs
  BY <1>1, <1>2 DEF LogsToRead, IsDisk
<1>5. PICK log : log = Min(rec.logs)
  OBVIOUS
<1>6. log \in rec.logs /\ log \in Nat /\ log \in LogsToRead(disk)
  BY <1>1, <1>2, <1>4, <1>5, MinIn
<1>7. \A n \in rec.logs : disk.logs[n] \in Seq(SUBSET Writes)
  BY <1>2, <1>3 DEF LogsInOrder
<1>8. PICK size \in Nat : /\ size = Len(ReadRecords(disk.logs[log]))
                          /\ DOMAIN ReadRecords(disk.logs[log]) = 1..size
  BY <1>6, <1>7, RecordsAre
<1>9. PICK records : records = ReadRecords(disk.logs[log])
  OBVIOUS
<1>10. InTables' /\ InCompaction'
  BY <1>1 DEF InTables, InCompaction, Running, Reading
<1> DEFINE oldest == Min(rec.logs)
           read == ReadRecords(disk.logs[oldest])
           LogEnds == /\ rec.from > Len(read) /\ vs' = MarkFileNumberUsed(vs, oldest)
                      /\ rec' = [rec EXCEPT !.logs = @ \ {oldest}, !.from = 1]
                      /\ disk' = disk
           TableOf(last) ==
              LET E == UNION {read[i] : i \in rec.from..last}
                  added == {<<0, FileMetaData(vs.next, E)>>}
                  end == last = Len(read)
                  used == [vs EXCEPT !.next = @ + 1]
              IN  /\ disk' = [disk EXCEPT !.tables = Put(@, vs.next, E)]
                  /\ vs' = IF end THEN MarkFileNumberUsed(used, oldest) ELSE used
                  /\ rec' = [logs |-> IF end THEN rec.logs \ {oldest} ELSE rec.logs,
                             from |-> IF end THEN 1 ELSE last + 1,
                             edit |-> [rec.edit EXCEPT !.added = @ \cup added],
                             max |-> Max({rec.max} \cup {e.seq : e \in E})]
<1>11. CASE LogEnds
  <2>0. /\ rec.from > size /\ vs' = MarkFileNumberUsed(vs, log) /\ disk' = disk
        /\ rec' = [rec EXCEPT !.logs = @ \ {log}, !.from = 1]
    BY <1>5, <1>8, <1>11
  <2> HIDE DEF LogEnds
  <2>1. PICK logs : logs = rec.logs \ {log}
    OBVIOUS
  <2>2. rec'.logs = logs /\ rec'.from = 1 /\ rec'.edit = rec.edit /\ rec'.max = rec.max
    BY <1>1, <2>0, <2>1 DEF IsRecovery
  <2>3. /\ vs.next <= vs'.next /\ log < vs'.next /\ vs'.next \in Nat
        /\ vs'.last = vs.last /\ vs'.log = vs.log /\ vs'.current = vs.current
        /\ vs'.versions = vs.versions
    BY <1>1, <1>6, <2>0, NumberUsed
  <2>4. Unread(disk, rec.logs, rec.from) = Unread(disk, logs, 1)
    <3>1. RecordsOf(disk, log, rec.from, size) = {}
      BY <1>2, <1>8, <2>0 DEF RecordsOf
    <3>2. size = Len(ReadRecords(disk.logs[log])) /\ 1 \in Nat \ {0}
      BY <1>8
    <3>3. ReadsOn(disk, rec.logs, log, rec.from, size, logs, 1)
      BY <1>2, <1>4, <1>5, <1>6, <1>7, <2>1, <3>2 DEF ReadsOn
    <3>4. Unread(disk, rec.logs, rec.from) =
             RecordsOf(disk, log, rec.from, size) \cup Unread(disk, logs, 1)
      BY <3>3, ReadingOn
    <3> QED
      BY <3>1, <3>4
  <2>5. Recovered' = Recovered
    BY <2>2, <2>3 DEF Recovered, Current
  <2>6. Lasting'
    BY <1>1, <2>0 DEF OInv, Lasting
  <2>7. InVersions'
    BY <1>1, <2>0, <2>3 DEF OInv, InVersions, Running, Reading
  <2>8. \A n \in LogsToRead(disk) \ logs : n < vs'.next
    <3> SUFFICES ASSUME NEW n \in LogsToRead(disk) \ logs PROVE n < vs'.next
      OBVIOUS
    <3>1. n \in Nat /\ (n = log \/ n < vs.next)
      BY <1>1, <1>2, <1>4, <2>1 DEF IsDisk
    <3> QED
      BY <1>1, <2>3, <3>1
  <2>9. InRecovery'
    BY <1>1, <1>2, <2>0, <2>1, <2>2, <2>3, <2>4, <2>5, <2>8 DEF InRecovery, Opening
  <2> QED
    BY <1>10, <2>6, <2>7, <2>9 DEF OInv
<1>12. CASE \E last \in rec.from..Len(read) : TableOf(last)
  <2>1. PICK last \in rec.from..Len(read) : TableOf(last)
    BY <1>12
  <2>2. log = oldest /\ records = read /\ size = Len(read)
    BY <1>5, <1>8, <1>9
  <2>3. PICK E, max : /\ E = UNION {records[i] : i \in rec.from..last}
                      /\ max = Max({rec.max} \cup {e.seq : e \in E})
    OBVIOUS
  <2>4. PICK file, added, used, tables : /\ file = FileMetaData(vs.next, E)
                                         /\ added = rec.edit.added \cup {<<0, file>>}
                                         /\ used = [vs EXCEPT !.next = @ + 1]
                                         /\ tables = Put(disk.tables, vs.next, E)
    OBVIOUS
  <2>5. PICK logs, from : /\ last = size => logs = rec.logs \ {log} /\ from = 1
                          /\ last # size => logs = rec.logs /\ from = last + 1
    <3>1. CASE last = size
      BY <3>1
    <3>2. CASE last # size
      BY <3>2
    <3> QED
      BY <3>1, <3>2
  <2>6. disk' = [disk EXCEPT !.tables = tables]
    BY <2>1, <2>2, <2>3, <2>4
  <2>7. /\ last = size => vs' = MarkFileNumberUsed(used, log)
        /\ last # size => vs' = used
    BY <2>1, <2>2, <2>3, <2>4
  <2>8. rec' = [logs |-> logs, from |-> from,
                edit |-> [rec.edit EXCEPT !.added = added], max |-> max]
    <3>1. CASE last = size
      <4>1. rec' = [logs |-> rec.logs \ {oldest}, from |-> 1,
                    edit |-> [rec.edit EXCEPT !.added = @ \cup {<<0, FileMetaData(vs.next, E)>>}],
                    max |-> Max({rec.max} \cup {e.seq : e \in E})]
        BY <2>1, <2>2, <2>3, <3>1
      <4> QED
        BY ONLY <2>2, <2>3, <2>4, <2>5, <3>1, <4>1
    <3>2. CASE last # size
      <4>1. rec' = [logs |-> rec.logs, from |-> last + 1,
                    edit |-> [rec.edit EXCEPT !.added = @ \cup {<<0, FileMetaData(vs.next, E)>>}],
                    max |-> Max({rec.max} \cup {e.seq : e \in E})]
        BY <2>1, <2>2, <2>3, <3>2
      <4> QED
        BY ONLY <2>2, <2>3, <2>4, <2>5, <3>2, <4>1
    <3> QED
      BY <3>1, <3>2
  <2> HIDE DEF TableOf
  <2>9. /\ IsVersionSet(used) /\ used.next = vs.next + 1 /\ used.last = vs.last
        /\ used.log = vs.log /\ used.current = vs.current /\ used.versions = vs.versions
    BY <1>1, <2>4 DEF IsVersionSet
  <2>10. /\ vs.next < vs'.next /\ vs'.next \in Nat
         /\ vs'.last = vs.last /\ vs'.log = vs.log /\ vs'.current = vs.current
         /\ vs'.versions = vs.versions
         /\ last = size => log < vs'.next
    <3>1. CASE last = size
      <4>1. vs' = MarkFileNumberUsed(used, log) /\ used.next \in Nat
        BY <1>1, <2>7, <2>9, <3>1
      <4>2. /\ vs'.next \in Nat /\ used.next <= vs'.next /\ log < vs'.next
            /\ vs'.last = used.last /\ vs'.log = used.log /\ vs'.current = used.current
            /\ vs'.versions = used.versions
        BY <1>6, <2>9, <4>1, NumberUsed
      <4> QED
        BY <1>1, <2>9, <4>2
    <3>2. CASE last # size
      BY <1>1, <2>7, <2>9, <3>2
    <3> QED
      BY <3>1, <3>2
  <2>11. /\ disk' = [current |-> disk.current, manifests |-> disk.manifests, tables |-> tables,
                    logs |-> disk.logs, temps |-> disk.temps]
    BY <1>1, <2>6 DEF IsDisk
  <2>12. /\ rec'.logs = logs /\ rec'.from = from /\ rec'.max = max
         /\ rec'.edit.added = added /\ rec'.edit.deleted = {}
    BY <1>1, <1>2, <2>8 DEF IsEdit
  <2>13. last \in Nat /\ rec.from <= last /\ last <= size
    BY <1>2, <1>5, <1>8, <2>1
  <2>14. from \in Nat \ {0}
    BY <2>5, <2>13
  <2>15. /\ Unread(disk, rec.logs, rec.from) = E \cup Unread(disk, logs, from)
         /\ \A n, i : <<n, i>> \in RecordsLeft(disk, logs, from) =>
               /\ n \in rec.logs /\ i \in DOMAIN ReadRecords(disk.logs[n])
               /\ log < n \/ (log = n /\ last < i)
         /\ \A i \in rec.from..last : i \in DOMAIN ReadRecords(disk.logs[log])
    <3>1. \/ /\ last = Len(ReadRecords(disk.logs[log])) /\ logs = rec.logs \ {log} /\ from = 1
          \/ /\ last < Len(ReadRecords(disk.logs[log])) /\ logs = rec.logs /\ from = last + 1
             /\ rec.from <= last
      BY <1>8, <2>5, <2>13
    <3>2. ReadsOn(disk, rec.logs, log, rec.from, last, logs, from)
      BY <1>2, <1>4, <1>5, <1>6, <1>7, <2>13, <2>14, <3>1 DEF ReadsOn
    <3> QED
      BY <1>9, <2>3, <3>2, ReadingOn DEF RecordsOf
  <2>16. IsTable(E)
    <3>1. IsTable(RecordsOf(disk, log, rec.from, last))
      BY <1>2, <1>3, <1>6, <2>13, <2>15, TableOfRecords
    <3> QED
      BY <1>9, <2>3, <3>1 DEF RecordsOf
  <2>17. max \in Nat /\ rec.max <= max /\ \A x \in E : x.seq <= max
    <3>1. PICK S : S = {rec.max} \cup {e.seq : e \in E}
      OBVIOUS
    <3>2. S \subseteq Nat /\ S # {}
      BY <1>2, <2>16, <3>1 DEF IsTable, Writes
    <3>3. IsFiniteSet(S)
      <4>1. PICK f : f = [e \in E |-> e.seq]
        OBVIOUS
      <4>2. IsFiniteSet({f[x] : x \in DOMAIN f})
        BY <2>16, <4>1, ImageFinite DEF IsTable
      <4>3. {f[x] : x \in DOMAIN f} = {e.seq : e \in E}
        BY <4>1
      <4>4. S = {e.seq : e \in E} \cup {rec.max}
        BY <3>1
      <4> QED
        BY <4>2, <4>3, <4>4, FS_AddElement
    <3>4. Max(S) \in S /\ \A x \in S : x <= Max(S)
      BY <3>2, <3>3, MaxIn
    <3> QED
      BY <2>3, <3>1, <3>2, <3>4
  <2>18. PICK m \in Nat, n \in Nat : /\ m = Max({vs.last, rec.max}) /\ n = Max({vs.last, max})
                                     /\ m <= n /\ max <= n
    <3>1. Max({vs.last, rec.max}) = IF vs.last >= rec.max THEN vs.last ELSE rec.max
      BY <1>2, MaxOfTwo
    <3>2. Max({vs.last, max}) = IF vs.last >= max THEN vs.last ELSE max
      BY <1>2, <2>17, MaxOfTwo
    <3> QED
      BY <1>2, <2>17, <3>1, <3>2
  <2>19. SoundFiles(Recovered, disk.tables, vs.next)
    BY <1>1, CurrentIn, ApplyEditSound DEF Recovered
  <2>20. After(E, Entries(disk, Recovered))
         /\ After(Unread(disk, logs, from), Entries(disk, Recovered))
    BY <1>2, <2>15 DEF After
  <2>21. OnTop(Recovered', Recovered, file)
    <3> SUFFICES ASSUME NEW l \in Levels, NEW f
                 PROVE  f \in Recovered'[l] <=> f \in Recovered[l] \/ (l = 0 /\ f = file)
      BY DEF OnTop
    <3>1. PICK files, old, new : /\ files = Current(vs).files /\ old = rec.edit /\ new = rec'.edit
      OBVIOUS
    <3>2. Recovered = ApplyEdit(files, old) /\ Recovered' = ApplyEdit(files, new)
      BY <2>10, <3>1 DEF Recovered, Current
    <3>3. f \in ApplyEdit(files, old)[l] <=>
             \/ f \in files[l] /\ <<l, f.number>> \notin old.deleted
             \/ \E q \in old.added : q[1] = l /\ q[2] = f
      BY ApplyEditIs
    <3>4. f \in ApplyEdit(files, new)[l] <=>
             \/ f \in files[l] /\ <<l, f.number>> \notin new.deleted
             \/ \E q \in new.added : q[1] = l /\ q[2] = f
      BY ApplyEditIs
    <3>5. old.deleted = {} /\ new.deleted = {} /\ new.added = old.added \cup {<<0, file>>}
      BY <1>2, <2>4, <2>12, <3>1
    <3>6. <<0, file>>[1] = 0 /\ <<0, file>>[2] = file
      OBVIOUS
    <3>7. (\E q \in new.added : q[1] = l /\ q[2] = f) <=>
             (\E q \in old.added : q[1] = l /\ q[2] = f) \/ (l = 0 /\ f = file)
      BY <3>5, <3>6
    <3> QED
      BY <3>2, <3>3, <3>4, <3>5, <3>7
  <2>22. /\ Settled(Recovered', disk', n)
         /\ Entries(disk', Recovered') = Entries(disk, Recovered) \cup E
    <3>1. PICK old, new, next, e : /\ old = Recovered /\ new = Recovered'
                                   /\ next = vs.next /\ e = disk'
      OBVIOUS
    <3>2. \A x \in E : x.seq <= n
      BY <2>16, <2>17, <2>18 DEF IsTable, Writes
    <3>3. e.tables = Put(disk.tables, next, E) /\ next \in Nat /\ file = FileMetaData(next, E)
      BY <1>1, <2>4, <2>11, <3>1
    <3>4. SoundFiles(old, disk.tables, next) /\ Settled(old, disk, m) /\ m <= n
          /\ After(E, Entries(disk, old))
      BY <1>2, <2>18, <2>19, <2>20, <3>1
    <3>5. OnTop(new, old, file)
      BY <2>21, <3>1
    <3>6. Settled(new, e, n) /\ Entries(e, new) = Entries(disk, old) \cup E
      BY <2>16, <3>2, <3>3, <3>4, <3>5, TopSettles
    <3> QED
      BY <3>1, <3>6
  <2>23. Unread(disk', logs, from) = Unread(disk, logs, from)
    BY <2>11 DEF Unread, RecordsLeft
  <2>24. After(Unread(disk, logs, from), E)
    <3> SUFFICES ASSUME NEW x \in Unread(disk, logs, from), NEW y \in E, y.key = x.key
                 PROVE  x.seq > y.seq
      BY DEF After
    <3>1. PICK k \in logs : \E i \in DOMAIN ReadRecords(disk.logs[k]) :
             /\ k = Min(logs) => i >= from
             /\ x \in ReadRecords(disk.logs[k])[i]
      BY UnreadAre
    <3>2. PICK i \in DOMAIN ReadRecords(disk.logs[k]) :
             /\ k = Min(logs) => i >= from
             /\ x \in ReadRecords(disk.logs[k])[i]
      BY <3>1
    <3>3. <<k, i>> \in RecordsLeft(disk, logs, from)
      BY <3>2, RecordsLeftAre
    <3>4. k \in rec.logs /\ (log < k \/ (log = k /\ last < i))
      BY <2>15, <3>3
    <3>5. PICK j \in rec.from..last : y \in ReadRecords(disk.logs[log])[j]
      BY <1>9, <2>3
    <3>6. j \in DOMAIN ReadRecords(disk.logs[log])
      BY <2>15
    <3>7. i \in Nat
      BY <1>7, <3>4, RecordsAre
    <3>8. log < k \/ (log = k /\ j < i)
      BY <1>2, <2>13, <3>4, <3>7
    <3>9. After(ReadRecords(disk.logs[k])[i], ReadRecords(disk.logs[log])[j])
      BY <1>2, <1>3, <1>6, <3>4, <3>6, <3>8 DEF LogsInOrder
    <3> QED
      BY <3>2, <3>5, <3>9 DEF After
  <2>25. /\ \A files : SoundFiles(files, disk.tables, vs.next) => SameTables(files, disk, disk')
    <3> SUFFICES ASSUME NEW files, SoundFiles(files, disk.tables, vs.next)
                 PROVE  SameTables(files, disk, disk')
      OBVIOUS
    <3>1. \A l \in Levels : \A f \in files[l] : f.number # vs.next
      BY <1>1 DEF SoundFiles, Sound
    <3>2. disk'.tables = Put(disk.tables, vs.next, E)
      BY <2>4, <2>11
    <3> QED
      BY <3>1, <3>2, PutKeepsTables
  <2>26. SameManifest(disk, disk') /\ SameTables(BuiltFiles(disk), disk, disk')
         /\ SameRecords(disk, disk')
    <3>1. SameManifest(disk, disk') /\ disk'.logs = disk.logs
      BY <2>11 DEF SameManifest
    <3>2. BuiltFiles(disk) = Current(vs).files
      BY <1>1 DEF IInv, Recovering, Opening, BuiltFiles
    <3> QED
      BY <2>25, <3>1, <3>2, CurrentIn, SameLogs
  <2>27. Lasting' /\ Stored(disk') = Stored(disk)
    BY <1>1, <2>26, LastingStays
  <2>28. InVersions'
    <3>1. \A v \in DOMAIN vs.versions : Settled(vs.versions[v].files, disk', vs.last)
      BY <2>25, VersionsStaySettled DEF IInv, Versions
    <3> QED
      BY <1>1, <2>10, <3>1 DEF OInv, InVersions, Running, Reading
  <2>29. LogOfDisk(disk') = LogOfDisk(disk) /\ LastOfDisk(disk') = LastOfDisk(disk)
         /\ LogsToRead(disk') = LogsToRead(disk)
    BY <2>11, <2>26, SameManifestReads DEF LogOfDisk, LastOfDisk, LogsToRead
  <2>30. \A k \in LogsToRead(disk) \ logs : k < vs'.next
    <3> SUFFICES ASSUME NEW k \in LogsToRead(disk) \ logs PROVE k < vs'.next
      OBVIOUS
    <3>1. k \in Nat /\ ((k = log /\ last = size) \/ k < vs.next)
      BY <1>1, <1>2, <1>4, <2>5 DEF IsDisk
    <3> QED
      BY <1>1, <2>10, <3>1
  <2>31. InRecovery'
    <3>0. <<0, file>> = <<0, <<0, file>>[2]>>
      OBVIOUS
    <3>1. rec'.edit.deleted = {} /\ \A p \in rec'.edit.added : p = <<0, p[2]>>
      BY <1>2, <2>4, <2>12, <3>0
    <3>2. rec'.logs \subseteq LogsToRead(disk')
      BY <1>2, <2>5, <2>12, <2>29
    <3>3. /\ After(Unread(disk', logs, from), Entries(disk', Recovered'))
          /\ Stored(disk') = Entries(disk', Recovered') \cup Unread(disk', logs, from)
      BY <1>2, <2>15, <2>20, <2>22, <2>23, <2>24, <2>27 DEF After
    <3> QED
      BY <1>1, <1>2, <2>10, <2>12, <2>14, <2>17, <2>18, <2>22, <2>29, <2>30, <3>1, <3>2, <3>3
         DEF InRecovery, Opening
  <2> QED
    BY <1>10, <2>27, <2>28, <2>31 DEF OInv
<1>13. LogEnds \/ \E last \in rec.from..Len(read) : TableOf(last)
  BY Zenon DEF RecoverLogFile
<1> QED
  BY <1>11, <1>12, <1>13, Zenon

(* When the logs are read the new log is empty, and no other counts.       *)
LEMMA NewLogKeepsOrder == ASSUME IInv, OInv, NewLog PROVE OInv'
<1>1. /\ main = "logs" /\ main' = "manifest" /\ rec.logs = {} /\ bg' = bg /\ bg = "idle"
      /\ contents' = contents /\ rec' = rec
      /\ IsVersionSet(vs) /\ vs.next \in Nat /\ IsDisk(disk)
      /\ vs.manifest = NextOf(disk) /\ vs.manifest < vs.next /\ vs.manifest \in Nat
      /\ BuiltFiles(disk) = Current(vs).files
  BY DirectoryIs, IdleOutside
     DEF NewLog, IInv, Versions, Recovering, Opening, Running, Reading, NextField, NextOf,
         BuiltFiles
<1>2. /\ rec.edit.deleted = {} /\ \A p \in rec.edit.added : p = <<0, p[2]>>
      /\ vs.log = LogOfDisk(disk) /\ vs.last = LastOfDisk(disk)
      /\ \A n \in LogsToRead(disk) \ rec.logs : n < vs.next
      /\ rec.max \in Nat /\ vs.last \in Nat
      /\ Settled(Recovered, disk, Max({vs.last, rec.max}))
      /\ Stored(disk) = Entries(disk, Recovered) \cup Unread(disk, rec.logs, rec.from)
  BY <1>1 DEF OInv, InRecovery, InVersions, Opening
<1>3. LogOfDisk(disk) <= vs.manifest /\ LogOfDisk(disk) \in Nat \cup {Absent}
  BY <1>1, IntactIs DEF OInv, Lasting
<1>4. PICK last : last = Max({vs.last, rec.max})
  OBVIOUS
<1>5. last \in Nat /\ vs.last <= last
  BY <1>2, <1>4, MaxOfTwo
<1>6. PICK next : next = vs.next + 1 /\ vs' = [vs EXCEPT !.next = next, !.last = last]
  BY <1>4 DEF NewLog
<1>7. vs'.last = last /\ vs'.current = vs.current /\ vs'.versions = vs.versions
  BY <1>1, <1>6 DEF IsVersionSet
<1>8. PICK logs : logs = Put(disk.logs, vs.next, << >>)
  OBVIOUS
<1>9. disk' = [current |-> disk.current, manifests |-> disk.manifests, tables |-> disk.tables,
               logs |-> logs, temps |-> disk.temps]
  BY <1>1, <1>8 DEF NewLog, IsDisk
<1>10. /\ DOMAIN logs = DOMAIN disk.logs \cup {vs.next} /\ logs[vs.next] = << >>
       /\ \A n \in DOMAIN disk.logs : n # vs.next => logs[n] = disk.logs[n]
  BY <1>8 DEF Put
<1>11. SameManifest(disk, disk') /\ \A files : SameTables(files, disk, disk')
  BY <1>9 DEF SameManifest, SameTables
<1>12. Manifest(disk') = Manifest(disk)
  BY <1>11, SameManifestReads
<1>13. LogsToRead(disk) = {n \in DOMAIN disk.logs : n >= LogOfDisk(disk)}
       /\ LogsToRead(disk') = {n \in DOMAIN logs : n >= LogOfDisk(disk)}
  BY <1>9, <1>12 DEF LogsToRead, LogOfDisk
<1>14. DOMAIN disk.logs \subseteq Nat /\ \A n \in LogsToRead(disk) : n < vs.next
  BY <1>1, <1>2 DEF IsDisk
<1>15. SameRecords(disk, disk')
  <2>1. \A n \in LogsToRead(disk) : n \in LogsToRead(disk') /\ disk'.logs[n] = disk.logs[n]
    BY <1>1, <1>9, <1>10, <1>13, <1>14
  <2>2. \A n \in LogsToRead(disk') :
           disk'.logs[n] = << >> \/ (n \in LogsToRead(disk) /\ disk'.logs[n] = disk.logs[n])
    BY <1>1, <1>9, <1>10, <1>13, <1>14
  <2> QED
    BY <2>1, <2>2 DEF SameRecords
<1>16. Lasting' /\ Stored(disk') = Stored(disk)
  BY <1>1, <1>11, <1>15, LastingStays
<1>17. InVersions'
  <2>1. ASSUME NEW v \in DOMAIN vs.versions PROVE Settled(vs.versions[v].files, disk', last)
    <3>1. Settled(vs.versions[v].files, disk', vs.last)
      BY <1>11, VersionsStaySettled
    <3> QED
      BY <1>2, <1>5, <3>1, SettledLater
  <2> QED
    BY <1>1, <1>5, <1>7, <2>1 DEF OInv, InVersions, Running, Reading
<1>18. InRecovery'
  <2>1. db'.logfile = vs.next
    <3>1. \E s, e, g, h, k : db = [scheduled |-> s, shutting |-> e, error |-> g,
                                   pending |-> h, logfile |-> k]
      BY DEF IInv, Control
    <3> QED
      BY <3>1 DEF NewLog
  <2>2. NothingLogged(disk', vs.next)
    <3> SUFFICES ASSUME NEW n \in DOMAIN logs, n >= vs.next PROVE logs[n] = << >>
      BY <1>9 DEF NothingLogged
    <3>1. CASE n = vs.next
      BY <1>10, <3>1
    <3>2. CASE n # vs.next
      <4>1. n \in DOMAIN disk.logs /\ n \in Nat
        BY <1>10, <1>14, <3>2
      <4>2. n >= LogOfDisk(disk)
        BY <1>1, <1>3, <4>1 DEF Absent
      <4> QED
        BY <1>1, <1>13, <1>14, <4>1, <4>2
    <3> QED
      BY <3>1, <3>2
  <2>3. Recovered' = Recovered
    BY <1>1, <1>7 DEF Recovered, Current
  <2>4. SoundFiles(Recovered, disk.tables, vs.next)
    BY <1>1, CurrentIn, ApplyEditSound DEF Recovered, IInv, Recovering, Opening
  <2>5. Settled(Recovered, disk', last) /\ Entries(disk', Recovered) = Entries(disk, Recovered)
    BY <1>2, <1>4, <1>11, <2>4, SettledStays
  <2>6. Unread(disk, rec.logs, rec.from) = {}
    BY <1>1, UnreadAre
  <2>7. Stored(disk') = Entries(disk', Recovered')
    BY <1>2, <1>16, <2>3, <2>5, <2>6
  <2> QED
    BY <1>1, <1>2, <1>7, <2>1, <2>2, <2>3, <2>5, <2>7 DEF InRecovery, Opening
<1>19. InTables' /\ InCompaction'
  BY <1>1 DEF InTables, InCompaction, Running, Reading
<1> QED
  BY <1>16, <1>17, <1>18, <1>19 DEF OInv

(* CURRENT is switched: all that is stored is in the tables of the version *)
(* that the new manifest describes.                                        *)
LEMMA RenameAndInstallKeepsOrder == ASSUME IInv, OInv, RenameAndInstall PROVE OInv'
<1>1. /\ IsDisk(disk) /\ main = "rename" /\ main' = "opened" /\ ManifestToSet = vs.manifest
      /\ UNCHANGED <<contents, db, bg, c, iter, runs, faults>>
      /\ IsVersionSet(vs) /\ vs.next \in Nat /\ vs.manifest \in Nat
      /\ IsEdit(rec.edit) /\ SoundEdit(rec.edit, disk.tables, vs.next)
      /\ Referenced(vs, c.version, iter.version)
  BY DirectoryIs DEF IInv, RenameAndInstall, ManifestToSet, Versions, Recovering, Opening
<1>2. bg = "idle" /\ c.version = 0 /\ iter.version = 0 /\ db.logfile \in 0..vs.next
  BY <1>1 DEF IInv, Control, NoCompaction, NoIterator, Running, Reading
<1>3. /\ db.logfile \in Nat /\ NothingLogged(disk, db.logfile)
      /\ Settled(Recovered, disk, vs.last) /\ vs.last \in Nat
      /\ Stored(disk) = Entries(disk, Recovered)
  BY <1>1 DEF OInv, InRecovery, InVersions, Opening
<1>4. PICK temps : disk' = [current |-> vs.manifest, manifests |-> disk.manifests,
                            tables |-> disk.tables, logs |-> disk.logs, temps |-> temps]
  <2>1. PICK rest : rest = disk.temps \ {ManifestToSet}
    OBVIOUS
  <2> QED
    BY <1>1, <2>1 DEF RenameAndInstall, Renamed, IsDisk
<1>5. PICK files, snapshot, edit :
         /\ files = Current(vs).files /\ snapshot = WriteSnapshot(files)
         /\ edit = Completed(rec.edit, vs, db.logfile)
  OBVIOUS
<1>6. files = [l \in Levels |-> files[l]]
  BY <1>1, <1>5 DEF IInv, Versions, IsVersionSet, Current, Referenced
<1>7. Manifest(disk') = <<snapshot, edit>>
  BY <1>1, <1>4, <1>5 DEF IInv, Recovering, Manifest
<1>8. /\ edit["next"] = vs.next /\ edit["log"] = db.logfile /\ edit["last"] = vs.last
      /\ edit.added = rec.edit.added /\ edit.deleted = rec.edit.deleted
  BY <1>1, <1>5 DEF Completed, IsEdit
<1>9. BuiltFiles(disk') = Recovered
  <2>1. BuildVersion(<<snapshot, edit>>) = ApplyEdit(files, edit)
    BY <1>5, <1>6, BuildSnapshot
  <2>2. ApplyEdit(files, edit) = ApplyEdit(files, rec.edit)
    BY <1>8 DEF ApplyEdit
  <2> QED
    BY <1>5, <1>7, <2>1, <2>2 DEF BuiltFiles, Recovered
<1>10. PICK S, two : S = {snapshot, edit} /\ two = <<snapshot, edit>>
  OBVIOUS
<1>11. two \in Seq(S) /\ Len(two) = 2 /\ two[2] = edit
  BY <1>10
<1>12. /\ LastField(two, "next") = vs.next /\ LastField(two, "log") = db.logfile
       /\ LastField(two, "last") = vs.last
  <2>1. ASSUME NEW field, edit[field] # Absent PROVE LastField(two, field) = edit[field]
    <3>1. Len(two) > 0 /\ two[Len(two)][field] # Absent
      BY <1>11, <2>1
    <3>2. LastField(two, field) = two[Len(two)][field]
      BY ONLY <1>11, <3>1, LastFieldIs
    <3> QED
      BY <1>11, <3>2
  <2> QED
    BY <1>1, <1>3, <1>8, <2>1 DEF Absent
<1>13. SoundFiles(Recovered, disk.tables, vs.next) /\ disk'.tables = disk.tables
  BY <1>1, <1>4, CurrentIn, ApplyEditSound DEF Recovered
<1>14. Settled(Recovered, disk', vs.last) /\ Entries(disk', Recovered) = Entries(disk, Recovered)
  <2>1. SameTables(Recovered, disk, disk')
    BY <1>13 DEF SameTables
  <2> QED
    BY <1>3, <1>13, <2>1, SettledStays
<1>15. /\ LastOfDisk(disk') = vs.last /\ LogOfDisk(disk') = db.logfile /\ NextOf(disk') = vs.next
       /\ \A field \in {"log", "next", "last"} : LastField(Manifest(disk'), field) # Absent
  BY <1>1, <1>3, <1>7, <1>10, <1>12 DEF LastOfDisk, LogOfDisk, NextOf, Absent
<1>16. NothingLogged(disk', db.logfile)
  BY <1>3, <1>4 DEF NothingLogged
<1>17. Intact(disk') /\ Stored(disk') = Entries(disk', BuiltFiles(disk'))
  <2>1. PICK d, next : d = disk' /\ next = vs.next
    OBVIOUS
  <2>2. /\ SoundFiles(BuiltFiles(d), d.tables, next)
        /\ \A field \in {"log", "next", "last"} : LastField(Manifest(d), field) # Absent
        /\ LastOfDisk(d) \in Nat /\ LogOfDisk(d) \in Nat /\ LogOfDisk(d) <= NextOf(d)
        /\ Settled(BuiltFiles(d), d, LastOfDisk(d)) /\ NothingLogged(d, LogOfDisk(d))
    BY <1>2, <1>3, <1>9, <1>13, <1>14, <1>15, <1>16, <2>1
  <2>3. Intact(d) /\ Stored(d) = Entries(d, BuiltFiles(d))
    BY <2>2, IntactInTables
  <2> QED
    BY <2>1, <2>3
<1>18. Lasting' /\ Visible(Entries(disk', Recovered)) = contents'
  BY <1>1, <1>3, <1>9, <1>14, <1>17 DEF OInv, Lasting
<1>19. PICK t : t = AppendVersion(vs, rec.edit)
  OBVIOUS
<1>20. /\ IsVersionSet(t) /\ Referenced(t, 0, 0) /\ t.last = vs.last
       /\ Current(t).files = ApplyEdit(files, rec.edit) /\ Current(t).seek = {}
  BY <1>1, <1>2, <1>5, <1>19, AppendVersionCounts
<1>21. vs' = [t EXCEPT !.log = db.logfile]
  BY <1>19 DEF RenameAndInstall
<1>22. /\ vs'.last = vs.last /\ vs'.log = db.logfile
       /\ vs'.current = t.current /\ vs'.versions = t.versions
  BY <1>20, <1>21 DEF IsVersionSet
<1>23. InVersions'
  <2>1. DOMAIN vs'.versions = {t.current}
    BY <1>20, <1>22 DEF Referenced
  <2>2. vs'.versions[t.current].files = Recovered /\ vs'.versions[t.current].seek = {}
    BY <1>5, <1>20, <1>22 DEF Current, Recovered
  <2> QED
    BY <1>3, <1>14, <1>18, <1>22, <2>1, <2>2 DEF InVersions
<1>24. InTables'
  BY <1>3, <1>15, <1>16, <1>22 DEF InTables
<1>25. InRecovery' /\ InCompaction'
  BY <1>1, <1>2 DEF InRecovery, InCompaction, Opening
<1> QED
  BY <1>18, <1>23, <1>24, <1>25 DEF OInv

(* While the program runs: nothing is stored that is not in tables, and    *)
(* logs may go.                                                            *)
LEMMA LogsMayGo ==
  ASSUME OInv, main \in Running, NEW e, SameManifest(disk, e),
         \A n \in DOMAIN e.logs : n \in DOMAIN disk.logs /\ e.logs[n] = disk.logs[n]
  PROVE  SameRecords(disk, e) /\ NothingLogged(e, vs.log) /\ Manifest(e) = Manifest(disk)
<1>1. Manifest(e) = Manifest(disk)
  BY SameManifestReads
<1>2. LogOfDisk(disk) = vs.log /\ NothingLogged(disk, vs.log)
  BY DEF OInv, InTables
<1>3. NothingLogged(e, vs.log)
  BY <1>2 DEF NothingLogged
<1>4. \A n \in LogsToRead(disk) : disk.logs[n] = << >>
  BY <1>2 DEF NothingLogged, LogsToRead, LogOfDisk
<1>5. \A n \in LogsToRead(e) : e.logs[n] = << >>
  BY <1>1, <1>2, <1>3 DEF NothingLogged, LogsToRead, LogOfDisk
<1> QED
  BY <1>1, <1>3, <1>4, <1>5 DEF SameRecords

(* So while the program runs the directory keeps what it holds, and        *)
(* recovery has nothing to do.                                             *)
LEMMA RunningStaysStored ==
  ASSUME IInv, OInv, main \in Running, main' \in Running, contents' = contents,
         SameManifest(disk, disk'), SameTables(BuiltFiles(disk), disk, disk'),
         \A n \in DOMAIN disk'.logs : n \in DOMAIN disk.logs /\ disk'.logs[n] = disk.logs[n],
         vs'.last = vs.last, vs'.log = vs.log
  PROVE  Lasting' /\ InRecovery' /\ InTables'
<1>1. LastOfDisk(disk) = vs.last /\ LogOfDisk(disk) = vs.log /\ vs.log \in Nat
  BY DEF OInv, InTables
<1>2. /\ SameRecords(disk, disk') /\ NothingLogged(disk', vs.log)
      /\ Manifest(disk') = Manifest(disk)
  BY LogsMayGo
<1>3. Lasting'
  BY <1>2, LastingStays
<1>4. InRecovery' /\ InTables'
  BY <1>1, <1>2 DEF InRecovery, InTables, Opening, Running, Reading, LastOfDisk, LogOfDisk
<1> QED
  BY <1>3, <1>4

(* A step that takes no table from a version keeps all versions in order.  *)
LEMMA RunningKeepsOrder ==
  ASSUME IInv, OInv, main \in Running, main' \in Running, contents' = contents,
         SameManifest(disk, disk'),
         \A n \in DOMAIN disk'.logs : n \in DOMAIN disk.logs /\ disk'.logs[n] = disk.logs[n],
         SameTables(BuiltFiles(disk), disk, disk'),
         \A v \in DOMAIN vs.versions : SameTables(vs.versions[v].files, disk, disk'),
         vs'.last = vs.last, vs'.log = vs.log,
         \A v \in DOMAIN vs'.versions :
            /\ v \in DOMAIN vs.versions /\ vs'.versions[v].files = vs.versions[v].files
            /\ \A p \in vs'.versions[v].seek : p[1] # MaxLevel
  PROVE  Lasting' /\ InVersions' /\ InRecovery' /\ InTables'
<1>1. Lasting' /\ InRecovery' /\ InTables'
  BY RunningStaysStored
<1>2. \A v \in DOMAIN vs.versions :
         /\ Settled(vs.versions[v].files, disk', vs.last)
         /\ Visible(Entries(disk', vs.versions[v].files)) = contents
  BY VersionsStaySettled DEF OInv, InVersions
<1>3. vs.last \in Nat
  BY DEF OInv, InVersions
<1>4. InVersions'
  BY <1>2, <1>3 DEF InVersions
<1> QED
  BY <1>1, <1>4

(* The same for a step that leaves the directory alone.                    *)
LEMMA ReadingKeepsOrder ==
  ASSUME IInv, OInv, main \in Running, main' \in Running, contents' = contents,
         disk' = disk, bg' = bg, c' = c,
         vs'.last = vs.last, vs'.log = vs.log, Current(vs').files = Current(vs).files,
         \A v \in DOMAIN vs'.versions :
            /\ v \in DOMAIN vs.versions /\ vs'.versions[v].files = vs.versions[v].files
            /\ \A p \in vs'.versions[v].seek : p[1] # MaxLevel
  PROVE  OInv'
<1>1. /\ SameManifest(disk, disk') /\ \A files : SameTables(files, disk, disk')
  BY DEF SameManifest, SameTables
<1>2. Lasting' /\ InVersions' /\ InRecovery' /\ InTables'
  BY <1>1, RunningKeepsOrder
<1>3. InCompaction'
  BY DEF OInv, InCompaction
<1> QED
  BY <1>2, <1>3 DEF OInv

(* Ref and Unref leave versions and files alone.                           *)
LEMMA HandlingKeepsOrder ==
  ASSUME IInv, OInv, main \in Running, main' \in Running, contents' = contents,
         disk' = disk, bg' = bg, c' = c, SameVersions(vs, vs'), vs.current \in DOMAIN vs'.versions
  PROVE  OInv'
<1>1. \A v \in DOMAIN vs'.versions :
         /\ v \in DOMAIN vs.versions /\ vs'.versions[v].files = vs.versions[v].files
         /\ \A p \in vs'.versions[v].seek : p[1] # MaxLevel
  BY DEF SameVersions, OInv, InVersions
<1>2. Current(vs').files = Current(vs).files /\ vs'.last = vs.last /\ vs'.log = vs.log
  BY DEF SameVersions, Current
<1> QED
  BY <1>1, <1>2, ReadingKeepsOrder

(* The reading thread: it refers to a version,                             *)
LEMMA NewIteratorKeepsOrder == ASSUME IInv, OInv, NewIterator PROVE OInv'
<1>1. SameVersions(vs, vs') /\ DOMAIN vs'.versions = DOMAIN vs.versions
  BY CurrentIn, RefCounts DEF NewIterator, IInv, Versions
<1>2. main \in Running /\ main' \in Running /\ UNCHANGED <<contents, disk, bg, c>>
  BY DEF NewIterator, Running, Reading
<1> QED
  BY <1>1, <1>2, CurrentIn, HandlingKeepsOrder

(* and no longer does;                                                     *)
LEMMA DeleteIteratorKeepsOrder == ASSUME IInv, OInv, DeleteIterator PROVE OInv'
<1>1. main \in Running /\ main' \in Running /\ UNCHANGED <<contents, disk, bg, c>>
      /\ iter.version # 0 /\ vs' = Unref(vs, iter.version)
  BY DEF DeleteIterator, Running, Reading, IInv, Control
<1>2. IsVersionSet(vs) /\ Referenced(vs, c.version, iter.version)
      /\ iter.version \in DOMAIN vs.versions
  BY <1>1 DEF IInv, Versions, Referenced
<1>3. SameVersions(vs, vs')
  BY <1>1, <1>2, UnrefCounts
<1>4. Referenced(vs', c.version, 0)
  BY <1>1, <1>2, UnrefByIterator
<1>5. vs.current \in DOMAIN vs'.versions
  BY <1>3, <1>4 DEF Referenced, SameVersions
<1> QED
  BY <1>1, <1>3, <1>5, HandlingKeepsOrder

(* it tells the background thread to stop,                                 *)
LEMMA ShutDownKeepsOrder == ASSUME IInv, OInv, ShutDown PROVE OInv'
<1>1. main \in Running /\ main' \in Running /\ UNCHANGED <<contents, disk, bg, c, vs>>
  BY DEF ShutDown, Running, Reading
<1>2. SameVersions(vs, vs') /\ vs.current \in DOMAIN vs'.versions
  BY <1>1, CurrentIn DEF SameVersions
<1> QED
  BY <1>1, <1>2, HandlingKeepsOrder

(* and closes the database.                                                *)
LEMMA ClosedKeepsOrder == ASSUME IInv, OInv, Closed PROVE OInv'
BY DownKeeps DEF Closed, OInv, Lasting

(* A file that a read came by first is not of the last level: two files of *)
(* that level never hold the same entry.                                   *)
LEMMA FirstIsNotLast ==
  ASSUME NEW files, NEW d, NEW next \in Nat, SoundFiles(files, d.tables, next), NEW last,
         Settled(files, d, last), NEW e, Cardinality(Overlapping(files, e)) >= 2
  PROVE  FirstMatch(Overlapping(files, e))[1] # MaxLevel
<1>1. PICK pairs : pairs = Overlapping(files, e)
  OBVIOUS
<1>2. MaxLevel \in Nat /\ MaxLevel # 0 /\ MaxLevel \in Levels
      /\ \A l \in Levels : l \in Nat /\ l <= MaxLevel
  BY LevelDbAssumption DEF Levels
<1>3. \A p \in pairs : /\ p = <<p[1], p[2]>> /\ p[1] \in Levels /\ p[1] \in Nat
                       /\ p[2] \in files[p[1]] /\ Sound(p[2], d.tables, next)
  <2>1. \A p \in pairs : /\ p = <<p[1], p[2]>> /\ p[1] \in Levels /\ p[1] \in Nat
                         /\ p[2] \in files[p[1]]
    BY <1>1, OverlappingIn
  <2> QED
    BY <2>1 DEF SoundFiles
<1>4. pairs # {}
  BY <1>1, FS_EmptySet
<1>5. PICK m \in pairs : /\ m = FirstMatch(pairs)
                         /\ \A q \in pairs \ {m} : m[1] <= q[1]
  BY <1>3, <1>4, FirstMatchIn
<1>6. PICK q \in pairs : q # m
  <2> SUFFICES ASSUME pairs = {m} PROVE FALSE
    OBVIOUS
  <2>1. Cardinality({m}) = 1
    BY FS_Singleton
  <2> QED
    BY <1>1, <2>1
<1> SUFFICES ASSUME m[1] = MaxLevel PROVE FALSE
  BY <1>1, <1>5
<1>7. q[1] = MaxLevel
  BY <1>2, <1>3, <1>5, <1>6
<1>8. PICK f, g : f = m[2] /\ g = q[2]
  OBVIOUS
<1>9. f # g /\ f \in files[MaxLevel] /\ g \in files[MaxLevel]
  BY <1>3, <1>5, <1>6, <1>7, <1>8
<1>10. /\ f.smallest.key <= e.key /\ ~Before(f.largest, e)
       /\ g.smallest.key <= e.key /\ ~Before(g.largest, e)
       /\ ~Before(f.largest, g.largest) /\ ~Before(g.largest, f.largest)
  <2>1. ASSUME NEW p \in pairs, p[1] = MaxLevel
        PROVE  /\ p[2].smallest.key <= e.key /\ ~Before(p[2].largest, e)
               /\ \A h \in files[MaxLevel] : Before(h.largest, p[2].largest) => Before(h.largest, e)
    BY <1>1, <1>2, <2>1 DEF Overlapping
  <2> QED
    BY <1>5, <1>7, <1>8, <1>9, <2>1
<1>11. Spans(f) /\ Spans(g)
  BY <1>2, <1>9, SettledSpans
<1>12. f.largest.key = g.largest.key
  BY <1>10, <1>11 DEF Before, Spans
<1>13. KeysMeet(f, g.smallest.key, g.largest.key)
  BY <1>11, <1>12 DEF KeysMeet, Spans
<1>14. ~KeysMeet(f, g.smallest.key, g.largest.key)
  BY <1>2, <1>9 DEF Settled, Layered
<1> QED
  BY <1>13, <1>14

(* RecordReadSample marks a file for compaction that is not of the last    *)
(* level.                                                                  *)
LEMMA SampleKeepsOrder ==
  ASSUME IInv, OInv, main \in Reading, main' \in Reading, NEW passed, RecordReadSample(passed),
         UNCHANGED <<contents, disk, bg, c>>
  PROVE  OInv'
<1>1. main \in Running /\ main' \in Running /\ IsVersionSet(vs) /\ vs.next \in Nat
      /\ vs.current \in DOMAIN vs.versions
  BY CurrentIn DEF IInv, Versions, Running
<1>2. CASE UNCHANGED <<vs, db>>
  <2>1. SameVersions(vs, vs') /\ vs.current \in DOMAIN vs'.versions
    BY <1>1, <1>2 DEF SameVersions
  <2> QED
    BY <1>1, <2>1, HandlingKeepsOrder
<1>3. CASE ~UNCHANGED <<vs, db>>
  <2>1. PICK e : /\ Cardinality(Overlapping(Current(vs).files, e)) >= 2
                 /\ vs' = [vs EXCEPT !.versions[vs.current].seek =
                             {FirstMatch(Overlapping(Current(vs).files, e))}]
    BY <1>3 DEF RecordReadSample
  <2>2. PICK match : match = FirstMatch(Overlapping(Current(vs).files, e))
    OBVIOUS
  <2>3. match[1] # MaxLevel
    <3>1. Settled(Current(vs).files, disk, vs.last)
      BY <1>1 DEF OInv, InVersions, Current
    <3> QED
      BY <1>1, <2>1, <2>2, <3>1, CurrentIn, FirstIsNotLast
  <2>4. PICK versions : versions = [vs.versions EXCEPT ![vs.current].seek = {match}]
    OBVIOUS
  <2>5. vs' = [vs EXCEPT !.versions = versions]
    BY <2>1, <2>2, <2>4
  <2>6. /\ vs'.last = vs.last /\ vs'.log = vs.log /\ vs'.current = vs.current
        /\ vs'.versions = versions
    BY <1>1, <2>5 DEF IsVersionSet
  <2>7. DOMAIN versions = DOMAIN vs.versions
    BY <2>4
  <2>8. ASSUME NEW v \in DOMAIN vs.versions
        PROVE  /\ versions[v].files = vs.versions[v].files
               /\ versions[v].seek = IF v = vs.current THEN {match} ELSE vs.versions[v].seek
    <3>1. vs.versions[v] = [files |-> vs.versions[v].files, refs |-> vs.versions[v].refs,
                            seek |-> vs.versions[v].seek]
      BY <1>1 DEF IsVersionSet
    <3>2. CASE v = vs.current
      <4>1. versions[v] = [vs.versions[v] EXCEPT !.seek = {match}]
        BY <2>4, <3>2
      <4> QED
        BY <3>1, <3>2, <4>1
    <3>3. CASE v # vs.current
      BY <2>4, <3>3
    <3> QED
      BY <3>2, <3>3
  <2>9. \A v \in DOMAIN vs'.versions :
           /\ v \in DOMAIN vs.versions /\ vs'.versions[v].files = vs.versions[v].files
           /\ \A p \in vs'.versions[v].seek : p[1] # MaxLevel
    BY <2>3, <2>6, <2>7, <2>8 DEF OInv, InVersions
  <2>10. Current(vs').files = Current(vs).files
    BY <1>1, <2>6, <2>8 DEF Current
  <2> QED
    BY <1>1, <2>6, <2>9, <2>10, ReadingKeepsOrder
<1> QED
  BY <1>2, <1>3

(* So a seek keeps all in order,                                           *)
LEMMA SeekKeepsOrder == ASSUME IInv, OInv, Seek PROVE OInv'
<1>1. main \in Reading /\ main' \in Reading /\ UNCHANGED <<contents, disk, bg, c>>
  BY DEF Seek, Reading
<1>2. \E passed : RecordReadSample(passed)
  BY DEF Seek, FindNextUserEntry
<1> QED
  BY <1>1, <1>2, SampleKeepsOrder

(* and so does a step of the scan.                                         *)
LEMMA NextPairKeepsOrder == ASSUME IInv, OInv, NextPair PROVE OInv'
<1>1. main \in Reading /\ main' \in Reading /\ UNCHANGED <<contents, disk, bg, c>>
  BY DEF NextPair, Reading
<1>2. \E passed : RecordReadSample(passed)
  BY DEF NextPair, FindNextUserEntry
<1> QED
  BY <1>1, <1>2, SampleKeepsOrder

(* Opened deletes what is obsolete; then the background thread may start.  *)
LEMMA CleanedLogs ==
  ASSUME NEW d, IsDisk(d), NEW live, NEW log, NEW manifest,
         NEW e, e = Cleaned(d, live, log, manifest)
  PROVE  \A n \in DOMAIN e.logs : n \in DOMAIN d.logs /\ e.logs[n] = d.logs[n]
<1>1. PICK tables, manifests, logs, temps :
        /\ tables = Restrict(d.tables, DOMAIN d.tables \cap live)
        /\ manifests = Restrict(d.manifests, {n \in DOMAIN d.manifests : n >= manifest})
        /\ logs = Restrict(d.logs, {n \in DOMAIN d.logs : n >= log})
        /\ temps = d.temps \cap live
  OBVIOUS
<1>2. e = [d EXCEPT !.tables = tables, !.temps = temps, !.logs = logs, !.manifests = manifests]
  BY <1>1 DEF Cleaned
<1>3. e.logs = logs
  BY ONLY <1>2, IsDisk(d) DEF IsDisk
<1> QED
  BY <1>1, <1>3 DEF Restrict

(* The end of Open deletes only what no version uses.                      *)
LEMMA OpenedKeepsOrder == ASSUME IInv, OInv, Opened PROVE OInv'
<1>1. /\ main = "opened" /\ main' = "open" /\ bg = "idle" /\ ~db.error
      /\ UNCHANGED <<contents, vs, bg>>
  BY DEF IInv, Control, Opened
<1>2. main \in Running /\ main' \in Running
  BY <1>1 DEF Running
<1>3. /\ disk.current = vs.manifest /\ BuiltFiles(disk) = Current(vs).files
      /\ vs.current \in DOMAIN vs.versions /\ IsDisk(disk)
  BY <1>1, DirectoryIs DEF IInv, Synced, Running, BuiltFiles, Versions, Referenced
<1>4. PICK live, log, manifest :
         live = db.pending \cup LiveFiles(vs) /\ log = vs.log /\ manifest = vs.manifest
  OBVIOUS
<1>5. disk' = Cleaned(disk, live, log, manifest)
  BY <1>1, <1>4 DEF Opened, DeleteObsoleteFiles
<1>6. /\ IsDisk(disk') /\ SameManifest(disk, disk')
      /\ \A files : (\A l \in Levels : \A f \in files[l] : f.number \in live)
                       => SameTables(files, disk, disk')
  BY <1>3, <1>4, <1>5, CleanedKeeps DEF IInv
<1>7. \A files : (\A l \in Levels : \A f \in files[l] : f.number \in LiveFiles(vs))
                    => SameTables(files, disk, disk')
  BY <1>4, <1>6
<1>8. \A v \in DOMAIN vs.versions : SameTables(vs.versions[v].files, disk, disk')
  BY <1>3, <1>6, <1>7, ObsoleteFilesOnly DEF IInv, Current
<1>9. SameTables(BuiltFiles(disk), disk, disk')
  BY <1>3, <1>8 DEF Current
<1>10. \A n \in DOMAIN disk'.logs : n \in DOMAIN disk.logs /\ disk'.logs[n] = disk.logs[n]
  BY <1>3, <1>5, CleanedLogs
<1>11. Lasting' /\ InVersions' /\ InRecovery' /\ InTables'
  BY <1>1, <1>2, <1>6, <1>8, <1>9, <1>10, RunningKeepsOrder DEF OInv, InVersions
<1>12. InCompaction'
  BY <1>1 DEF InCompaction
<1> QED
  BY <1>11, <1>12 DEF OInv

(* Steps of the background thread that leave the directory alone and       *)
(* install nothing.                                                        *)
LEMMA ThreadKeepsOrder ==
  ASSUME IInv, OInv, bg # "idle" \/ db.scheduled, UNCHANGED <<disk, contents, main>>,
         SameVersions(vs, vs'), InCompaction'
  PROVE  OInv'
<1>1. main \in Running /\ main' \in Running
  BY BackgroundRuns
<1>2. SameManifest(disk, disk') /\ \A files : SameTables(files, disk, disk')
  BY DEF SameManifest, SameTables
<1>3. \A v \in DOMAIN vs'.versions :
         /\ v \in DOMAIN vs.versions /\ vs'.versions[v].files = vs.versions[v].files
         /\ \A p \in vs'.versions[v].seek : p[1] # MaxLevel
  BY DEF SameVersions, OInv, InVersions
<1>4. vs'.last = vs.last /\ vs'.log = vs.log
  BY DEF SameVersions
<1>5. Lasting' /\ InVersions' /\ InRecovery' /\ InTables'
  BY <1>1, <1>2, <1>3, <1>4, RunningKeepsOrder
<1> QED
  BY <1>5 DEF OInv

(* A call that finds the database closing or broken ends at once,          *)
LEMMA BackgroundCallIdleKeepsOrder == ASSUME IInv, OInv, BackgroundCallIdle PROVE OInv'
<1>1. /\ bg = "idle" /\ bg' = "idle" /\ vs' = vs /\ db.scheduled
      /\ UNCHANGED <<disk, contents, main>>
  BY DEF BackgroundCallIdle, EndBackgroundCall
<1>2. SameVersions(vs, vs')
  BY <1>1 DEF SameVersions
<1>3. InCompaction'
  BY <1>1 DEF InCompaction
<1> QED
  BY <1>1, <1>2, <1>3, ThreadKeepsOrder

(* and one that is given up releases its inputs.                           *)
LEMMA AbandonCompactionKeepsOrder == ASSUME IInv, OInv, AbandonCompaction PROVE OInv'
<1>1. /\ bg # "idle" /\ bg' = "idle" /\ vs' = Unref(vs, c.version)
      /\ UNCHANGED <<disk, contents, main>>
  BY DEF AbandonCompaction, EndBackgroundCall
<1>2. IsVersionSet(vs) /\ c.version \in DOMAIN vs.versions
  BY <1>1 DEF IInv, Control, Versions, Referenced
<1>3. SameVersions(vs, vs')
  BY <1>1, <1>2, UnrefCounts
<1>4. InCompaction'
  BY <1>1 DEF InCompaction
<1> QED
  BY <1>1, <1>3, <1>4, ThreadKeepsOrder

(* What is picked from the current version.                                *)
LEMMA CurrentIsSettled ==
  ASSUME IInv, OInv, bg # "idle" \/ db.scheduled
  PROVE  /\ vs.current \in DOMAIN vs.versions /\ vs.last \in Nat
         /\ SoundFiles(Current(vs).files, disk.tables, vs.next)
         /\ Settled(Current(vs).files, disk, vs.last)
         /\ Visible(Entries(disk, Current(vs).files)) = contents
BY CurrentIn, BackgroundRuns DEF OInv, InVersions, Current

(* PickCompaction picks inputs that leave nothing behind that shares a key *)
(* with them.                                                              *)
LEMMA PickSeparates ==
  ASSUME IInv, OInv, db.scheduled, NEW p \in PickCompaction(Current(vs))
  PROVE  /\ p = [level |-> p.level, inputs |-> p.inputs, files |-> Current(vs).files]
         /\ Separate(Current(vs).files, p.level, p.inputs)
<1>1. PICK version : version = Current(vs)
  OBVIOUS
<1>2. /\ SoundFiles(version.files, disk.tables, vs.next)
      /\ Settled(version.files, disk, vs.last)
  BY <1>1, CurrentIsSettled
<1>3. \A l \in Levels : IsFiniteSet(version.files[l]) /\ \A f \in version.files[l] : Spans(f)
  BY <1>2, SettledSpans
<1>4. \A s \in version.seek : s[1] \in Levels /\ s[1] # MaxLevel /\ s[2] \in version.files[s[1]]
  BY <1>1 DEF IInv, Versions, Referenced, Current, OInv, InVersions
<1> QED
  BY <1>1, <1>3, <1>4, PickedSeparate

(* A file that is moved down.                                              *)
LEMMA TrivialMoveKeepsOrder == ASSUME IInv, OInv, TrivialMove PROVE OInv'
<1>1. /\ bg = "idle" /\ db.scheduled /\ vs' = Ref(vs, vs.current) /\ bg' = "write"
      /\ UNCHANGED <<disk, contents, main>>
  BY DEF TrivialMove
<1>2. PICK p \in PickCompaction(Current(vs)) : IsTrivialMove(p) /\ \E f \in p.inputs[1] : \E edit :
        /\ edit = Completed([NoEdit EXCEPT !.added = {<<p.level + 1, f>>},
                                           !.deleted = {<<p.level, f.number>>}],
                            vs, vs.log)
        /\ c' = [version |-> vs.current, moved |-> TRUE, edit |-> edit]
  BY DEF TrivialMove
<1>3. PICK f \in p.inputs[1] : \E edit :
        /\ edit = Completed([NoEdit EXCEPT !.added = {<<p.level + 1, f>>},
                                           !.deleted = {<<p.level, f.number>>}],
                            vs, vs.log)
        /\ c' = [version |-> vs.current, moved |-> TRUE, edit |-> edit]
  BY <1>2
<1>4. PICK edit :
        /\ edit = Completed([NoEdit EXCEPT !.added = {<<p.level + 1, f>>},
                                           !.deleted = {<<p.level, f.number>>}],
                            vs, vs.log)
        /\ c' = [version |-> vs.current, moved |-> TRUE, edit |-> edit]
  BY <1>3
<1>5. PICK files, level, inputs, last :
        files = Current(vs).files /\ level = p.level /\ inputs = p.inputs /\ last = vs.last
  OBVIOUS
<1>6. /\ SoundFiles(files, disk.tables, vs.next) /\ Settled(files, disk, last)
      /\ Visible(Entries(disk, files)) = contents /\ Separate(files, level, inputs)
  BY <1>1, <1>5, CurrentIsSettled, PickSeparates
<1>7. inputs[1] = {f} /\ inputs[2] = {}
  <2>1. inputs[1] \subseteq files[level] /\ level \in Levels
    BY <1>6, LevelDbAssumption DEF Separate, Levels
  <2>2. IsFiniteSet(inputs[1])
    BY <1>6, <2>1, FS_Subset DEF Settled
  <2>3. Cardinality(inputs[1]) = 1 /\ inputs[2] = {}
    BY <1>2, <1>5 DEF IsTrivialMove
  <2>4. \E x : inputs[1] = {x}
    BY <2>2, <2>3, FS_Singleton
  <2> QED
    BY <1>5, <2>3, <2>4
<1>8. /\ edit.log = vs.log /\ edit.last = vs.last
      /\ edit.added = {<<level + 1, f>>} /\ edit.deleted = {<<level, f.number>>}
  <2>1. PICK added, deleted : added = {<<level + 1, f>>} /\ deleted = {<<level, f.number>>}
    OBVIOUS
  <2>2. edit = Completed([NoEdit EXCEPT !.added = added, !.deleted = deleted], vs, vs.log)
    BY <1>4, <1>5, <2>1
  <2>3. edit.log = vs.log /\ edit.last = vs.last /\ edit.added = added /\ edit.deleted = deleted
    BY ONLY <2>2 DEF Completed, NoEdit
  <2> QED
    BY <2>1, <2>3
<1>9. Compacts(edit, level, inputs, {f})
  <2>1. edit.added = {<<level + 1, g>> : g \in {f}}
    BY <1>8
  <2>2. ASSUME NEW pair
        PROVE  pair \in UNION {{<<level + i - 1, g.number>> : g \in inputs[i]} : i \in 1..2}
                  <=> pair = <<level, f.number>>
    <3>1. pair \in UNION {{<<level + i - 1, g.number>> : g \in inputs[i]} : i \in 1..2}
             <=> \E i \in 1..2 : \E g \in inputs[i] : pair = <<level + i - 1, g.number>>
      OBVIOUS
    <3>2. (1..2) = {1, 2}
      OBVIOUS
    <3>3. level \in Nat
      BY <1>6 DEF Separate
    <3> QED
      BY <1>7, <3>1, <3>2, <3>3
  <2>3. edit.deleted = UNION {{<<level + i - 1, g.number>> : g \in inputs[i]} : i \in 1..2}
    BY <1>8, <2>2
  <2> QED
    BY <2>1, <2>3 DEF Compacts
<1>10. /\ f \in files[level] /\ level \in Levels /\ Sound(f, disk.tables, vs.next)
       /\ IsTable(disk.tables[f.number])
  <2>1. f \in files[level] /\ level \in Levels
    BY <1>6, <1>7, LevelDbAssumption DEF Separate, Levels
  <2> QED
    BY <1>6, <2>1 DEF Settled, SoundFiles
<1>11. disk.tables[f.number] \subseteq InputEntries(disk, inputs)
  BY <1>7, <1>10 DEF InputEntries, TableEntries, Sound
<1>12. Settled(ApplyEdit(files, edit), disk, last)
  <2>1. PICK outputs : outputs = {f}
    OBVIOUS
  <2>2. /\ IsFiniteSet(outputs)
        /\ \A g \in outputs : /\ g.number \in DOMAIN disk.tables
                              /\ IsTable(disk.tables[g.number])
                              /\ g = FileMetaData(g.number, disk.tables[g.number])
                              /\ disk.tables[g.number] \subseteq InputEntries(disk, inputs)
        /\ \A g, h \in outputs : g # h => ~KeysMeet(g, h.smallest.key, h.largest.key)
        /\ Compacts(edit, level, inputs, outputs)
    BY <1>9, <1>10, <1>11, <2>1, FS_Singleton DEF Sound
  <2> QED
    BY <1>6, <2>2, CompactionSettles
<1>13. Visible(Entries(disk, ApplyEdit(files, edit))) = contents
  <2>1. PICK outputs : outputs = {f}
    OBVIOUS
  <2>2. outputs = inputs[1] /\ Compacts(edit, level, inputs, outputs)
    BY <1>7, <1>9, <2>1
  <2>3. Entries(disk, ApplyEdit(files, edit)) = Entries(disk, files)
    BY <1>6, <1>7, <2>2, MoveKeepsEntries
  <2> QED
    BY <1>6, <2>3
<1>14. SameVersions(vs, vs') /\ DOMAIN vs'.versions = DOMAIN vs.versions
       /\ vs.current \in DOMAIN vs.versions
  BY <1>1, CurrentIn, RefCounts DEF IInv, Versions
<1>15. InCompaction'
  <2>1. Current(vs').files = files /\ vs'.last = last /\ vs'.last = vs.last /\ vs'.log = vs.log
    BY <1>5, <1>14 DEF SameVersions, Current
  <2>2. c'.edit = edit
    BY <1>4
  <2> QED
    BY <1>1, <1>8, <1>12, <1>13, <2>1, <2>2 DEF InCompaction
<1> QED
  BY <1>1, <1>14, <1>15, ThreadKeepsOrder

(* A compaction that merges begins: everything kept is left to write.      *)
LEMMA StartCompactionKeepsOrder == ASSUME IInv, OInv, StartCompaction PROVE OInv'
<1>1. /\ bg = "idle" /\ db.scheduled /\ vs' = Ref(vs, vs.current) /\ bg' = "work"
      /\ UNCHANGED <<disk, contents, main>>
  BY DEF StartCompaction
<1>2. PICK p \in PickCompaction(Current(vs)) : \E left :
        /\ left = Kept(p, UNION {TableEntries(disk, f.number) : f \in Inputs(p)}, vs.last)
        /\ c' = [version |-> vs.current, moved |-> FALSE, level |-> p.level,
                 inputs |-> p.inputs, open |-> 0, outputs |-> {}, left |-> left]
  BY DEF StartCompaction
<1>3. PICK left :
        /\ left = Kept(p, UNION {TableEntries(disk, f.number) : f \in Inputs(p)}, vs.last)
        /\ c' = [version |-> vs.current, moved |-> FALSE, level |-> p.level,
                 inputs |-> p.inputs, open |-> 0, outputs |-> {}, left |-> left]
  BY <1>2
<1>4. /\ p = [level |-> p.level, inputs |-> p.inputs, files |-> Current(vs).files]
      /\ Separate(Current(vs).files, p.level, p.inputs)
  BY <1>1, PickSeparates
<1>5. PICK files, level, inputs, last :
        files = Current(vs).files /\ level = p.level /\ inputs = p.inputs /\ last = vs.last
  OBVIOUS
<1>6. left = Kept(Picked(files, level), InputEntries(disk, inputs), last)
  <2>1. UNION {TableEntries(disk, f.number) : f \in Inputs(p)} = InputEntries(disk, inputs)
    BY <1>5 DEF Inputs, InputEntries
  <2>2. PICK E : E = InputEntries(disk, inputs)
    OBVIOUS
  <2>3. PICK q : q = Picked(files, level)
    OBVIOUS
  <2>4. q.level = p.level /\ q.files = p.files
    BY <1>4, <1>5, <2>3 DEF Picked
  <2>5. Kept(p, E, last) = Kept(q, E, last)
    BY <2>4 DEF Kept, IsBaseLevelForKey
  <2> QED
    BY <1>3, <1>5, <2>1, <2>2, <2>3, <2>5
<1>7. SameVersions(vs, vs') /\ DOMAIN vs'.versions = DOMAIN vs.versions
       /\ vs.current \in DOMAIN vs.versions
  BY <1>1, CurrentIn, RefCounts DEF IInv, Versions
<1>8. InCompaction'
  <2>1. Current(vs').files = files /\ vs'.last = last
    BY <1>5, <1>7 DEF SameVersions, Current
  <2>2. c'.level = level /\ c'.inputs = inputs /\ c'.outputs = {} /\ c'.left = left
    BY <1>3, <1>5
  <2>3. OutputEntries(disk, {}) \cup left = left
    BY DEF OutputEntries
  <2>4. IsFiniteSet({})
    BY FS_EmptySet
  <2> QED
    BY <1>1, <1>4, <1>5, <1>6, <2>1, <2>2, <2>3, <2>4 DEF InCompaction
<1> QED
  BY <1>1, <1>7, <1>8, ThreadKeepsOrder

(* While inputs are merged: the tables that are read and those already     *)
(* written do not change.                                                  *)
LEMMA EntriesOfSame ==
  ASSUME NEW d, NEW e, NEW F,
         \A f \in F : /\ f.number \in DOMAIN d.tables /\ f.number \in DOMAIN e.tables
                      /\ e.tables[f.number] = d.tables[f.number]
  PROVE  OutputEntries(e, F) = OutputEntries(d, F)
<1>1. \A f \in F : TableEntries(e, f.number) = TableEntries(d, f.number)
  BY DEF TableEntries
<1> QED
  BY <1>1 DEF OutputEntries

(* The table being written is none of the inputs, none of the finished     *)
(* outputs and none of a version.                                          *)
LEMMA WorkingOnOthers ==
  ASSUME IInv, OInv, bg = "work", NEW number, number = vs.next \/ (number = c.open /\ c.open # 0),
         \A n \in DOMAIN disk.tables \ {number} : n \in DOMAIN disk'.tables
                                                  /\ disk'.tables[n] = disk.tables[n]
  PROVE  /\ InputEntries(disk', c.inputs) = InputEntries(disk, c.inputs)
         /\ OutputEntries(disk', c.outputs) = OutputEntries(disk, c.outputs)
         /\ \A f \in c.outputs : disk'.tables[f.number] = disk.tables[f.number]
         /\ \A v \in DOMAIN vs.versions : SameTables(vs.versions[v].files, disk, disk')
         /\ SameTables(BuiltFiles(disk), disk, disk')
<1>1. /\ \A v \in DOMAIN vs.versions : SoundFiles(vs.versions[v].files, disk.tables, vs.next)
      /\ vs.next \in Nat
      /\ \A f \in c.outputs : Sound(f, disk.tables, vs.next)
      /\ c.open # 0 => /\ \A f \in c.outputs : f.number # c.open
                       /\ \A v \in DOMAIN vs.versions : \A l \in Levels :
                             \A f \in vs.versions[v].files[l] : f.number # c.open
  BY DEF IInv, Versions, Compacting
<1>2. \A v \in DOMAIN vs.versions : \A l \in Levels : \A f \in vs.versions[v].files[l] :
         /\ f.number \in DOMAIN disk.tables /\ f.number \in DOMAIN disk'.tables
         /\ disk'.tables[f.number] = disk.tables[f.number]
  BY <1>1 DEF SoundFiles, Sound
<1>3. \A f \in c.outputs :
         /\ f.number \in DOMAIN disk.tables /\ f.number \in DOMAIN disk'.tables
         /\ disk'.tables[f.number] = disk.tables[f.number]
  BY <1>1 DEF Sound
<1>4. vs.current \in DOMAIN vs.versions /\ BuiltFiles(disk) = vs.versions[vs.current].files
  <2>1. main \in Running /\ ~db.error
    BY BackgroundRuns DEF IInv, Control
  <2> QED
    BY <2>1, CurrentIn DEF IInv, Synced, BuiltFiles, Current
<1>5. \A f \in c.inputs[1] \cup c.inputs[2] : \E l \in Levels : f \in Current(vs).files[l]
  BY LevelDbAssumption DEF OInv, InCompaction, Separate, Levels
<1>6. InputEntries(disk', c.inputs) = InputEntries(disk, c.inputs)
  <2>1. PICK F : F = c.inputs[1] \cup c.inputs[2]
    OBVIOUS
  <2>2. \A f \in F : /\ f.number \in DOMAIN disk.tables /\ f.number \in DOMAIN disk'.tables
                     /\ disk'.tables[f.number] = disk.tables[f.number]
    BY <1>2, <1>4, <1>5, <2>1 DEF Current
  <2>3. OutputEntries(disk', F) = OutputEntries(disk, F)
    BY <2>2, EntriesOfSame
  <2> QED
    BY <2>1, <2>3 DEF InputEntries, OutputEntries
<1>7. OutputEntries(disk', c.outputs) = OutputEntries(disk, c.outputs)
  BY <1>3, EntriesOfSame
<1>8. \A v \in DOMAIN vs.versions : SameTables(vs.versions[v].files, disk, disk')
  BY <1>2 DEF SameTables
<1> QED
  BY <1>3, <1>4, <1>6, <1>7, <1>8

(* An output is opened, empty.                                             *)
LEMMA OpenOutputKeepsOrder == ASSUME IInv, OInv, OpenCompactionOutputFile PROVE OInv'
<1>1. /\ bg = "work" /\ bg' = "work" /\ c' = [c EXCEPT !.open = vs.next]
      /\ vs' = [vs EXCEPT !.next = @ + 1] /\ UNCHANGED <<contents, main>>
      /\ disk' = [disk EXCEPT !.tables = Put(@, vs.next, {})]
      /\ IsVersionSet(vs) /\ IsDisk(disk)
  BY DirectoryIs DEF IInv, Versions, OpenCompactionOutputFile
<1>2. main \in Running /\ main' \in Running
  BY <1>1, BackgroundRuns
<1>3. /\ vs'.last = vs.last /\ vs'.log = vs.log
      /\ vs'.current = vs.current /\ vs'.versions = vs.versions
  BY ONLY <1>1 DEF IsVersionSet
<1>4. /\ c'.level = c.level /\ c'.inputs = c.inputs /\ c'.outputs = c.outputs /\ c'.left = c.left
  <2>1. PICK number, old : number = vs.next /\ old = c /\ c' = [old EXCEPT !.open = number]
    BY <1>1
  <2>2. IsCompaction(old)
    BY <1>1, <2>1 DEF IInv, Compacting
  <2>3. /\ c'.level = old.level /\ c'.inputs = old.inputs
        /\ c'.outputs = old.outputs /\ c'.left = old.left
    BY ONLY <2>1, <2>2 DEF IsCompaction
  <2> QED
    BY <2>1, <2>3
<1>5. PICK tables : tables = Put(disk.tables, vs.next, {})
  OBVIOUS
<1>6. disk' = [current |-> disk.current, manifests |-> disk.manifests, tables |-> tables,
               logs |-> disk.logs, temps |-> disk.temps]
  BY <1>1, <1>5 DEF IsDisk
<1>7. \A n \in DOMAIN disk.tables \ {vs.next} : n \in DOMAIN disk'.tables
                                                /\ disk'.tables[n] = disk.tables[n]
  BY <1>5, <1>6 DEF Put
<1>8. SameManifest(disk, disk') /\ disk'.logs = disk.logs
  BY <1>6 DEF SameManifest
<1>9. /\ InputEntries(disk', c.inputs) = InputEntries(disk, c.inputs)
      /\ OutputEntries(disk', c.outputs) = OutputEntries(disk, c.outputs)
      /\ \A f \in c.outputs : disk'.tables[f.number] = disk.tables[f.number]
      /\ \A v \in DOMAIN vs.versions : SameTables(vs.versions[v].files, disk, disk')
      /\ SameTables(BuiltFiles(disk), disk, disk')
  BY <1>1, <1>7, WorkingOnOthers
<1>10. Lasting' /\ InVersions' /\ InRecovery' /\ InTables'
  BY <1>1, <1>2, <1>3, <1>8, <1>9, RunningKeepsOrder DEF OInv, InVersions
<1>11. InCompaction'
  <2>1. Current(vs') = Current(vs)
    BY <1>3 DEF Current
  <2> QED
    BY <1>1, <1>3, <1>4, <1>9, <2>1 DEF OInv, InCompaction
<1> QED
  BY <1>10, <1>11 DEF OInv

(* The writes of a version are finitely many, and no two of its files hold *)
(* the same one.                                                           *)
LEMMA EntriesDiffer ==
  ASSUME NEW files, NEW d, NEW next, SoundFiles(files, d.tables, next), NEW last,
         Settled(files, d, last)
  PROVE  /\ Entries(d, files) \subseteq Writes
         /\ IsFiniteSet(Entries(d, files))
         /\ \A e \in Entries(d, files) : e.seq <= last
         /\ \A e, x \in Entries(d, files) : e.key = x.key /\ e.seq = x.seq => e = x
<1>1. PICK F : F = UNION {files[l] : l \in Levels}
  OBVIOUS
<1>2. \A f \in F : /\ TableEntries(d, f.number) = d.tables[f.number]
                   /\ IsTable(d.tables[f.number])
                   /\ \A e \in d.tables[f.number] :
                         /\ e.key \in Nat /\ e.seq \in Nat /\ e.seq <= last
                         /\ f.smallest.key <= e.key /\ e.key <= f.largest.key
                   /\ Spans(f) /\ f.number \in Nat
                   /\ f = FileMetaData(f.number, d.tables[f.number])
  <2> SUFFICES ASSUME NEW l \in Levels, NEW f \in files[l]
               PROVE  /\ TableEntries(d, f.number) = d.tables[f.number]
                      /\ IsTable(d.tables[f.number])
                      /\ \A e \in d.tables[f.number] :
                            /\ e.key \in Nat /\ e.seq \in Nat /\ e.seq <= last
                            /\ f.smallest.key <= e.key /\ e.key <= f.largest.key
                      /\ Spans(f) /\ f.number \in Nat
                      /\ f = FileMetaData(f.number, d.tables[f.number])
    BY <1>1
  <2> QED
    BY SettledSpans DEF Settled, SoundFiles, Sound
<1>3. \A e : e \in Entries(d, files) <=> \E f \in F : e \in d.tables[f.number]
  BY <1>1, <1>2, EntriesAre
<1>4. ASSUME NEW f \in F, NEW g \in F, NEW e \in d.tables[f.number], NEW x \in d.tables[g.number],
             e.key = x.key, e.seq = x.seq
      PROVE  e = x
  <2>1. CASE f.number = g.number
    BY <1>2, <1>4, <2>1 DEF IsTable
  <2>2. PICK k \in Levels, l \in Levels : f \in files[k] /\ g \in files[l]
    BY <1>1
  <2>3. ~After(d.tables[f.number], d.tables[g.number])
        /\ ~After(d.tables[g.number], d.tables[f.number])
    BY <1>2, <1>4 DEF After
  <2>4. \A p, q \in Levels : \A a \in files[p], b \in files[q] :
           p < q \/ (p = 0 /\ q = 0 /\ a.number > b.number)
              => After(TableEntries(d, a.number), TableEntries(d, b.number))
    BY DEF Settled, Layered
  <2>5. k = l
    <3>1. k \in Nat /\ l \in Nat
      BY LevelDbAssumption DEF Levels
    <3> QED
      BY <1>2, <2>2, <2>3, <2>4, <3>1
  <2>6. CASE f.number # g.number /\ l = 0
    <3>1. f.number > g.number \/ g.number > f.number
      BY <1>2, <2>6
    <3> QED
      BY <1>2, <2>2, <2>3, <2>4, <2>5, <2>6, <3>1
  <2>7. CASE f.number # g.number /\ l # 0
    <3>1. KeysMeet(f, g.smallest.key, g.largest.key)
      BY <1>2, <1>4 DEF KeysMeet, Spans
    <3>2. f # g => ~KeysMeet(f, g.smallest.key, g.largest.key)
      BY <2>2, <2>5, <2>7 DEF Settled, Layered
    <3> QED
      BY <2>7, <3>1, <3>2
  <2> QED
    BY <2>1, <2>6, <2>7
<1>5. IsFiniteSet(F)
  <2>1. PICK levels : levels = {files[l] : l \in Levels}
    OBVIOUS
  <2>2. IsFiniteSet(levels)
    <3>1. PICK g : g = [l \in Levels |-> files[l]]
      OBVIOUS
    <3>2. DOMAIN g = Levels /\ {g[l] : l \in DOMAIN g} = levels
      BY <2>1, <3>1
    <3>3. IsFiniteSet(Levels)
      BY FS_Interval, LevelDbAssumption DEF Levels
    <3> QED
      BY <3>2, <3>3, ImageFinite
  <2>3. \A G \in levels : IsFiniteSet(G)
    BY <2>1 DEF Settled
  <2> QED
    BY <1>1, <2>1, <2>2, <2>3, FS_UNION
<1>6. IsFiniteSet(Entries(d, files))
  <2>1. PICK tables : tables = {d.tables[f.number] : f \in F}
    OBVIOUS
  <2>2. IsFiniteSet(tables)
    <3>1. PICK t : t = [f \in F |-> d.tables[f.number]]
      OBVIOUS
    <3>2. DOMAIN t = F /\ {t[x] : x \in DOMAIN t} = tables
      BY <2>1, <3>1
    <3> QED
      BY <1>5, <3>2, ImageFinite
  <2>3. \A t \in tables : IsFiniteSet(t)
    BY <1>2, <2>1 DEF IsTable
  <2>4. UNION tables = Entries(d, files)
    BY <1>3, <2>1
  <2> QED
    BY <2>2, <2>3, <2>4, FS_UNION
<1>7. \A e \in Entries(d, files) : e \in Writes /\ e.seq <= last
  BY <1>2, <1>3 DEF IsTable
<1> QED
  BY <1>3, <1>4, <1>6, <1>7

(* The inputs of a compaction are some of the entries of its version, and  *)
(* no two of them are the same write, so one write of a key is kept.       *)
LEMMA InputsDiffer ==
  ASSUME NEW files, NEW d, NEW next, SoundFiles(files, d.tables, next), NEW last,
         Settled(files, d, last), NEW level, NEW inputs, Separate(files, level, inputs)
  PROVE  /\ InputEntries(d, inputs) \subseteq Writes
         /\ IsFiniteSet(InputEntries(d, inputs))
         /\ \A e \in InputEntries(d, inputs) : e.seq <= last
         /\ \A e, x \in InputEntries(d, inputs) : e.key = x.key /\ e.seq = x.seq => e = x
<1>1. /\ level \in Levels /\ level + 1 \in Levels
      /\ inputs[1] \subseteq files[level] /\ inputs[2] \subseteq files[level + 1]
  BY LevelDbAssumption DEF Separate, Levels
<1>2. InputEntries(d, inputs) \subseteq Entries(d, files)
  BY <1>1, EntriesAre DEF InputEntries
<1> QED
  BY <1>2, EntriesDiffer, FS_Subset

(* And so one write of a key is left over, the newest.                     *)
LEMMA KeptOnce ==
  ASSUME NEW E, E \subseteq Writes, NEW last, \A e \in E : e.seq <= last,
         \A e, x \in E : e.key = x.key /\ e.seq = x.seq => e = x, NEW p
  PROVE  /\ Kept(p, E, last) \subseteq E
         /\ \A e, x \in Kept(p, E, last) : e.key = x.key => e = x
<1>1. Kept(p, E, last) \subseteq E
  BY DEF Kept
<1>2. ASSUME NEW e \in Kept(p, E, last), NEW x \in Kept(p, E, last), e.key = x.key
      PROVE  e = x
  <2>1. e \in E /\ x \in E /\ e.seq \in Nat /\ x.seq \in Nat
    BY <1>1 DEF Writes
  <2>2. ~(x.seq > e.seq) /\ ~(e.seq > x.seq)
    BY <1>2, <2>1 DEF Kept
  <2> QED
    BY <1>2, <2>1, <2>2
<1> QED
  BY <1>1, <1>2

(* What is left to write of a compaction, in the order of the keys.        *)
LEMMA WorkIs ==
  ASSUME IInv, OInv, bg = "work"
  PROVE  LET E == InputEntries(disk, c.inputs)
         IN  /\ c.left \cup OutputEntries(disk, c.outputs) \subseteq E
             /\ E \subseteq Writes /\ IsFiniteSet(E)
             /\ \A e, x \in E : e.key = x.key /\ e.seq = x.seq => e = x
             /\ \A e, x \in c.left : e.key = x.key => e = x
<1>1. PICK files, level, inputs, last : /\ files = Current(vs).files /\ level = c.level
                                        /\ inputs = c.inputs /\ last = vs.last
  OBVIOUS
<1>2. PICK E : E = InputEntries(disk, inputs)
  OBVIOUS
<1>3. PICK p : p = Picked(files, level)
  OBVIOUS
<1>4. /\ SoundFiles(files, disk.tables, vs.next) /\ Settled(files, disk, last)
  BY <1>1, CurrentIsSettled
<1>5. /\ Separate(files, level, inputs)
      /\ OutputEntries(disk, c.outputs) \cup c.left = Kept(p, E, last)
  BY <1>1, <1>2, <1>3 DEF OInv, InCompaction
<1>6. /\ E \subseteq Writes /\ IsFiniteSet(E) /\ \A e \in E : e.seq <= last
      /\ \A e, x \in E : e.key = x.key /\ e.seq = x.seq => e = x
  BY <1>2, <1>4, <1>5, InputsDiffer
<1>7. /\ Kept(p, E, last) \subseteq E
      /\ \A e, x \in Kept(p, E, last) : e.key = x.key => e = x
  BY <1>6, KeptOnce
<1> QED
  BY <1>1, <1>2, <1>5, <1>6, <1>7

(* An output is finished: it ends where what is left begins.               *)
LEMMA FinishOutputKeepsOrder == ASSUME IInv, OInv, FinishCompactionOutputFile PROVE OInv'
<1>1. /\ bg = "work" /\ bg' = "work" /\ c.open # 0
      /\ UNCHANGED <<contents, main, vs>> /\ IsDisk(disk)
  BY DirectoryIs DEF IInv, FinishCompactionOutputFile
<1>2. main \in Running /\ main' \in Running
  BY <1>1, BackgroundRuns
<1>3. PICK last \in c.left : \E E :
         /\ E = {e \in c.left : ~Before(last, e)}
         /\ disk' = [disk EXCEPT !.tables = Put(@, c.open, E)]
         /\ c' = [c EXCEPT !.open = 0, !.left = @ \ E,
                           !.outputs = @ \cup {FileMetaData(c.open, E)}]
  BY DEF FinishCompactionOutputFile
<1>4. PICK E :
         /\ E = {e \in c.left : ~Before(last, e)}
         /\ disk' = [disk EXCEPT !.tables = Put(@, c.open, E)]
         /\ c' = [c EXCEPT !.open = 0, !.left = @ \ E,
                           !.outputs = @ \cup {FileMetaData(c.open, E)}]
  BY <1>3
<1>5. PICK tables, left, outputs, file :
         /\ tables = Put(disk.tables, c.open, E) /\ left = c.left \ E
         /\ file = FileMetaData(c.open, E) /\ outputs = c.outputs \cup {file}
  OBVIOUS
<1>6. /\ c'.level = c.level /\ c'.inputs = c.inputs /\ c'.outputs = outputs /\ c'.left = left
  <2>1. PICK old : old = c /\ c' = [old EXCEPT !.open = 0, !.left = left, !.outputs = outputs]
    BY <1>4, <1>5
  <2>2. IsCompaction(old)
    BY <1>1, <2>1 DEF IInv, Compacting
  <2>3. /\ c'.level = old.level /\ c'.inputs = old.inputs
        /\ c'.outputs = outputs /\ c'.left = left
    BY ONLY <2>1, <2>2 DEF IsCompaction
  <2> QED
    BY <2>1, <2>3
<1>7. disk' = [current |-> disk.current, manifests |-> disk.manifests, tables |-> tables,
               logs |-> disk.logs, temps |-> disk.temps]
  BY <1>1, <1>4, <1>5 DEF IsDisk
<1>8. /\ \A n \in DOMAIN disk.tables \ {c.open} : n \in DOMAIN disk'.tables
                                                  /\ disk'.tables[n] = disk.tables[n]
      /\ c.open \in DOMAIN disk'.tables /\ disk'.tables[c.open] = E
  BY <1>5, <1>7 DEF Put
<1>9. SameManifest(disk, disk') /\ disk'.logs = disk.logs
  BY <1>7 DEF SameManifest
<1>10. /\ InputEntries(disk', c.inputs) = InputEntries(disk, c.inputs)
       /\ OutputEntries(disk', c.outputs) = OutputEntries(disk, c.outputs)
       /\ \A f \in c.outputs : disk'.tables[f.number] = disk.tables[f.number]
       /\ \A v \in DOMAIN vs.versions : SameTables(vs.versions[v].files, disk, disk')
       /\ SameTables(BuiltFiles(disk), disk, disk')
  BY <1>1, <1>8, WorkingOnOthers
<1>11. Lasting' /\ InVersions' /\ InRecovery' /\ InTables'
  BY <1>1, <1>2, <1>9, <1>10, RunningKeepsOrder DEF OInv, InVersions
<1>12. /\ c.left \subseteq Writes /\ IsFiniteSet(c.left)
       /\ \A e, x \in c.left : e.key = x.key => e = x
  BY <1>1, WorkIs, FS_Subset
<1>13. /\ \A e \in E : e \in c.left /\ e.key \in Nat /\ e.key <= last.key
       /\ \A x \in left : x \in c.left /\ x.key \in Nat /\ last.key < x.key
       /\ last \in E /\ last.key \in Nat
  <2>1. \A e \in c.left : e.key \in Nat /\ e.seq \in Nat
    BY <1>12 DEF Writes
  <2>2. \A e \in c.left : Before(last, e) <=> last.key < e.key
    BY <1>12, <2>1 DEF Before
  <2> QED
    BY <1>4, <1>5, <2>1, <2>2
<1>14. IsTable(E)
  <2>1. E \subseteq c.left
    BY <1>13
  <2>2. IsFiniteSet(E)
    BY <1>12, <2>1, FS_Subset
  <2> QED
    BY <1>12, <1>13, <2>1, <2>2 DEF IsTable
<1>15. /\ file.number = c.open /\ file = FileMetaData(file.number, E)
       /\ file.smallest \in E /\ file.largest \in E
       /\ file.smallest.key \in Nat /\ file.largest.key \in Nat
  <2>1. file.number = c.open
    BY <1>5 DEF FileMetaData
  <2>2. file = FileMetaData(file.number, E)
    BY <1>5, <2>1
  <2> QED
    BY <1>14, <2>1, <2>2, FileSpan
<1>16. \A f \in c.outputs : /\ IsTable(disk.tables[f.number])
                            /\ \A e \in disk.tables[f.number], x \in c.left : e.key < x.key
                            /\ f.largest \in disk.tables[f.number] /\ f.largest.key \in Nat
  <2>1. \A f \in c.outputs : /\ IsTable(disk.tables[f.number])
                             /\ \A e \in disk.tables[f.number], x \in c.left : e.key < x.key
    BY <1>1 DEF OInv, InCompaction
  <2>2. \A f \in c.outputs : f = FileMetaData(f.number, disk.tables[f.number])
    BY <1>1 DEF IInv, Compacting, Sound
  <2> QED
    BY <2>1, <2>2, FileSpan
<1>17. \A f \in c.outputs : /\ ~KeysMeet(f, file.smallest.key, file.largest.key)
                            /\ ~KeysMeet(file, f.smallest.key, f.largest.key)
  <2>1. \A f \in c.outputs : f.largest.key < file.smallest.key
    BY <1>13, <1>15, <1>16
  <2> QED
    BY <1>15, <1>16, <2>1 DEF KeysMeet
<1>18. /\ IsFiniteSet(outputs)
       /\ \A f, g \in outputs : f # g => ~KeysMeet(f, g.smallest.key, g.largest.key)
  <2>1. /\ IsFiniteSet(c.outputs)
        /\ \A f, g \in c.outputs : f # g => ~KeysMeet(f, g.smallest.key, g.largest.key)
    BY <1>1 DEF OInv, InCompaction
  <2>2. IsFiniteSet(outputs)
    BY <1>5, <2>1, FS_AddElement
  <2> QED
    BY <1>5, <1>17, <2>1, <2>2
<1>19. \A f \in outputs : /\ IsTable(disk'.tables[f.number])
                          /\ \A e \in disk'.tables[f.number], x \in left : e.key < x.key
  <2>1. ASSUME NEW f \in c.outputs
        PROVE  /\ IsTable(disk'.tables[f.number])
               /\ \A e \in disk'.tables[f.number], x \in left : e.key < x.key
    BY <1>10, <1>13, <1>16
  <2>2. /\ IsTable(disk'.tables[file.number])
        /\ \A e \in disk'.tables[file.number], x \in left : e.key < x.key
    BY <1>8, <1>13, <1>14, <1>15
  <2> QED
    BY <1>5, <2>1, <2>2
<1>20. OutputEntries(disk', outputs) \cup left = OutputEntries(disk, c.outputs) \cup c.left
  <2>1. TableEntries(disk', file.number) = E
    BY <1>8, <1>15 DEF TableEntries
  <2>2. OutputEntries(disk', outputs) = OutputEntries(disk', c.outputs) \cup E
    BY <1>5, <2>1 DEF OutputEntries
  <2> QED
    BY <1>5, <1>10, <1>13, <2>2
<1>21. InCompaction'
  <2>1. PICK E0, p : E0 = InputEntries(disk, c.inputs) /\ p = Picked(Current(vs).files, c.level)
    OBVIOUS
  <2>2. /\ Separate(Current(vs).files, c.level, c.inputs)
        /\ OutputEntries(disk, c.outputs) \cup c.left = Kept(p, E0, vs.last)
    BY <1>1, <2>1 DEF OInv, InCompaction
  <2>3. /\ Current(vs') = Current(vs) /\ vs'.last = vs.last
    BY <1>1
  <2> QED
    BY <1>1, <1>6, <1>10, <1>18, <1>19, <1>20, <2>1, <2>2, <2>3 DEF InCompaction
<1> QED
  BY <1>11, <1>21 DEF OInv

(* The edit of a finished compaction.                                      *)
LEMMA InstallResultsKeepsOrder == ASSUME IInv, OInv, InstallCompactionResults PROVE OInv'
<1>1. /\ bg = "work" /\ bg' = "write" /\ c.left = {}
      /\ UNCHANGED <<disk, contents, main, vs>>
  BY DEF InstallCompactionResults
<1>2. PICK deleted, added :
         /\ deleted = UNION {{<<c.level + i - 1, f.number>> : f \in c.inputs[i]} : i \in 1..2}
         /\ added = {<<c.level + 1, f>> : f \in c.outputs}
         /\ c' = [version |-> c.version, moved |-> FALSE,
                  edit |-> Completed([NoEdit EXCEPT !.added = added, !.deleted = deleted],
                                     vs, vs.log)]
  BY DEF InstallCompactionResults
<1>3. PICK edit : edit = Completed([NoEdit EXCEPT !.added = added, !.deleted = deleted],
                                   vs, vs.log)
  OBVIOUS
<1>4. edit.log = vs.log /\ edit.last = vs.last /\ edit.added = added /\ edit.deleted = deleted
  BY ONLY <1>3 DEF Completed, NoEdit
<1>5. PICK files, level, inputs, outputs, last :
        /\ files = Current(vs).files /\ level = c.level /\ inputs = c.inputs
        /\ outputs = c.outputs /\ last = vs.last
  OBVIOUS
<1>6. Compacts(edit, level, inputs, outputs)
  BY <1>2, <1>4, <1>5 DEF Compacts
<1>7. /\ SoundFiles(files, disk.tables, vs.next) /\ Settled(files, disk, last) /\ last \in Nat
      /\ Visible(Entries(disk, files)) = contents
  BY <1>1, <1>5, CurrentIsSettled
<1>8. /\ Separate(files, level, inputs)
      /\ OutputEntries(disk, outputs) = Kept(Picked(files, level), InputEntries(disk, inputs), last)
      /\ IsFiniteSet(outputs)
      /\ \A f \in outputs : IsTable(disk.tables[f.number])
      /\ \A f, g \in outputs : f # g => ~KeysMeet(f, g.smallest.key, g.largest.key)
  <2>1. PICK kept : kept = Kept(Picked(files, level), InputEntries(disk, inputs), last)
    OBVIOUS
  <2>2. OutputEntries(disk, outputs) \cup {} = kept
    BY <1>1, <1>5, <2>1 DEF OInv, InCompaction
  <2>3. OutputEntries(disk, outputs) = kept
    BY <2>2
  <2> QED
    BY <1>1, <1>5, <2>1, <2>3 DEF OInv, InCompaction
<1>9. \A f \in outputs : /\ f.number \in DOMAIN disk.tables
                         /\ f = FileMetaData(f.number, disk.tables[f.number])
                         /\ disk.tables[f.number] \subseteq InputEntries(disk, inputs)
  <2>1. \A f \in outputs : /\ f.number \in DOMAIN disk.tables
                           /\ f = FileMetaData(f.number, disk.tables[f.number])
    BY <1>1, <1>5 DEF IInv, Compacting, Sound
  <2>2. OutputEntries(disk, outputs) \subseteq InputEntries(disk, inputs)
    BY <1>8 DEF Kept
  <2>3. \A f \in outputs : TableEntries(disk, f.number) = disk.tables[f.number]
    BY <2>1 DEF TableEntries
  <2>4. \A f \in outputs : TableEntries(disk, f.number) \subseteq OutputEntries(disk, outputs)
    BY DEF OutputEntries
  <2> QED
    BY <2>1, <2>2, <2>3, <2>4
<1>10. Settled(ApplyEdit(files, edit), disk, last)
  BY <1>6, <1>7, <1>8, <1>9, CompactionSettles
<1>11. Visible(Entries(disk, ApplyEdit(files, edit))) = contents
  <2>1. KeptIn(disk, files, level, inputs, outputs, last)
    BY <1>8 DEF KeptIn
  <2>2. Visible(Entries(disk, ApplyEdit(files, edit))) = Visible(Entries(disk, files))
    BY <1>6, <1>7, <1>8, <2>1, CompactionKeepsVisible
  <2> QED
    BY <1>7, <2>2
<1>12. InCompaction'
  <2>1. c'.edit = edit
    BY <1>2, <1>3
  <2>2. Current(vs').files = files /\ vs'.last = last /\ vs'.log = vs.log
    BY <1>1, <1>5
  <2> QED
    BY <1>1, <1>4, <1>5, <1>10, <1>11, <2>1, <2>2 DEF InCompaction
<1>13. SameVersions(vs, vs')
  BY <1>1 DEF SameVersions
<1> QED
  BY <1>1, <1>12, <1>13, ThreadKeepsOrder

(* With the edit in the manifest the directory says what the version to be *)
(* installed is.                                                           *)
LEMMA LoggedIsIntact ==
  ASSUME IInv, OInv, bg = "write"
  PROVE  /\ Intact(Logged) /\ Visible(Stored(Logged)) = contents
         /\ LastOfDisk(Logged) = vs.last /\ LogOfDisk(Logged) = vs.log
         /\ vs.log \in Nat /\ NothingLogged(Logged, vs.log)
<1>1. main \in Running
  BY BackgroundRuns
<1>2. /\ IsDirectory(Logged) /\ Logged.tables = disk.tables /\ Logged.logs = disk.logs
      /\ BuiltFiles(Logged) = ApplyEdit(Current(vs).files, c.edit)
      /\ NextOf(Logged) = vs.next /\ Manifest(Logged) = Append(Manifest(disk), c.edit)
  BY LoggedIs
<1>3. PICK files, edits, edit, two : /\ files = ApplyEdit(Current(vs).files, c.edit)
                                     /\ edits = Manifest(disk) /\ edit = c.edit
                                     /\ two = Append(edits, edit)
  OBVIOUS
<1>4. /\ LastOfDisk(disk) = vs.last /\ LogOfDisk(disk) = vs.log /\ vs.log \in Nat
      /\ NothingLogged(disk, vs.log) /\ vs.last \in Nat
  BY <1>1 DEF OInv, InTables, InVersions
<1>5. /\ edit["log"] = vs.log /\ edit["last"] = vs.last /\ edit["next"] = vs.next
      /\ Settled(files, disk, vs.last) /\ Visible(Entries(disk, files)) = contents
      /\ SoundEdit(edit, disk.tables, vs.next)
  BY <1>3 DEF OInv, InCompaction, IInv, Compacting
<1>6. vs.next \in Nat /\ SoundFiles(Current(vs).files, disk.tables, vs.next)
  BY CurrentIn DEF IInv, Versions
<1>7. SoundFiles(files, disk.tables, vs.next)
  BY <1>3, <1>5, <1>6, ApplyEditSound
<1>8. vs.log <= vs.next
  <2>1. LogOfDisk(disk) <= NextOf(disk)
    BY IntactIs DEF OInv, Lasting
  <2>2. NextOf(disk) \in Nat /\ NextOf(disk) <= vs.next
    BY <1>1 DEF IInv, Synced, NextOf, NextField
  <2> QED
    BY <1>4, <1>6, <2>1, <2>2
<1>9. PICK S : S = Range(edits) \cup {edit}
  OBVIOUS
<1>10. two \in Seq(S) /\ Len(two) > 0 /\ two[Len(two)] = edit
  <2>1. edits \in Seq(Range(edits))
    BY <1>3, DirectoryIs DEF IInv
  <2>2. edits \in Seq(S)
    BY <1>9, <2>1
  <2> QED
    BY ONLY <1>3, <1>9, <2>2
<1>11. ASSUME NEW field, edit[field] # Absent PROVE LastField(two, field) = edit[field]
  <2>1. two[Len(two)][field] # Absent
    BY <1>10, <1>11
  <2>2. LastField(two, field) = two[Len(two)][field]
    BY ONLY <1>10, <2>1, LastFieldIs
  <2> QED
    BY <1>10, <2>2
<1>12. /\ LastOfDisk(Logged) = vs.last /\ LogOfDisk(Logged) = vs.log
       /\ \A field \in {"log", "next", "last"} : LastField(Manifest(Logged), field) # Absent
  BY <1>2, <1>3, <1>4, <1>5, <1>6, <1>11 DEF LastOfDisk, LogOfDisk, Absent
<1>13. /\ Settled(files, Logged, vs.last) /\ Entries(Logged, files) = Entries(disk, files)
  <2>1. SameTables(files, disk, Logged)
    BY <1>2 DEF SameTables
  <2> QED
    BY <1>5, <1>7, <2>1, SettledStays
<1>14. NothingLogged(Logged, vs.log)
  BY <1>2, <1>4 DEF NothingLogged
<1>15. Intact(Logged) /\ Stored(Logged) = Entries(Logged, BuiltFiles(Logged))
  <2>1. PICK d, next : d = Logged /\ next = vs.next
    OBVIOUS
  <2>2. /\ SoundFiles(BuiltFiles(d), d.tables, next)
        /\ \A field \in {"log", "next", "last"} : LastField(Manifest(d), field) # Absent
        /\ LastOfDisk(d) \in Nat /\ LogOfDisk(d) \in Nat /\ LogOfDisk(d) <= NextOf(d)
        /\ Settled(BuiltFiles(d), d, LastOfDisk(d)) /\ NothingLogged(d, LogOfDisk(d))
    BY <1>2, <1>3, <1>4, <1>7, <1>8, <1>12, <1>13, <1>14, <2>1
  <2>3. Intact(d) /\ Stored(d) = Entries(d, BuiltFiles(d))
    BY <2>2, IntactInTables
  <2> QED
    BY <2>1, <2>3
<1>16. Visible(Stored(Logged)) = contents
  BY <1>2, <1>3, <1>5, <1>13, <1>15
<1> QED
  BY <1>4, <1>12, <1>14, <1>15, <1>16

(* The manifest is all that this changes.                                  *)
LEMMA LoggingKeepsOrder ==
  ASSUME IInv, OInv, bg = "write", disk' = Logged, UNCHANGED <<contents, main, vs>>, InCompaction'
  PROVE  OInv'
<1>1. main \in Running /\ main' \in Running
  BY BackgroundRuns
<1>2. /\ Intact(disk') /\ Visible(Stored(disk')) = contents
      /\ LastOfDisk(disk') = vs.last /\ LogOfDisk(disk') = vs.log
      /\ vs.log \in Nat /\ NothingLogged(disk', vs.log)
  BY LoggedIsIntact
<1>3. disk'.tables = disk.tables
  BY LoggedIs
<1>4. \A v \in DOMAIN vs.versions :
         /\ Settled(vs.versions[v].files, disk', vs.last)
         /\ Entries(disk', vs.versions[v].files) = Entries(disk, vs.versions[v].files)
  BY <1>3, VersionsStaySettled DEF SameTables
<1>5. InVersions'
  BY <1>1, <1>4 DEF OInv, InVersions
<1>6. InRecovery' /\ InTables'
  BY <1>1, <1>2 DEF InRecovery, InTables, Opening, Running, Reading
<1> QED
  BY <1>2, <1>5, <1>6 DEF OInv, Lasting

(* The edit is appended to the manifest.                                   *)
LEMMA WriteEditKeepsOrder == ASSUME IInv, OInv, WriteEdit PROVE OInv'
<1>1. /\ bg = "write" /\ bg' = "install" /\ disk' = Logged /\ UNCHANGED <<contents, main, vs, c>>
  BY DEF WriteEdit
<1>2. PICK files, next : files = ApplyEdit(Current(vs).files, c.edit) /\ next = vs.next
  OBVIOUS
<1>3. /\ c.edit.log = vs.log /\ c.edit.last = vs.last
      /\ Settled(files, disk, vs.last) /\ Visible(Entries(disk, files)) = contents
      /\ SoundEdit(c.edit, disk.tables, next)
  BY <1>1, <1>2 DEF OInv, InCompaction, IInv, Compacting
<1>4. SoundFiles(files, disk.tables, next)
  BY <1>2, <1>3, CurrentIn, ApplyEditSound
<1>5. disk'.tables = disk.tables
  BY <1>1, LoggedIs
<1>6. /\ Settled(files, disk', vs.last) /\ Entries(disk', files) = Entries(disk, files)
  <2>1. SameTables(files, disk, disk')
    BY <1>5 DEF SameTables
  <2> QED
    BY <1>3, <1>4, <2>1, SettledStays
<1>7. InCompaction'
  BY <1>1, <1>2, <1>3, <1>6 DEF InCompaction
<1> QED
  BY <1>1, <1>7, LoggingKeepsOrder

(* A failed append may have reached the file or not: either version is one *)
(* that holds what was stored.                                             *)
LEMMA CompactionFailsKeepsOrder == ASSUME IInv, OInv, CompactionFails PROVE OInv'
<1>1. /\ bg \in {"work", "write"} /\ bg' = "failed" /\ UNCHANGED <<contents, main, vs>>
      /\ disk' = disk \/ (bg = "write" /\ disk' = Logged)
  BY DEF CompactionFails
<1>2. InCompaction'
  BY <1>1 DEF InCompaction
<1>3. CASE disk' = disk
  <2>1. SameVersions(vs, vs')
    BY <1>1 DEF SameVersions
  <2> QED
    BY <1>1, <1>2, <1>3, <2>1, ThreadKeepsOrder
<1>4. CASE bg = "write" /\ disk' = Logged
  BY <1>1, <1>2, <1>4, LoggingKeepsOrder
<1> QED
  BY <1>1, <1>3, <1>4

(* The version is installed, and what only the inputs needed may go.       *)
LEMMA InstalledKeepsOrder ==
  ASSUME IInv, OInv, bg = "install"
  PROVE  /\ Installed.last = vs.last /\ Installed.log = vs.log
         /\ \A v \in DOMAIN Installed.versions :
               /\ Settled(Installed.versions[v].files, disk, vs.last)
               /\ \A p \in Installed.versions[v].seek : p[1] # MaxLevel
               /\ Visible(Entries(disk, Installed.versions[v].files)) = contents
<1>1. /\ IsVersionSet(vs) /\ Referenced(vs, c.version, iter.version) /\ c.version = vs.current
      /\ vs.current \in Nat \ {0} /\ main \in Running
  BY BackgroundRuns DEF IInv, Versions, Control, Referenced
<1>2. PICK edit, k, i, files :
        edit = c.edit /\ k = c.version /\ i = iter.version /\ files = Current(vs).files
  OBVIOUS
<1>3. PICK t : t = AppendVersion(vs, edit)
  OBVIOUS
<1>4. /\ IsVersionSet(t) /\ Referenced(t, k, i) /\ t.last = vs.last /\ t.log = vs.log
      /\ Current(t).files = ApplyEdit(files, edit) /\ Current(t).seek = {}
      /\ \A v \in DOMAIN t.versions : v # t.current =>
            /\ v \in DOMAIN vs.versions
            /\ t.versions[v].files = vs.versions[v].files
            /\ t.versions[v].seek = vs.versions[v].seek
  BY <1>1, <1>2, <1>3, AppendVersionCounts
<1>5. k \in DOMAIN t.versions /\ k # 0
  BY <1>1, <1>2, <1>4 DEF Referenced
<1>6. PICK s : s = Unref(t, k)
  OBVIOUS
<1>7. SameVersions(t, s)
  BY <1>4, <1>5, <1>6, UnrefCounts
<1>8. s = Installed
  BY <1>2, <1>3, <1>6 DEF Installed
<1>9. /\ Settled(ApplyEdit(files, edit), disk, vs.last)
      /\ Visible(Entries(disk, ApplyEdit(files, edit))) = contents
  BY <1>2 DEF OInv, InCompaction
<1>10. ASSUME NEW v \in DOMAIN s.versions
       PROVE  /\ Settled(s.versions[v].files, disk, vs.last)
              /\ \A p \in s.versions[v].seek : p[1] # MaxLevel
              /\ Visible(Entries(disk, s.versions[v].files)) = contents
  <2>1. /\ v \in DOMAIN t.versions /\ s.versions[v].files = t.versions[v].files
        /\ s.versions[v].seek = t.versions[v].seek
    BY <1>7 DEF SameVersions
  <2>2. CASE v = t.current
    BY <1>4, <1>9, <2>1, <2>2 DEF Current
  <2>3. CASE v # t.current
    BY <1>1, <1>4, <2>1, <2>3 DEF OInv, InVersions
  <2> QED
    BY <2>2, <2>3
<1> QED
  BY <1>4, <1>7, <1>8, <1>10 DEF SameVersions

(* InstallVersion, with what it deletes.                                   *)
LEMMA InstallVersionKeepsOrder == ASSUME IInv, OInv, InstallVersion PROVE OInv'
<1>1. /\ bg = "install" /\ ~db.error /\ UNCHANGED <<contents, main>> /\ IsDisk(disk)
  BY DirectoryIs DEF IInv, Control, InstallVersion
<1>2. PICK s, d :
         /\ s = Installed /\ d = [db EXCEPT !.pending = {}]
         /\ disk' = IF c.moved THEN disk ELSE DeleteObsoleteFiles(disk, d, s)
         /\ EndBackgroundCall(d, s)
  BY DEF InstallVersion, Installed
<1>3. main \in Running /\ main' \in Running
  BY <1>1, BackgroundRuns
<1>4. /\ s.manifest = vs.manifest /\ s.current \in DOMAIN s.versions
      /\ s.versions[s.current].files = ApplyEdit(Current(vs).files, c.edit)
      /\ \A v \in DOMAIN s.versions : SoundFiles(s.versions[v].files, disk.tables, vs.next)
  BY <1>1, <1>2, InstalledIs
<1>5. /\ s.last = vs.last /\ s.log = vs.log
      /\ \A v \in DOMAIN s.versions :
            /\ Settled(s.versions[v].files, disk, vs.last)
            /\ \A p \in s.versions[v].seek : p[1] # MaxLevel
            /\ Visible(Entries(disk, s.versions[v].files)) = contents
  BY <1>1, <1>2, InstalledKeepsOrder
<1>6. /\ disk.current = vs.manifest /\ BuiltFiles(disk) = s.versions[s.current].files
  BY <1>1, <1>3, <1>4 DEF IInv, Synced, BuiltFiles
<1>7. ~d.error
  BY <1>1, <1>2 DEF IInv, Control
<1>8. /\ SameManifest(disk, disk')
      /\ \A v \in DOMAIN s.versions : SameTables(s.versions[v].files, disk, disk')
      /\ \A n \in DOMAIN disk'.logs : n \in DOMAIN disk.logs /\ disk'.logs[n] = disk.logs[n]
  <2>1. CASE disk' = disk
    BY <2>1 DEF SameManifest, SameTables
  <2>2. CASE disk' = DeleteObsoleteFiles(disk, d, s)
    <3>1. PICK live, log, manifest :
             live = d.pending \cup LiveFiles(s) /\ log = s.log /\ manifest = s.manifest
      OBVIOUS
    <3>2. disk' = Cleaned(disk, live, log, manifest)
      BY <1>7, <2>2, <3>1 DEF DeleteObsoleteFiles
    <3>3. /\ IsDisk(disk') /\ SameManifest(disk, disk')
          /\ \A files : (\A l \in Levels : \A f \in files[l] : f.number \in live)
                           => SameTables(files, disk, disk')
      BY <1>4, <1>6, <3>1, <3>2, CleanedKeeps DEF IInv
    <3>4. \A files : (\A l \in Levels : \A f \in files[l] : f.number \in LiveFiles(s))
                        => SameTables(files, disk, disk')
      BY <3>1, <3>3
    <3>5. \A n \in DOMAIN disk'.logs : n \in DOMAIN disk.logs /\ disk'.logs[n] = disk.logs[n]
      BY <1>1, <3>2, CleanedLogs
    <3> QED
      BY <1>4, <1>6, <3>3, <3>4, <3>5, ObsoleteFilesOnly DEF IInv
  <2> QED
    BY <1>2, <2>1, <2>2
<1>9. vs' = s /\ bg' = "idle"
  BY <1>2 DEF EndBackgroundCall
<1>10. Lasting' /\ InRecovery' /\ InTables'
  <2>1. SameTables(BuiltFiles(disk), disk, disk')
    BY <1>4, <1>6, <1>8
  <2> QED
    BY <1>1, <1>3, <1>5, <1>8, <1>9, <2>1, RunningStaysStored
<1>11. InVersions'
  <2>1. \A v \in DOMAIN s.versions :
           /\ Settled(s.versions[v].files, disk', vs.last)
           /\ Entries(disk', s.versions[v].files) = Entries(disk, s.versions[v].files)
    BY <1>4, <1>5, <1>8, SettledStays
  <2>2. vs.last \in Nat
    BY DEF OInv, InVersions
  <2> QED
    BY <1>1, <1>5, <1>9, <2>1, <2>2 DEF InVersions
<1>12. InCompaction'
  BY <1>9 DEF InCompaction
<1> QED
  BY <1>10, <1>11, <1>12 DEF OInv

-----------------------------------------------------------------------------
(* Failures: what is left behind holds what was stored.                    *)
LEMMA LeftKeepsOrder ==
  ASSUME IInv, OInv, LeftBehind(disk'), Down, contents' = contents
  PROVE  OInv'
<1>1. SameRecords(disk, disk')
  <2>1. CASE main \in Running
    BY <2>1, LogsMayGo DEF LeftBehind
  <2>2. CASE main \notin Running
    BY <2>2, SameLogs DEF LeftBehind
  <2> QED
    BY <2>1, <2>2
<1>2. Lasting'
  BY <1>1, LastingStays DEF LeftBehind
<1> QED
  BY <1>2, DownKeeps DEF Lasting

(* Every step keeps the order of the writes.                               *)
LEMMA StepKeepsOrder == IInv /\ OInv /\ [Next]_vars => OInv'
<1> SUFFICES ASSUME IInv, OInv, [Next]_vars PROVE OInv'
  OBVIOUS
<1>1. CASE Start
  BY <1>1, StartKeepsOrder
<1>2. CASE Main
  BY <1>2, NewDBKeepsOrder, WriteTempKeepsOrder, RenameNewDBKeepsOrder, RecoverKeepsOrder,
     RecoverLogFileKeepsOrder, NewLogKeepsOrder, WriteManifestKeepsOrder,
     RenameAndInstallKeepsOrder, OpenedKeepsOrder, NewIteratorKeepsOrder, SeekKeepsOrder,
     NextPairKeepsOrder, DeleteIteratorKeepsOrder, ShutDownKeepsOrder, ClosedKeepsOrder DEF Main
<1>3. CASE Background
  BY <1>3, BackgroundCallIdleKeepsOrder, TrivialMoveKeepsOrder, StartCompactionKeepsOrder,
     OpenOutputKeepsOrder, FinishOutputKeepsOrder, InstallResultsKeepsOrder,
     WriteEditKeepsOrder, InstallVersionKeepsOrder, AbandonCompactionKeepsOrder DEF Background
<1>4. CASE CompactionFails
  BY <1>4, CompactionFailsKeepsOrder
<1>5. CASE OpenFails
  BY <1>5, OpenFailsLeaves, LeftKeepsOrder DEF OpenFails
<1>6. CASE Crash
  BY <1>6, CrashLeaves, LeftKeepsOrder DEF Crash
<1>7. CASE UNCHANGED vars
  <2>1. /\ disk' = disk /\ contents' = contents /\ main' = main /\ rec' = rec /\ vs' = vs
        /\ db' = db /\ bg' = bg /\ c' = c
    BY <1>7 DEF vars
  <2> QED
    BY <2>1 DEF OInv, Lasting, InVersions, InRecovery, Recovered, InTables, InCompaction
<1> QED
  BY <1>1, <1>2, <1>3, <1>4, <1>5, <1>6, <1>7 DEF Next

(* The strengthened invariant says that newer writes lie above older ones, *)
LEMMA InOrder == OInv => NewestAbove
BY DEF OInv, InVersions, Settled, NewestAbove

(* and that nothing is lost.                                               *)
LEMMA AllThere == OInv => NothingLost
BY IntactIs DEF OInv, Lasting, NothingLost

(* From a directory in which a node has left its writes as it should, in   *)
(* every version that somebody uses a write of a key lies above all older  *)
(* ones of it, and tables below the first level do not meet: recovery of   *)
(* the logs, moves, merges and their failures keep it so.                  *)
THEOREM NewestStaysAbove ==
  ASSUME \A d \in Databases : Intact(d)
  PROVE  Spec => []NewestAbove
<1>1. Init => IInv /\ OInv
  BY StartsIn, IntactStart
<1>2. IInv /\ OInv /\ [Next]_vars => IInv' /\ OInv'
  BY StepKeeps, StepKeepsOrder
<1>3. IInv /\ OInv => NewestAbove
  BY InOrder
<1> QED
  BY <1>1, <1>2, <1>3, PTL DEF Spec, SafeSpec

(* And nothing is lost: at every step of opening, compacting and closing,  *)
(* and after every crash and every failed write, the directory can be      *)
(* opened, and what there is to read in it is what there was at first.     *)
THEOREM NothingIsLost ==
  ASSUME \A d \in Databases : Intact(d)
  PROVE  Spec => []NothingLost
<1>1. Init => IInv /\ OInv
  BY StartsIn, IntactStart
<1>2. IInv /\ OInv /\ [Next]_vars => IInv' /\ OInv'
  BY StepKeeps, StepKeepsOrder
<1>3. IInv /\ OInv => NothingLost
  BY AllThere
<1> QED
  BY <1>1, <1>2, <1>3, PTL DEF Spec, SafeSpec

-----------------------------------------------------------------------------
(***************************************************************************)
(* The third part: a reading hands out what is stored.  The entry that the *)
(* iterator stands at is the next pair of contents; the invariant says so  *)
(* of contents and of what was handed out, which no compaction changes.    *)
(***************************************************************************)
Scanning == {"seek", "read"}

ReadInv ==
    /\ contents \subseteq Writes
    /\ delivered \in Seq([key : Nat, value : Nat])
    /\ main \in Scanning => iter = [version |-> iter.version, sequence |-> vs.last, at |-> iter.at]
    /\ main = "seek" => delivered = << >>
    /\ main = "read" =>
          \E e \in contents :
             /\ iter.at = {e} /\ Target <= e.key
             /\ \A i \in DOMAIN delivered : delivered[i].key < e.key
             /\ \A x \in contents : Target <= x.key /\ x.key < e.key =>
                   \E i \in DOMAIN delivered : x.key <= delivered[i].key

(* FindNextUserEntry stops at the first visible entry past the key skip,   *)
(* if there is one: entries that newer ones hide are passed over.          *)
LEMMA NextUserEntry ==
  ASSUME NEW M, M \subseteq Writes, IsFiniteSet(M),
         \A e, x \in M : e.key = x.key /\ e.seq = x.seq => e = x,
         NEW sequence \in Nat, \A e \in M : e.seq <= sequence,
         NEW skip \in Int, NEW E, E \subseteq M, \A e \in M : e.key > skip => e \in E,
         NEW found, found = Acceptable(E, sequence, skip)
  PROVE  /\ found = {} => \A x \in Visible(M) : x.key <= skip
         /\ found # {} => /\ FirstOf(found) \in Visible(M) /\ FirstOf(found).key > skip
                          /\ \A x \in Visible(M) : x.key > skip => FirstOf(found).key <= x.key
<1>1. \A e \in M : e.key \in Nat /\ e.seq \in Nat /\ e.del \in BOOLEAN
  BY DEF Writes
<1>2. ASSUME NEW x \in Visible(M), x.key > skip PROVE x \in found
  <2>1. x \in M /\ ~x.del /\ \A f \in M : f.key = x.key => f.seq <= x.seq
    BY DEF Visible
  <2>2. x \in E /\ x.seq <= sequence
    BY <1>2, <2>1
  <2>3. ~\E d \in E : d.del /\ d.key = x.key /\ d.seq > x.seq /\ d.seq <= sequence
    BY <1>1, <2>1
  <2> QED
    BY <1>2, <2>1, <2>2, <2>3 DEF Acceptable
<1>3. \A e \in found : e \in M /\ e \in E /\ ~e.del /\ e.key > skip
  BY DEF Acceptable
<1>4. ASSUME found # {}
      PROVE  /\ FirstOf(found) \in Visible(M) /\ FirstOf(found).key > skip
             /\ \A x \in Visible(M) : x.key > skip => FirstOf(found).key <= x.key
  <2>1. IsTable(found)
    BY <1>3, <1>4, FS_Subset DEF IsTable
  <2>2. PICK e : e = FirstOf(found)
    OBVIOUS
  <2>3. /\ e \in found /\ \A x \in found : e.key <= x.key
        /\ \A x \in found \ {e} : Before(e, x)
    BY <2>1, <2>2, TableEnds
  <2>4. ASSUME NEW f \in M, f.key = e.key PROVE f.seq <= e.seq
    <3>1. f \in E /\ f.key > skip /\ f.seq <= sequence
      BY <1>3, <2>3, <2>4
    <3>2. CASE f \in found
      BY <1>1, <1>3, <2>3, <2>4, <3>2 DEF Before
    <3>3. CASE f \notin found /\ f.del
      <4>1. ~\E d \in E : d.del /\ d.key = e.key /\ d.seq > e.seq /\ d.seq <= sequence
        BY <2>3 DEF Acceptable
      <4> QED
        BY <1>1, <1>3, <2>3, <2>4, <3>1, <3>3, <4>1
    <3>4. CASE f \notin found /\ ~f.del
      <4>1. PICK d \in E : d.del /\ d.key = f.key /\ d.seq > f.seq /\ d.seq <= sequence
        BY <3>1, <3>4 DEF Acceptable
      <4>2. ~(d.seq > e.seq)
        BY <2>3, <2>4, <4>1 DEF Acceptable
      <4> QED
        BY <1>1, <1>3, <2>3, <4>1, <4>2
    <3> QED
      BY <3>2, <3>3, <3>4
  <2>5. e \in Visible(M)
    BY <1>3, <2>3, <2>4 DEF Visible
  <2> QED
    BY <1>2, <1>3, <2>2, <2>3, <2>5
<1> QED
  BY <1>1, <1>2, <1>4 DEF Visible

(* The version that is read shows contents, and the iterator reads all of  *)
(* it.                                                                     *)
LEMMA MergedShows ==
  ASSUME IInv, OInv, main \in Scanning
  PROVE  /\ Merged \subseteq Writes /\ IsFiniteSet(Merged)
         /\ \A e, x \in Merged : e.key = x.key /\ e.seq = x.seq => e = x
         /\ vs.last \in Nat /\ \A e \in Merged : e.seq <= vs.last
         /\ Visible(Merged) = contents
<1>1. main \in Running /\ iter.version \in DOMAIN vs.versions
  BY DEF IInv, Control, Versions, Referenced, Running, Reading, Scanning
<1>2. PICK files : files = vs.versions[iter.version].files
  OBVIOUS
<1>3. /\ SoundFiles(files, disk.tables, vs.next) /\ Settled(files, disk, vs.last)
      /\ Visible(Entries(disk, files)) = contents /\ vs.last \in Nat
  BY <1>1, <1>2 DEF IInv, Versions, OInv, InVersions
<1>4. Merged = Entries(disk, files)
  BY <1>2 DEF Merged
<1> QED
  BY <1>3, <1>4, EntriesDiffer

(* So a move of the iterator ends at the next pair, if there is one.       *)
LEMMA StandsAtNext ==
  ASSUME IInv, OInv, ReadInv, main \in Scanning,
         NEW skip \in Int, NEW E, E \subseteq Merged, \A e \in Merged : e.key > skip => e \in E,
         FindNextUserEntry(E, skip)
  PROVE  /\ vs'.last = vs.last
         /\ iter' = [version |-> iter'.version, sequence |-> vs'.last, at |-> iter'.at]
         /\ iter'.at = {} => \A x \in contents : x.key <= skip
         /\ iter'.at # {} => \E e \in contents :
               /\ iter'.at = {e} /\ skip < e.key
               /\ \A x \in contents : skip < x.key => e.key <= x.key
<1>1. /\ iter = [version |-> iter.version, sequence |-> vs.last, at |-> iter.at]
      /\ contents \subseteq Writes
  BY DEF ReadInv
<1>2. PICK found : found = Acceptable(E, vs.last, skip)
  OBVIOUS
<1>3. iter.sequence = vs.last
  BY <1>1
<1>4. PICK passed : /\ iter' = [iter EXCEPT !.at = IF found = {} THEN {} ELSE {FirstOf(found)}]
                    /\ RecordReadSample(passed)
  BY <1>2, <1>3 DEF FindNextUserEntry
<1>5. vs'.last = vs.last
  <2>1. IsVersionSet(vs)
    BY DEF IInv, Versions
  <2>2. vs' = vs \/ \E versions : vs' = [vs EXCEPT !.versions = versions]
    <3>1. CASE vs' # vs
      <4>1. PICK e : vs' = [vs EXCEPT !.versions[vs.current].seek =
                               {FirstMatch(Overlapping(Current(vs).files, e))}]
        BY <1>4, <3>1 DEF RecordReadSample
      <4> QED
        BY <4>1
    <3> QED
      BY <3>1
  <2> QED
    BY <2>1, <2>2 DEF IsVersionSet
<1>6. /\ iter'.at = IF found = {} THEN {} ELSE {FirstOf(found)}
      /\ iter' = [version |-> iter'.version, sequence |-> vs'.last, at |-> iter'.at]
  BY <1>1, <1>4, <1>5
<1>7. /\ found = {} => \A x \in Visible(Merged) : x.key <= skip
      /\ found # {} => /\ FirstOf(found) \in Visible(Merged) /\ FirstOf(found).key > skip
                       /\ \A x \in Visible(Merged) :
                             x.key > skip => FirstOf(found).key <= x.key
  <2>1. PICK M : M = Merged
    OBVIOUS
  <2>2. PICK sequence \in Nat : sequence = vs.last
    BY MergedShows
  <2>3. /\ M \subseteq Writes /\ IsFiniteSet(M) /\ \A e \in M : e.seq <= sequence
        /\ \A e, x \in M : e.key = x.key /\ e.seq = x.seq => e = x
        /\ E \subseteq M /\ \A e \in M : e.key > skip => e \in E
        /\ found = Acceptable(E, sequence, skip)
    BY <1>2, <2>1, <2>2, MergedShows
  <2> QED
    BY <2>1, <2>2, <2>3, NextUserEntry
<1>8. Visible(Merged) = contents /\ \A x \in contents : x.key \in Nat
  BY <1>1, MergedShows DEF Writes
<1>9. CASE found = {}
  BY <1>5, <1>6, <1>7, <1>8, <1>9
<1>10. CASE found # {}
  <2>1. PICK e : e = FirstOf(found)
    OBVIOUS
  <2> QED
    BY <1>5, <1>6, <1>7, <1>8, <1>10, <2>1
<1> QED
  BY <1>9, <1>10

(* What the background thread does, and what befalls it, does not touch    *)
(* the reading.                                                            *)
LEMMA OthersLeaveReading ==
  ASSUME IInv, OInv, Background \/ CompactionFails
  PROVE  UNCHANGED <<contents, main, iter, delivered>> /\ vs'.last = vs.last
<1>1. UNCHANGED <<contents, main, iter, delivered>>
  BY DEF Background, CompactionFails, BackgroundCallIdle, TrivialMove, StartCompaction,
         OpenCompactionOutputFile, FinishCompactionOutputFile, InstallCompactionResults,
         WriteEdit, InstallVersion, AbandonCompaction
<1>2. IsVersionSet(vs)
  BY DEF IInv, Versions
<1>3. \A v : Ref(vs, v).last = vs.last /\ Unref(vs, v).last = vs.last
  <2> TAKE v
  <2>1. \E versions : Ref(vs, v) = [vs EXCEPT !.versions = versions]
    BY DEF Ref
  <2>2. \E versions : Unref(vs, v) = [vs EXCEPT !.versions = versions]
    BY DEF Unref
  <2> QED
    BY <1>2, <2>1, <2>2 DEF IsVersionSet
<1>4. CASE InstallVersion
  <2>1. bg = "install" /\ vs' = Installed
    BY <1>4 DEF InstallVersion, Installed, EndBackgroundCall
  <2> QED
    BY <1>1, <2>1, InstalledKeepsOrder
<1>5. CASE OpenCompactionOutputFile
  BY <1>2, <1>5 DEF OpenCompactionOutputFile, IsVersionSet
<1>6. CASE TrivialMove \/ StartCompaction \/ BackgroundCallIdle \/ AbandonCompaction
  BY <1>3, <1>6 DEF TrivialMove, StartCompaction, BackgroundCallIdle, AbandonCompaction,
                    EndBackgroundCall
<1>7. CASE FinishCompactionOutputFile \/ InstallCompactionResults \/ WriteEdit \/ CompactionFails
  BY <1>7 DEF FinishCompactionOutputFile, InstallCompactionResults, WriteEdit, CompactionFails
<1> QED
  BY <1>1, <1>4, <1>5, <1>6, <1>7 DEF Background

(* A directory that is intact holds writes only.                           *)
LEMMA StoredWrites ==
  ASSUME NEW d, Intact(d)
  PROVE  Stored(d) \subseteq Writes
<1>1. Stored(d) = Entries(d, BuiltFiles(d)) \cup LogEntries(d)
  BY StoredIs
<1>2. Entries(d, BuiltFiles(d)) \subseteq Writes
  <2>1. \A l \in Levels : \A f \in BuiltFiles(d)[l] : TableEntries(d, f.number) \subseteq Writes
    BY IntactIs DEF Settled, TableEntries, IsTable
  <2> QED
    BY <2>1, EntriesAre
<1>3. LogEntries(d) \subseteq Writes
  <2>1. \A n \in LogsToRead(d) : \A i \in DOMAIN ReadRecords(d.logs[n]) :
           ReadRecords(d.logs[n])[i] \subseteq Writes
    BY IntactIs DEF LogsInOrder, IsTable
  <2> QED
    BY <2>1, LogEntriesAre
<1> QED
  BY <1>1, <1>2, <1>3

(* SortedStore, of the pairs stored and of the phase of the reading: the   *)
(* pairs it has yet to come to,                                            *)
Pair(e) == [key |-> e.key, value |-> e.seq]

Phase == IF main \in Scanning THEN "reading"
         ELSE IF main \in {"release", "delete", "wait"} THEN "finished" ELSE "closed"

LEMMA AheadIs ==
  ASSUME NEW pair
  PROVE  pair \in Store!Ahead <=>
            \E e \in contents : /\ pair = Pair(e) /\ e.key \in Wanted
                                /\ \A i \in DOMAIN delivered : delivered[i].key < e.key
BY DEF Store!Ahead, Pair

(* and its actions.                                                        *)
LEMMA StoreSteps ==
  ASSUME contents' = contents
  PROVE  /\ Phase = "closed" /\ Phase' = "reading" /\ delivered' = << >> => Store!Begin
         /\ Phase = "reading" /\ (\E pair \in Store!Ahead :
               /\ \A other \in Store!Ahead : pair.key <= other.key
               /\ delivered' = Append(delivered, pair)
               /\ Phase' = "reading" \/ (Phase' = "finished" /\ Store!Ahead = {pair}))
            => Store!Deliver
         /\ Phase = "reading" /\ Store!Ahead = {} /\ Phase' = "finished" /\ delivered' = delivered
            => Store!FindNothing
         /\ Phase' = "closed" /\ delivered' = << >> => Store!Close
         /\ Phase' = Phase /\ delivered' = delivered => UNCHANGED Store!vars
BY DEF Store!Begin, Store!Deliver, Store!FindNothing, Store!Close, Store!vars, Phase, Scanning

(* In the beginning nothing is read.                                       *)
LEMMA InitReads ==
  ASSUME \A d \in Databases : Intact(d), Init
  PROVE  ReadInv /\ Store!Init
<1>1. /\ disk \in Databases /\ contents = Visible(Stored(disk))
      /\ main = "down" /\ delivered = << >>
  BY DEF Init
<1>2. contents \subseteq Writes
  BY <1>1, StoredWrites DEF Visible
<1>3. << >> \in Seq([key : Nat, value : Nat])
  OBVIOUS
<1>4. ReadInv
  BY <1>1, <1>2, <1>3 DEF ReadInv, Scanning
<1>5. {[key |-> e.key, value |-> e.seq] : e \in contents} \subseteq [key : Nat, value : Nat]
  BY <1>2 DEF Writes
<1>6. Store!Init
  BY <1>1, <1>5 DEF Store!Init
<1> QED
  BY <1>4, <1>6

(* Where no reading is under way there is nothing to keep.                 *)
LEMMA NotReading ==
  ASSUME ReadInv, contents' = contents, main' \notin Scanning,
         delivered' = delivered \/ delivered' = << >>
  PROVE  ReadInv'
<1>1. << >> \in Seq([key : Nat, value : Nat])
  OBVIOUS
<1> QED
  BY <1>1 DEF ReadInv, Scanning

(* And a step of another thread keeps what there is.                       *)
LEMMA ReadingGoesOn ==
  ASSUME ReadInv, UNCHANGED <<contents, main, iter, delivered>>, vs'.last = vs.last
  PROVE  ReadInv' /\ UNCHANGED Store!vars
<1>1. Phase' = Phase
  BY DEF Phase
<1>2. UNCHANGED Store!vars
  BY <1>1, StoreSteps
<1>3. ReadInv'
  BY DEF ReadInv, Target
<1> QED
  BY <1>2, <1>3

(* The main thread opens the database, or gives the iterator back.         *)
LEMMA OpeningReadsNothing ==
  ASSUME ReadInv, main \notin Scanning,
         \/ Start \/ NewDB \/ WriteTemp \/ RenameNewDB \/ (Recover /\ Readable) \/ RecoverLogFile
         \/ NewLog \/ WriteManifest \/ RenameAndInstall \/ Opened \/ DeleteIterator \/ ShutDown
  PROVE  ReadInv' /\ UNCHANGED Store!vars
<1> DEFINE before == Opening \cup Early \cup {"opened", "open"}
           after == {"release", "delete", "wait"}
<1>1. /\ contents' = contents /\ delivered' = delivered
      /\ \/ main \in before /\ main' \in before
         \/ main \in after /\ main' \in after
  <2>1. CASE Start \/ NewDB \/ WriteTemp \/ RenameNewDB \/ (Recover /\ Readable)
    BY <2>1 DEF Start, NewDB, WriteTemp, RenameNewDB, Recover, ReadManifest, Opening, Early
  <2>2. CASE RecoverLogFile
    BY <2>2 DEF RecoverLogFile, Opening
  <2>3. CASE NewLog \/ WriteManifest \/ RenameAndInstall \/ Opened
    BY <2>3 DEF NewLog, WriteManifest, RenameAndInstall, Opened, Opening
  <2>4. CASE DeleteIterator \/ ShutDown
    BY <2>4 DEF DeleteIterator, ShutDown
  <2> QED
    BY <2>1, <2>2, <2>3, <2>4
<1>2. main' \notin Scanning /\ Phase' = Phase
  BY <1>1 DEF Scanning, Phase, Opening, Early
<1>3. ReadInv'
  BY <1>1, <1>2, NotReading
<1>4. UNCHANGED Store!vars
  BY <1>1, <1>2, StoreSteps
<1> QED
  BY <1>3, <1>4

(* Closing, and a failure of the process, end the reading.                 *)
LEMMA DownEndsReading ==
  ASSUME ReadInv, Down, contents' = contents
  PROVE  ReadInv' /\ Store!Close
<1>1. contents' = contents /\ main' = "down" /\ delivered' = << >>
  BY DEF Down
<1>2. main' \notin Scanning /\ Phase' = "closed"
  BY <1>1 DEF Scanning, Phase
<1>3. ReadInv'
  BY <1>1, <1>2, NotReading
<1>4. Store!Close
  BY <1>1, <1>2, StoreSteps
<1> QED
  BY <1>3, <1>4

(* A new iterator stands nowhere yet.                                      *)
LEMMA NewIteratorBegins ==
  ASSUME IInv, ReadInv, NewIterator
  PROVE  ReadInv' /\ Store!Begin
<1>1. /\ main = "open" /\ main' = "seek" /\ contents' = contents /\ delivered' = << >>
      /\ iter' = [version |-> vs.current, sequence |-> vs.last, at |-> {}]
  BY DEF NewIterator
<1>2. vs'.last = vs.last
  <2>1. \E versions : vs' = [vs EXCEPT !.versions = versions]
    BY DEF NewIterator, Ref
  <2> QED
    BY <2>1 DEF IInv, Versions, IsVersionSet
<1>3. Phase = "closed" /\ Phase' = "reading"
  BY <1>1 DEF Phase, Scanning
<1>4. Store!Begin
  BY <1>1, <1>3, StoreSteps
<1>5. << >> \in Seq([key : Nat, value : Nat])
  OBVIOUS
<1>6. iter' = [version |-> iter'.version, sequence |-> vs'.last, at |-> iter'.at]
  BY <1>1, <1>2
<1>7. ReadInv'
  BY <1>1, <1>5, <1>6 DEF ReadInv, Scanning
<1> QED
  BY <1>4, <1>7

(* Seek comes to the first pair of the range, or finds none.               *)
LEMMA SeekReads ==
  ASSUME IInv, OInv, ReadInv, Seek
  PROVE  ReadInv' /\ (Store!FindNothing \/ UNCHANGED Store!vars)
<1>1. /\ main = "seek" /\ contents' = contents /\ delivered' = delivered /\ delivered = << >>
      /\ main' = IF iter'.at = {} THEN "release" ELSE "read"
      /\ main \in Scanning
  BY DEF Seek, ReadInv, Scanning
<1>2. Target \in Wanted /\ Target \in Nat /\ \A k \in Wanted : k \in Nat /\ Target <= k
  BY WantedAssumption, MinIn DEF Target
<1>3. \A x \in contents : x.key \in Nat
  BY DEF ReadInv, Writes
<1>4. /\ vs'.last = vs.last
      /\ iter' = [version |-> iter'.version, sequence |-> vs'.last, at |-> iter'.at]
      /\ iter'.at = {} => \A x \in contents : x.key <= Target - 1
      /\ iter'.at # {} => \E e \in contents :
            /\ iter'.at = {e} /\ Target - 1 < e.key
            /\ \A x \in contents : Target - 1 < x.key => e.key <= x.key
  <2>1. PICK E : E = {e \in Merged : e.key >= Target}
    OBVIOUS
  <2>2. PICK skip \in Int : skip = Target - 1
    BY <1>2
  <2>3. FindNextUserEntry(E, skip)
    BY <2>1, <2>2 DEF Seek
  <2>4. \A e \in Merged : e.key \in Nat
    BY <1>1, MergedShows DEF Writes
  <2>5. E \subseteq Merged /\ \A e \in Merged : e.key > skip => e \in E
    BY <1>2, <2>1, <2>2, <2>4
  <2>6. /\ vs'.last = vs.last
        /\ iter' = [version |-> iter'.version, sequence |-> vs'.last, at |-> iter'.at]
        /\ iter'.at = {} => \A x \in contents : x.key <= skip
        /\ iter'.at # {} => \E e \in contents :
              /\ iter'.at = {e} /\ skip < e.key
              /\ \A x \in contents : skip < x.key => e.key <= x.key
    BY <1>1, <2>3, <2>5, StandsAtNext
  <2> QED
    BY <2>2, <2>6
<1>5. CASE iter'.at = {}
  <2>1. main' = "release"
    BY <1>1, <1>5
  <2>2. ReadInv'
    BY <1>1, <2>1, NotReading DEF Scanning
  <2>3. Store!Ahead = {}
    <3>1. \A e \in contents : e.key \notin Wanted
      BY <1>2, <1>3, <1>4, <1>5
    <3> QED
      BY <3>1, AheadIs
  <2>4. Store!FindNothing
    BY <1>1, <2>1, <2>3, StoreSteps DEF Phase, Scanning
  <2> QED
    BY <2>2, <2>4
<1>6. CASE iter'.at # {}
  <2>1. main' = "read"
    BY <1>1, <1>6
  <2>2. \E e \in contents :
           /\ iter'.at = {e} /\ Target <= e.key
           /\ \A x \in contents : Target <= x.key => ~(x.key < e.key)
    BY <1>2, <1>3, <1>4, <1>6
  <2>3. ReadInv'
    BY <1>1, <1>4, <2>1, <2>2 DEF ReadInv, Target
  <2>4. UNCHANGED Store!vars
    BY <1>1, <2>1, StoreSteps DEF Phase, Scanning
  <2> QED
    BY <2>3, <2>4
<1> QED
  BY <1>5, <1>6

(* next() hands out the pair the iterator stands at, the next one of the   *)
(* range, and moves on; behind the range it ends the reading.              *)
LEMMA NextPairReads ==
  ASSUME IInv, OInv, ReadInv, NextPair
  PROVE  ReadInv' /\ (Store!Deliver \/ Store!FindNothing)
<1>1. /\ main = "read" /\ contents' = contents /\ main \in Scanning /\ Phase = "reading"
  BY DEF NextPair, Scanning, Phase
<1>2. PICK e \in contents :
         /\ iter.at = {e} /\ Target <= e.key
         /\ \A i \in DOMAIN delivered : delivered[i].key < e.key
         /\ \A x \in contents : Target <= x.key /\ x.key < e.key =>
               \E i \in DOMAIN delivered : x.key <= delivered[i].key
  BY <1>1 DEF ReadInv
<1>3. /\ FindNextUserEntry({f \in Merged : ~Before(f, e)}, e.key)
      /\ delivered' = IF e.key \in Wanted THEN Append(delivered, Pair(e)) ELSE delivered
      /\ main' = IF e.key \in Wanted /\ iter'.at # {} THEN "read" ELSE "release"
  BY <1>2 DEF NextPair, Pair
<1>4. /\ Target \in Wanted /\ Target \in Nat /\ \A k \in Wanted : k \in Nat /\ Target <= k
      /\ \A k, l \in Wanted : k..l \subseteq Wanted
  BY WantedAssumption, MinIn DEF Target
<1>5. /\ \A x \in contents : x.key \in Nat /\ x.seq \in Nat
      /\ delivered \in Seq([key : Nat, value : Nat])
      /\ \A i \in DOMAIN delivered : delivered[i].key \in Nat
  <2>1. contents \subseteq Writes /\ delivered \in Seq([key : Nat, value : Nat])
    BY DEF ReadInv
  <2>2. \A i \in DOMAIN delivered : delivered[i] \in [key : Nat, value : Nat]
    <3>1. DOMAIN delivered = 1..Len(delivered)
      BY <2>1
    <3> QED
      BY <2>1, <3>1, ElementOfSeq
  <2> QED
    BY <2>1, <2>2 DEF Writes
<1>6. /\ vs'.last = vs.last
      /\ iter' = [version |-> iter'.version, sequence |-> vs'.last, at |-> iter'.at]
      /\ iter'.at = {} => \A x \in contents : x.key <= e.key
      /\ iter'.at # {} => \E f \in contents :
            /\ iter'.at = {f} /\ e.key < f.key
            /\ \A x \in contents : e.key < x.key => f.key <= x.key
  <2>1. PICK E : E = {f \in Merged : ~Before(f, e)}
    OBVIOUS
  <2>2. \A f \in Merged : f.key \in Nat
    BY <1>1, MergedShows DEF Writes
  <2>3. E \subseteq Merged /\ \A f \in Merged : f.key > e.key => f \in E
    BY <1>5, <2>1, <2>2 DEF Before
  <2>4. FindNextUserEntry(E, e.key) /\ e.key \in Int
    BY <1>3, <1>5, <2>1
  <2> QED
    BY <1>1, <2>3, <2>4, StandsAtNext
<1>7. \A x \in contents : x.key = e.key => x = e
  <2>1. /\ Visible(Merged) = contents /\ Merged \subseteq Writes
        /\ \A f, x \in Merged : f.key = x.key /\ f.seq = x.seq => f = x
    BY <1>1, MergedShows
  <2>2. ASSUME NEW x \in contents, x.key = e.key PROVE x = e
    <3>1. x \in Merged /\ e \in Merged /\ x.seq <= e.seq /\ e.seq <= x.seq
      BY <2>1, <2>2 DEF Visible
    <3> QED
      BY <1>5, <2>1, <2>2, <3>1
  <2> QED
    BY <2>2
<1>8. ASSUME NEW x \in contents, x.key \in Wanted,
             \A i \in DOMAIN delivered : delivered[i].key < x.key
      PROVE  e.key <= x.key
  <2>1. Target <= x.key
    BY <1>4, <1>8
  <2> QED
    BY <1>2, <1>5, <1>8, <2>1
<1>9. CASE e.key \notin Wanted
  <2>1. main' = "release" /\ delivered' = delivered
    BY <1>3, <1>9
  <2>2. ReadInv'
    BY <1>1, <2>1, NotReading DEF Scanning
  <2>3. ASSUME NEW x \in contents, x.key \in Wanted,
               \A i \in DOMAIN delivered : delivered[i].key < x.key
        PROVE  FALSE
    <3>1. e.key \in Target..x.key
      BY <1>2, <1>4, <1>5, <1>8, <2>3
    <3> QED
      BY <1>4, <1>9, <2>3, <3>1
  <2>4. Store!Ahead = {}
    BY <2>3, AheadIs
  <2>5. Store!FindNothing
    BY <1>1, <2>1, <2>4, StoreSteps DEF Phase, Scanning
  <2> QED
    BY <2>2, <2>5
<1>10. CASE e.key \in Wanted
  <2>1. /\ delivered' = Append(delivered, Pair(e)) /\ Pair(e) \in [key : Nat, value : Nat]
        /\ Pair(e).key = e.key
    BY <1>3, <1>5, <1>10 DEF Pair
  <2>2. Pair(e) \in Store!Ahead
    BY <1>2, <1>10, AheadIs
  <2>3. ASSUME NEW other \in Store!Ahead
        PROVE  /\ Pair(e).key <= other.key
               /\ iter'.at = {} => other = Pair(e)
    <3>1. PICK x \in contents : /\ other = Pair(x) /\ x.key \in Wanted
                                /\ \A i \in DOMAIN delivered : delivered[i].key < x.key
      BY AheadIs
    <3>2. e.key <= x.key /\ other.key = x.key
      BY <1>8, <3>1 DEF Pair
    <3>3. ASSUME iter'.at = {} PROVE other = Pair(e)
      <4>1. x.key = e.key
        BY <1>5, <1>6, <3>2, <3>3
      <4> QED
        BY <1>7, <3>1, <4>1
    <3> QED
      BY <2>1, <3>2, <3>3
  <2>4. iter'.at = {} => Store!Ahead = {Pair(e)}
    BY <2>2, <2>3
  <2>5. Phase' = IF iter'.at = {} THEN "finished" ELSE "reading"
    BY <1>3, <1>10 DEF Phase, Scanning
  <2>6. Store!Deliver
    BY <1>1, <2>1, <2>2, <2>3, <2>4, <2>5, StoreSteps
  <2>7. delivered' \in Seq([key : Nat, value : Nat])
    BY <1>5, <2>1
  <2>8. CASE iter'.at = {}
    <3>1. main' = "release"
      BY <1>3, <2>8
    <3>2. ReadInv'
      BY <1>1, <2>7, <3>1 DEF ReadInv, Scanning
    <3> QED
      BY <2>6, <3>2
  <2>9. CASE iter'.at # {}
    <3>1. main' = "read"
      BY <1>3, <1>10, <2>9
    <3>2. PICK f \in contents : /\ iter'.at = {f} /\ e.key < f.key
                                /\ \A x \in contents : e.key < x.key => f.key <= x.key
      BY <1>6, <2>9
    <3>3. /\ DOMAIN delivered' = 1..(Len(delivered) + 1) /\ Len(delivered) \in Nat
          /\ DOMAIN delivered = 1..Len(delivered)
          /\ \A i \in 1..(Len(delivered) + 1) :
                delivered'[i] = IF i = Len(delivered) + 1 THEN Pair(e) ELSE delivered[i]
      BY <1>5, <2>1
    <3>4. \A i \in DOMAIN delivered' : delivered'[i].key < f.key
      BY <1>2, <1>5, <2>1, <3>2, <3>3
    <3>5. ASSUME NEW x \in contents, Target <= x.key, x.key < f.key
          PROVE  \E i \in DOMAIN delivered' : x.key <= delivered'[i].key
      <4>1. x.key <= e.key
        BY <1>5, <3>2, <3>5
      <4>2. Len(delivered) + 1 \in DOMAIN delivered'
            /\ delivered'[Len(delivered) + 1].key = e.key
        BY <2>1, <3>3
      <4> QED
        BY <4>1, <4>2
    <3>6. Target <= f.key
      BY <1>2, <1>4, <1>5, <3>2
    <3>7. ReadInv'
      BY <1>1, <1>6, <2>7, <3>1, <3>2, <3>4, <3>5, <3>6 DEF ReadInv, Target
    <3> QED
      BY <2>6, <3>7
  <2> QED
    BY <2>8, <2>9
<1> QED
  BY <1>9, <1>10

(* Every step of the database is one of the store, or none.                *)
LEMMA StepReads ==
  ASSUME IInv, OInv, ReadInv, [Next]_vars
  PROVE  ReadInv' /\ [Store!Next]_Store!vars
<1>1. CASE NewIterator
  BY <1>1, NewIteratorBegins DEF Store!Next
<1>2. CASE Seek
  BY <1>2, SeekReads DEF Store!Next
<1>3. CASE NextPair
  BY <1>3, NextPairReads DEF Store!Next
<1>4. CASE Closed \/ OpenFails \/ Crash \/ (Recover /\ ~Readable)
  <2>1. Down /\ contents' = contents
    BY <1>4 DEF Closed, OpenFails, Crash, Recover
  <2> QED
    BY <2>1, DownEndsReading DEF Store!Next
<1>5. CASE Background \/ CompactionFails
  <2>1. UNCHANGED <<contents, main, iter, delivered>> /\ vs'.last = vs.last
    BY <1>5, OthersLeaveReading
  <2> QED
    BY <2>1, ReadingGoesOn
<1>6. CASE UNCHANGED vars
  <2>1. UNCHANGED <<contents, main, iter, delivered>> /\ vs'.last = vs.last
    BY <1>6 DEF vars
  <2> QED
    BY <2>1, ReadingGoesOn
<1>7. CASE \/ Start \/ NewDB \/ WriteTemp \/ RenameNewDB \/ (Recover /\ Readable)
           \/ RecoverLogFile \/ NewLog \/ WriteManifest \/ RenameAndInstall \/ Opened
           \/ DeleteIterator \/ ShutDown
  <2>1. main \notin Scanning
    BY <1>7 DEF Start, NewDB, WriteTemp, RenameNewDB, Recover, RecoverLogFile, NewLog,
                WriteManifest, RenameAndInstall, Opened, DeleteIterator, ShutDown, Scanning
  <2> QED
    BY <1>7, <2>1, OpeningReadsNothing
<1> QED
  BY <1>1, <1>2, <1>3, <1>4, <1>5, <1>6, <1>7, Zenon DEF Next, Main

(* A database that the node left as it should is a sorted store: whatever  *)
(* is moved, merged or deleted while it is read, and whatever failed and   *)
(* crashed before, a reading hands out the pairs of the range in order,    *)
(* each once and with its newest value, until none is left.                *)
THEOREM DatabaseIsStore ==
  ASSUME \A d \in Databases : Intact(d)
  PROVE  Spec => ImplementsStore
<1>1. Init => IInv /\ OInv /\ ReadInv /\ Store!Init
  BY StartsIn, IntactStart, InitReads
<1>2. IInv /\ OInv /\ ReadInv /\ [Next]_vars
         => IInv' /\ OInv' /\ ReadInv' /\ [Store!Next]_Store!vars
  BY StepKeeps, StepKeepsOrder, StepReads
<1> QED
  BY <1>1, <1>2, PTL DEF Spec, SafeSpec, ImplementsStore, Store!Spec
=============================================================================
