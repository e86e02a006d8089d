-------------------------- MODULE Integrations_proofs --------------------------
(* Theorems about Integrations for any integrations, files, packages, failures *)
(* and writes of others.                                                        *)
EXTENDS Integrations, FiniteSetTheorems, SequenceTheorems, WellFoundedInduction, TLAPS

-----------------------------------------------------------------------------
(* Sequences *)

LEMMA Smallest ==
  ASSUME NEW X \in SUBSET Nat, X # {}
  PROVE  \E x \in X : \A y \in X : x <= y
<1>1. \E x \in X : \A y \in X : ~ (<<y, x>> \in OpToRel(<, Nat))
  BY NatLessThanWellFounded, WFMin
<1>2. PICK x \in X : \A y \in X : ~ (<<y, x>> \in OpToRel(<, Nat))
  BY <1>1
<1>3. ASSUME NEW y \in X PROVE x <= y
  <2>1. ~ (<<y, x>> \in {ss \in Nat \X Nat : ss[1] < ss[2]})
    BY <1>2 DEF OpToRel
  <2>2. ~ (y < x)
    BY <2>1
  <2> QED BY <2>2
<1> QED BY <1>3

\* The enumeration of a finite set has its elements.
LEMMA SetToSeqIn ==
  ASSUME NEW X, IsFiniteSet(X)
  PROVE  SetToSeq(X) \in Seq(X) /\ Range(SetToSeq(X)) = X
<1>1. Cardinality(X) \in Nat /\ ExistsBijection(1 .. Cardinality(X), X)
  BY FS_CardinalityType
<1> DEFINE D == 1 .. Cardinality(X)
           e == SetToSeq(X)
<1>2. \E b \in [D -> X] : IsInjective(b)
  BY <1>1 DEF ExistsBijection, Bijection, Injection
<1>3. e \in [D -> X] /\ IsInjective(e)
  <2>1. e = CHOOSE b \in [D -> X] : IsInjective(b)
    BY DEF SetToSeq
  <2> HIDE DEF D, e
  <2> QED BY <1>2, <2>1
<1>4. e \in Seq(X)
  BY <1>1, <1>3
<1>5. Range(e) = X
  <2>1. e \in Injection(D, X)
    BY <1>3 DEF Injection
  <2>2. IsFiniteSet(D) /\ Cardinality(D) = Cardinality(X)
    BY <1>1, FS_Interval
  <2>3. e \in Surjection(D, X)
    BY <2>1, <2>2, FS_Injection
  <2> QED BY <1>3, <2>3 DEF Surjection, Range
<1> QED BY <1>4, <1>5

LEMMA FromIn ==
  ASSUME NEW S, NEW s \in Seq(S), NEW K
  PROVE  From(s, K) \in Seq(S)
<1> DEFINE others == {i \in DOMAIN s : s[i].do \notin K}
<1>1. CASE others = {}
  BY <1>1, EmptySeq DEF From
<1>2. CASE others # {}
  <2>1. others \in SUBSET Nat /\ DOMAIN s = 1 .. Len(s) /\ Len(s) \in Nat
    BY LenProperties
  <2>2. PICK m \in others : \A j \in others : m <= j
    BY <2>1, <1>2, Smallest
  <2> DEFINE n == CHOOSE i \in others : \A j \in others : i <= j
  <2>3. n \in others
    BY <2>2
  <2>4. \A i \in n .. Len(s) : s[i] \in S
    BY <2>1, <2>3, ElementOfSeq
  <2>5. SubSeq(s, n, Len(s)) \in Seq(S)
    BY <2>1, <2>3, <2>4, SubSeqProperties
  <2>6. From(s, K) = SubSeq(s, n, Len(s))
    BY <1>2 DEF From
  <2> QED BY <2>5, <2>6
<1> QED BY <1>1, <1>2

-----------------------------------------------------------------------------
(* The inductive invariant *)

Proper == {v \in State : IsInjective(v.installed)}

\* The operations a command can be made of.
FileOps == [do : {"put", "overlay", "clear", "rehash"}, at : Files]
DropOps == [do : {"drop"}, at : Files, hash : Contents, force : BOOLEAN]
ManifestDos == {"manifest", "resave", "dropManifest", "snapshot"}
ManifestOps == UNION {[do : ManifestDos, at : {Manifest(k)}, key : {k}] : k \in Keys}
StateOps == [do : {"state"}, at : {StateFile}, last : BOOLEAN, value : Proper]
PackageOps ==
  UNION {[do : {"package", "unpackage"}, at : {PackageDir(k)}, key : {k}] : k \in External}
RecordOps == [do : {"record", "unrecord"}, at : {RecordFile}, key : External]
PresetOps == [do : {"cover", "uncover"}, at : {PresetFile}, key : Keys]
Ops == FileOps \cup DropOps \cup ManifestOps \cup StateOps \cup PackageOps \cup RecordOps
       \cup PresetOps

Kinds == {"none", "install", "uninstall", "use", "switch", "upgrade"}
Stores == {p \in Project : IsInjective(p.json.installed)}

\* Types, in two parts: what a command knows, and what it acts on.
Control ==
  /\ cmd \in [kind : Kinds, key : Keys \cup {None}, rel : Releases \cup {0}, force : BOOLEAN]
  /\ pc \in {"idle", "run", "undo", "rollback"}
  /\ todo \in Seq(Ops) /\ was \in Stores
  /\ new \in Hashes /\ fresh \subseteq Files
  /\ saved \in Hashes /\ written \in Hashes
  /\ jour \in Seq(Paths) /\ IsInjective(jour) /\ pending \subseteq Journaled
  /\ how \in {"ok", "running", "failed", "interrupted", "killed"}
  /\ owns \in BOOLEAN /\ ready \in BOOLEAN
Effects ==
  /\ proj \in Stores /\ theirs \in Hashes
  /\ reported \subseteq Paths /\ blind \subseteq Files /\ touched \subseteq Files
  /\ kept \in BOOLEAN /\ scarred \in BOOLEAN
Typed == Control /\ Effects

\* Who may be where: a transaction never cleans up, only a transaction has a
\* journal, and an operation the journal was told of is announced.
HasKey == pc # "idle" => cmd.key \in Keys /\ cmd.kind # "none"
Routed ==
  /\ HasKey
  /\ pc = "undo" => ~ owns
  /\ pc = "rollback" => owns
  /\ ready => owns /\ pc = "run" /\ todo # <<>> /\ Touches /\ Op.at \in pending
  /\ ~ owns => jour = <<>> /\ pending = {}
  /\ pc # "idle" => was.readable

\* The integration a clean-up falls back on.
Fallback == First(RemoveFirst(was.json.installed, was.json.default))

\* A clean-up that refreshes hashes has written an integration.json that names
\* the integration it falls back on.
RevivedBy(s, first, a) ==
  (\E j \in 1 .. Len(s) : s[j].do = "rehash") =>
    /\ a \in Keys
    /\ \A i \in 1 .. Len(s) : s[i].do = "state" => First(s[i].value.installed) = a
    /\ \/ first = a
       \/ \E i \in 1 .. Len(s) : /\ s[i].do = "state"
                               /\ \A j \in 1 .. Len(s) : s[j].do = "rehash" => i < j
Revives == pc = "undo" => RevivedBy(todo, First(proj.json.installed), Fallback)

\* A built-in clean-up is about an integration that was not there.
Newcomer ==
  pc = "undo" \/ (pc = "run" /\ ~ owns /\ cmd.kind \in {"install", "switch"}) =>
    cmd.kind \in {"install", "switch"} /\ cmd.key \notin Range(was.json.installed)

\* Operations that leave alone what the user had modified in project p, but for
\* the files X.
Precious(p) == Edited(p) \ PresetFiles(p)
Spares(X, p, o) ==
  \A f \in Precious(p) \ X :
    o.do \in {"put", "overlay", "clear", "drop"} /\ o.at = f =>
      o.do = "drop" /\ ~ o.force /\ \E k \in Keys : o.hash = p.man[k][f]

\* Operations of a command on k, and of the clean-up after one.
Suits(o, kind, k, r) ==
  /\ o.do = "put" => o.at \in Ships[k][r]
  /\ o.do = "rehash" /\ kind \in {"install", "switch"} => o.at \in Ships[k][r]
  /\ o.do \in {"manifest", "resave", "snapshot"} => o.key = k
  /\ o.do = "snapshot" => kind = "use"
NewFiles(p, kind, k, r) == Replaced([kind |-> kind, key |-> k, rel |-> r], p)
Fit(p, kind, k, r, force) ==
  {o \in Ops : /\ Suits(o, kind, k, r)
               /\ ~ force => Spares(NewFiles(p, kind, k, r), p, o)}
Mends ==
  {o \in Ops : o.do \notin {"put", "manifest"} /\ Spares(Replaced(cmd, was), was, o)}
Fitting ==
  /\ pc = "run" => todo \in Seq(Fit(was, cmd.kind, cmd.key, cmd.rel, cmd.force))
  /\ pc = "undo" => todo \in Seq(Mends)

\* The files that the release of command c writes.
Shipped(c) == Ships[c.key][c.rel]

\* What comes before the j-th operation: a look at the manifest, or a write of f.
Earlier(s, j) == {s[i] : i \in 1 .. j - 1}
Looked(s, j) == \E o \in Earlier(s, j) : o.do = "snapshot"
Wrote(s, j, f) == \E o \in Earlier(s, j) : o.do = "put" /\ o.at = f

\* The manifest of an integration that is set up tracks what its release ships.
Confined ==
  pc = "run" /\ cmd.kind \in {"install", "switch"} => Tracked(new) \subseteq Shipped(cmd)

\* A hash is refreshed only behind a look at the file, or behind the command's
\* own write of it, or when what is there is harmless.
Shielded(s, kind, j) == (Looked(s, j) /\ kind # "upgrade") \/ Wrote(s, j, s[j].at)
AllShielded(s, kind) == \A j \in 1 .. Len(s) : s[j].do = "rehash" => Shielded(s, kind, j)
Harmless(f) ==
  proj.disk[f] \notin Written \/ (proj.disk[f] = new[f] /\ cmd.kind # "upgrade")
Sighted ==
  /\ pc \in {"run", "undo"} =>
       \A j \in 1 .. Len(todo) :
         todo[j].do = "rehash" /\ todo[j].at \in fresh \ touched =>
           Shielded(todo, cmd.kind, j) \/ Harmless(todo[j].at)
  /\ blind \subseteq touched

\* An announced removal is of a file that is as it was recorded.
Checked == ready /\ Op.do = "drop" /\ Op.at \notin blind => ~ Modifies(Op)

\* Modified files keep what others put there, and stay known to be modified.
Stands(f) == proj.disk[f] = theirs[f] \/ \E k \in Keys : theirs[f] = was.man[k][f]
Spared ==
  (pc # "idle" \/ Ended) /\ ~ cmd.force =>
    \A f \in Precious(was) \ (Replaced(cmd, was) \cup blind) : Stands(f)
Visible ==
  pc # "idle" \/ Ended =>
    \A f \in Edited(was) \ touched : was.disk[f] \in Written =>
      new[f] # was.disk[f] /\ \A k \in Keys : proj.man[k][f] # was.disk[f]

\* Two projects have the same metadata but for the paths of A.
SameBut(p, q, A) ==
  /\ \A k \in Keys : Manifest(k) \notin A => p.man[k] = q.man[k]
  /\ StateFile \notin A => p.json = q.json /\ p.readable = q.readable
  /\ RecordFile \notin A => p.recs = q.recs
  /\ PresetFile \notin A => p.presets = q.presets /\ p.covered = q.covered
  /\ \A k \in External : PackageDir(k) \notin A => (k \in p.pkgs <=> k \in q.pkgs)

\* What the journal knows of a file: nothing yet, then the content it had, and
\* once it was written who wrote it last.
Known4(f) ==
  /\ f \notin Journaled => proj.disk[f] = theirs[f]
  /\ f \in pending => saved[f] = theirs[f]
  /\ f \in Journaled \ pending =>
       /\ written[f] \notin Written
       /\ \/ proj.disk[f] = written[f] /\ saved[f] = theirs[f]
          \/ proj.disk[f] = theirs[f] /\ proj.disk[f] \in Written

Witnessed == pc # "idle" => \A f \in Files : theirs[f] = was.disk[f] \/ theirs[f] \in Written
Traced ==
  owns /\ pc \in {"run", "rollback"} =>
    /\ \A f \in Files \ blind : Known4(f)
    /\ SameBut(proj, was, Journaled)

\* Packages, records and integration.json agree.
Agreed(p) == p.pkgs = p.recs /\ p.recs = Range(p.json.installed) \cap External

\* What the operations s make of packages, records and the installed keys of p.
Coming(s, d) == {o.key : o \in {x \in Range(s) : x.do = d}}
Aims(s, X) ==
  \E i \in 1 .. Len(s) : /\ s[i].do = "state" /\ Range(s[i].value.installed) = X
                       /\ \A j \in 1 .. Len(s) : s[j].do = "state" => j <= i
Unnamed(s) == \A i \in 1 .. Len(s) : s[i].do # "state"
Destined(p, s) ==
  /\ Coming(s, "package") \cap Coming(s, "unpackage") = {}
  /\ Coming(s, "record") \cap Coming(s, "unrecord") = {}
  /\ \E X \in SUBSET Keys :
       /\ Aims(s, X) \/ (Unnamed(s) /\ X = Range(p.json.installed))
       /\ (p.pkgs \ Coming(s, "unpackage")) \cup Coming(s, "package") = X \cap External
       /\ (p.recs \ Coming(s, "unrecord")) \cup Coming(s, "record") = X \cap External

\* Outside a transaction there are no packages.
PackageDos == {"package", "unpackage", "record", "unrecord"}
Local(o) ==
  o.do \notin PackageDos /\ (o.do = "state" => Range(o.value.installed) \cap External = {})
Matching ==
  ~ scarred =>
    /\ pc = "idle" => Agreed(proj)
    /\ pc # "idle" => Agreed(was)
    /\ pc # "idle" /\ ~ owns =>
         Agreed(proj) /\ proj.recs = {} /\ was.recs = {}
         /\ \A i \in 1 .. Len(todo) : Local(todo[i])
    /\ pc = "run" /\ owns => Destined(proj, todo)

-----------------------------------------------------------------------------
(* Paths and operations *)

LEMMA MetadataApart ==
  /\ StateFile # RecordFile /\ StateFile # PresetFile /\ RecordFile # PresetFile
  /\ \A k : /\ Manifest(k) \notin {StateFile, RecordFile, PresetFile}
            /\ PackageDir(k) \notin {StateFile, RecordFile, PresetFile}
  /\ \A k, l : /\ Manifest(k) # PackageDir(l)
               /\ Manifest(k) = Manifest(l) => k = l
               /\ PackageDir(k) = PackageDir(l) => k = l
<1>1. StateFile[1] = "state" /\ RecordFile[1] = "records" /\ PresetFile[1] = "presets"
  BY DEF StateFile, RecordFile, PresetFile
<1>2. \A k : Manifest(k)[1] = "manifest" /\ Manifest(k)[2] = k
             /\ PackageDir(k)[1] = "package" /\ PackageDir(k)[2] = k
  BY DEF Manifest, PackageDir
<1>3. StateFile # RecordFile /\ StateFile # PresetFile /\ RecordFile # PresetFile
  BY <1>1
<1>4. ASSUME NEW k PROVE /\ Manifest(k) \notin {StateFile, RecordFile, PresetFile}
                         /\ PackageDir(k) \notin {StateFile, RecordFile, PresetFile}
  BY <1>1, <1>2
<1>5. ASSUME NEW k, NEW l PROVE /\ Manifest(k) # PackageDir(l)
                                /\ Manifest(k) = Manifest(l) => k = l
                                /\ PackageDir(k) = PackageDir(l) => k = l
  BY <1>2
<1> QED BY <1>3, <1>4, <1>5

LEMMA FilesApart ==
  /\ \A f \in Files : f \notin {StateFile, RecordFile, PresetFile}
  /\ \A f \in Files, k \in Keys : f # Manifest(k)
  /\ \A f \in Files, k \in External : f # PackageDir(k)
  /\ Files \subseteq Paths /\ {StateFile, RecordFile, PresetFile} \subseteq Paths
  /\ \A k \in Keys : Manifest(k) \in Paths
  /\ \A k \in External : PackageDir(k) \in Paths
BY PathsAssumption DEF Paths, MetadataPaths

\* What the fields of an operation are.
FileOp(o) == o.do \in {"put", "overlay", "clear", "rehash", "drop"} /\ o.at \in Files
ManifestOp(o) ==
  o.do \in {"manifest", "resave", "dropManifest", "snapshot"} /\ o.key \in Keys
  /\ o.at = Manifest(o.key)
StateOp(o) == o.do = "state" /\ o.at = StateFile /\ o.value \in Proper /\ o.last \in BOOLEAN
PkgOp(o) == o.do \in {"package", "unpackage"} /\ o.key \in External /\ o.at = PackageDir(o.key)
RecOp(o) == o.do \in {"record", "unrecord"} /\ o.key \in External /\ o.at = RecordFile
CoverOp(o) == o.do \in {"cover", "uncover"} /\ o.key \in Keys /\ o.at = PresetFile

LEMMA OpFacts ==
  ASSUME NEW o \in Ops
  PROVE  /\ \/ FileOp(o) \/ ManifestOp(o) \/ StateOp(o) \/ PkgOp(o) \/ RecOp(o) \/ CoverOp(o)
         /\ o.at \in Paths
         /\ o.do = "drop" => o.hash \in Contents /\ o.force \in BOOLEAN
<1>1. CASE o \in FileOps
  BY <1>1, FilesApart DEF FileOp, FileOps
<1>2. CASE o \in DropOps
  BY <1>2, FilesApart DEF FileOp, DropOps
<1>3. CASE o \in ManifestOps
  <2>1. PICK k \in Keys : o \in [do : ManifestDos, at : {Manifest(k)}, key : {k}]
    BY <1>3 DEF ManifestOps
  <2> QED BY <2>1, FilesApart DEF ManifestOp, ManifestDos
<1>4. CASE o \in StateOps
  BY <1>4, FilesApart DEF StateOp, StateOps
<1>5. CASE o \in PackageOps
  <2>1. PICK k \in External :
          o \in [do : {"package", "unpackage"}, at : {PackageDir(k)}, key : {k}]
    BY <1>5 DEF PackageOps
  <2> QED BY <2>1, FilesApart DEF PkgOp
<1>6. CASE o \in RecordOps
  BY <1>6, FilesApart DEF RecOp, RecordOps
<1>7. CASE o \in PresetOps
  BY <1>7, FilesApart DEF CoverOp, PresetOps
<1> QED BY <1>1, <1>2, <1>3, <1>4, <1>5, <1>6, <1>7 DEF Ops

LEMMA FileOpsTyped ==
  /\ \A f \in Files : PutOp(f) \in Ops /\ OverlayOp(f) \in Ops /\ ClearOp(f) \in Ops
                      /\ RehashOp(f) \in Ops
  /\ \A f \in Files, h \in Contents, b \in BOOLEAN : DropOp(f, h, b) \in Ops
<1>1. FileOps \subseteq Ops /\ DropOps \subseteq Ops
  BY DEF Ops
<1>2. \A f \in Files : PutOp(f) \in FileOps /\ OverlayOp(f) \in FileOps /\ ClearOp(f) \in FileOps
                       /\ RehashOp(f) \in FileOps
  BY DEF FileOps, PutOp, OverlayOp, ClearOp, RehashOp
<1>3. \A f \in Files, h \in Contents, b \in BOOLEAN : DropOp(f, h, b) \in DropOps
  BY DEF DropOps, DropOp
<1> QED BY <1>1, <1>2, <1>3

LEMMA MetadataOpsTyped ==
  /\ \A k \in Keys : SaveManifest(k) \in Ops /\ Resave(k) \in Ops /\ DropManifest(k) \in Ops
                     /\ Snapshot(k) \in Ops
  /\ \A k \in Keys : PresetOp("cover", k) \in Ops /\ PresetOp("uncover", k) \in Ops
  /\ \A k \in External : /\ PackageOp("package", k) \in Ops /\ PackageOp("unpackage", k) \in Ops
                         /\ RecordOp("record", k) \in Ops /\ RecordOp("unrecord", k) \in Ops
<1>0. /\ ManifestOps \subseteq Ops /\ PackageOps \subseteq Ops
      /\ RecordOps \subseteq Ops /\ PresetOps \subseteq Ops
  BY DEF Ops
<1>1. ASSUME NEW k \in Keys, NEW d \in ManifestDos
      PROVE  [do |-> d, at |-> Manifest(k), key |-> k] \in Ops
  <2>1. [do |-> d, at |-> Manifest(k), key |-> k]
          \in [do : ManifestDos, at : {Manifest(k)}, key : {k}]
    OBVIOUS
  <2> QED BY <1>0, <2>1 DEF ManifestOps
<1>2. ASSUME NEW k \in Keys, NEW d \in {"cover", "uncover"}
      PROVE  PresetOp(d, k) \in Ops
  <2>1. PresetOp(d, k) \in PresetOps
    BY DEF PresetOp, PresetOps
  <2> QED BY <1>0, <2>1
<1>3. ASSUME NEW k \in External, NEW d \in {"package", "unpackage"}
      PROVE  PackageOp(d, k) \in Ops
  <2>1. PackageOp(d, k) \in [do : {"package", "unpackage"}, at : {PackageDir(k)}, key : {k}]
    BY DEF PackageOp
  <2> QED BY <1>0, <2>1 DEF PackageOps
<1>4. ASSUME NEW k \in External, NEW d \in {"record", "unrecord"}
      PROVE  RecordOp(d, k) \in Ops
  <2>1. RecordOp(d, k) \in RecordOps
    BY DEF RecordOp, RecordOps
  <2> QED BY <1>0, <2>1
<1>5. \A k \in Keys : SaveManifest(k) \in Ops /\ Resave(k) \in Ops /\ DropManifest(k) \in Ops
                      /\ Snapshot(k) \in Ops
  BY <1>1 DEF SaveManifest, Resave, DropManifest, Snapshot, ManifestDos
<1> QED BY <1>2, <1>3, <1>4, <1>5

LEMMA StateOpTyped ==
  ASSUME NEW s \in Seq(Keys), IsInjective(s), NEW d \in Keys \cup {None}, NEW b \in BOOLEAN
  PROVE  SaveState(s, d, b) \in Ops
<1>1. [installed |-> s, default |-> d] \in Proper
  BY DEF Proper, State
<1>2. SaveState(s, d, b) \in StateOps
  BY <1>1 DEF SaveState, StateOps
<1> QED BY <1>2 DEF Ops

-----------------------------------------------------------------------------
(* What one operation changes *)

LEMMA HeadIsOp ==
  ASSUME todo \in Seq(Ops), todo # <<>>
  PROVE  Op \in Ops /\ Tail(todo) \in Seq(Ops)
BY HeadTailProperties DEF Op

\* A project with one part replaced is a project, and differs only there.
LEMMA StoreParts ==
  ASSUME NEW p \in Stores
  PROVE  /\ p.disk \in Hashes /\ p.man \in [Keys -> Hashes] /\ p.json \in Proper
         /\ p.readable \in BOOLEAN /\ p.pkgs \subseteq External /\ p.recs \subseteq External
         /\ p.presets \in BOOLEAN /\ p.covered \in SUBSET (Keys \X Files)
BY DEF Stores, Project, Proper, State

LEMMA DiskChange ==
  ASSUME NEW p \in Stores, NEW f \in Files, NEW c \in Contents
  PROVE  LET q == [p EXCEPT !.disk[f] = c]
         IN  /\ q \in Stores /\ SameBut(q, p, {})
             /\ q.disk[f] = c /\ \A g \in Files : g # f => q.disk[g] = p.disk[g]
<1> DEFINE q == [p EXCEPT !.disk[f] = c]
<1>1. q \in Stores
  BY DEF Stores, Project, Hashes
<1>2. SameBut(q, p, {})
  BY DEF SameBut, Stores, Project
<1>3. q.disk[f] = c /\ \A g \in Files : g # f => q.disk[g] = p.disk[g]
  BY StoreParts DEF Hashes, Stores, Project
<1> QED BY <1>1, <1>2, <1>3

LEMMA ManifestChange ==
  ASSUME NEW p \in Stores, NEW k \in Keys, NEW m \in Hashes
  PROVE  LET q == [p EXCEPT !.man[k] = m]
         IN  q \in Stores /\ SameBut(q, p, {Manifest(k)}) /\ q.disk = p.disk
<1> DEFINE q == [p EXCEPT !.man[k] = m]
<1>1. q \in Stores
  BY DEF Stores, Project
<1>2. q.disk = p.disk /\ q.json = p.json /\ q.readable = p.readable /\ q.recs = p.recs
      /\ q.presets = p.presets /\ q.covered = p.covered /\ q.pkgs = p.pkgs
  BY DEF Stores, Project
<1>3. \A l \in Keys : l # k => q.man[l] = p.man[l]
  BY StoreParts DEF Stores, Project
<1> QED BY <1>1, <1>2, <1>3, MetadataApart DEF SameBut

LEMMA JsonChange ==
  ASSUME NEW p \in Stores, NEW v \in Proper, NEW b \in BOOLEAN
  PROVE  LET q == [p EXCEPT !.json = v, !.readable = b]
         IN  q \in Stores /\ SameBut(q, p, {StateFile}) /\ q.disk = p.disk
<1> DEFINE q == [p EXCEPT !.json = v, !.readable = b]
<1>1. q \in Stores
  BY DEF Stores, Project, Proper
<1>2. q.disk = p.disk /\ q.man = p.man /\ q.recs = p.recs
      /\ q.presets = p.presets /\ q.covered = p.covered /\ q.pkgs = p.pkgs
  BY DEF Stores, Project
<1> QED BY <1>1, <1>2 DEF SameBut

LEMMA PackageChange ==
  ASSUME NEW p \in Stores, NEW k \in External, NEW s \in {p.pkgs \cup {k}, p.pkgs \ {k}}
  PROVE  LET q == [p EXCEPT !.pkgs = s]
         IN  q \in Stores /\ SameBut(q, p, {PackageDir(k)}) /\ q.disk = p.disk
<1> DEFINE q == [p EXCEPT !.pkgs = s]
<1>1. q \in Stores
  BY DEF Stores, Project
<1>2. q.disk = p.disk /\ q.man = p.man /\ q.recs = p.recs /\ q.json = p.json
      /\ q.readable = p.readable /\ q.presets = p.presets /\ q.covered = p.covered /\ q.pkgs = s
  BY DEF Stores, Project
<1> QED BY <1>1, <1>2, MetadataApart DEF SameBut

LEMMA RecordChange ==
  ASSUME NEW p \in Stores, NEW s \in SUBSET External
  PROVE  LET q == [p EXCEPT !.recs = s]
         IN  q \in Stores /\ SameBut(q, p, {RecordFile}) /\ q.disk = p.disk
<1> DEFINE q == [p EXCEPT !.recs = s]
<1>1. q \in Stores
  BY DEF Stores, Project
<1>2. q.disk = p.disk /\ q.man = p.man /\ q.pkgs = p.pkgs /\ q.json = p.json
      /\ q.readable = p.readable /\ q.presets = p.presets /\ q.covered = p.covered
  BY DEF Stores, Project
<1> QED BY <1>1, <1>2 DEF SameBut

LEMMA PresetChange ==
  ASSUME NEW p \in Stores, NEW s \in SUBSET (Keys \X Files), NEW b \in BOOLEAN
  PROVE  /\ LET q == [p EXCEPT !.presets = b, !.covered = s]
            IN  q \in Stores /\ SameBut(q, p, {PresetFile}) /\ q.disk = p.disk
         /\ LET q == [p EXCEPT !.covered = s]
            IN  q \in Stores /\ SameBut(q, p, {PresetFile}) /\ q.disk = p.disk
<1>1. ASSUME NEW q \in {[p EXCEPT !.presets = b, !.covered = s], [p EXCEPT !.covered = s]}
      PROVE  q \in Stores /\ SameBut(q, p, {PresetFile}) /\ q.disk = p.disk
  <2>1. q \in Stores
    BY DEF Stores, Project
  <2>2. q.disk = p.disk /\ q.man = p.man /\ q.pkgs = p.pkgs /\ q.json = p.json
        /\ q.readable = p.readable /\ q.recs = p.recs
    BY DEF Stores, Project
  <2> QED BY <2>1, <2>2 DEF SameBut
<1> QED BY <1>1

ContainsMore == {Absent, Preset, Torn} \subseteq Contents /\ Releases \subseteq Contents
                /\ Written \subseteq Contents /\ NoFiles \in Hashes /\ Nothing \in Proper

LEMMA ContentFacts == ContainsMore
<1>1. <<>> \in Seq(Keys) /\ IsInjective(<<>>)
  BY EmptySeq DEF IsInjective
<1>2. Nothing \in Proper
  BY <1>1 DEF Nothing, Proper, State
<1>3. NoFiles \in Hashes
  BY DEF NoFiles, Hashes, Contents
<1> QED BY <1>2, <1>3 DEF ContainsMore, Contents

\* Whatever an operation does or leaves half done, the project is well-formed
\* and nothing but its own path has changed.
Limited(q) ==
  /\ q \in Stores /\ SameBut(q, proj, {Op.at})
  /\ \A f \in Files : f # Op.at => q.disk[f] = proj.disk[f]

LEMMA HalfwayIsLimited ==
  ASSUME Typed, todo # <<>>, Touches, NEW q \in Halfway
  PROVE  Limited(q)
<1>0. Op \in Ops /\ proj \in Stores
  BY HeadIsOp DEF Typed, Control, Effects
<1>1. SameBut(proj, proj, {Op.at}) /\ \A r : SameBut(r, proj, {}) => SameBut(r, proj, {Op.at})
  BY DEF SameBut
<1>2. CASE q = proj
  BY <1>0, <1>1, <1>2 DEF Limited
<1>3. CASE FileOp(Op)
  <2>1. cmd.rel \in Contents
    BY DEF Typed, Control, Contents, Absent
  <2>2. q = proj \/ \E c \in Contents : q = [proj EXCEPT !.disk[Op.at] = c]
    BY <1>3, <2>1, ContentFacts DEF Halfway, Completed, FileOp, Touches, ContainsMore
  <2>3. CASE \E c \in Contents : q = [proj EXCEPT !.disk[Op.at] = c]
    <3>1. PICK c \in Contents : q = [proj EXCEPT !.disk[Op.at] = c]
      BY <2>3
    <3>2. /\ q \in Stores /\ SameBut(q, proj, {})
          /\ \A g \in Files : g # Op.at => q.disk[g] = proj.disk[g]
      BY <1>0, <1>3, <3>1, DiskChange DEF FileOp
    <3> QED BY <1>1, <3>2 DEF Limited
  <2> QED BY <1>2, <2>2, <2>3
<1>4. CASE ManifestOp(Op)
  <2>1. q = proj \/ \E m \in Hashes : q = [proj EXCEPT !.man[Op.key] = m]
    BY <1>4, ContentFacts DEF Halfway, Completed, ManifestOp, Touches, ContainsMore,
                                 Typed, Control
  <2>2. CASE \E m \in Hashes : q = [proj EXCEPT !.man[Op.key] = m]
    BY <1>0, <1>4, <2>2, ManifestChange DEF ManifestOp, Limited
  <2> QED BY <1>2, <2>1, <2>2
<1>5. CASE StateOp(Op)
  <2>1. q = proj \/ \E v \in Proper, b \in BOOLEAN : q = [proj EXCEPT !.json = v, !.readable = b]
    BY <1>5, ContentFacts DEF Halfway, Completed, StateOp, ContainsMore
  <2>2. CASE \E v \in Proper, b \in BOOLEAN : q = [proj EXCEPT !.json = v, !.readable = b]
    <3>1. PICK v \in Proper, b \in BOOLEAN : q = [proj EXCEPT !.json = v, !.readable = b]
      BY <2>2
    <3>2. q \in Stores /\ SameBut(q, proj, {StateFile}) /\ q.disk = proj.disk
      BY <1>0, <3>1, JsonChange
    <3> QED BY <1>5, <3>2 DEF StateOp, Limited
  <2> QED BY <1>2, <2>1, <2>2
<1>6. CASE PkgOp(Op)
  <2>1. q = proj \/ q = [proj EXCEPT !.pkgs = proj.pkgs \cup {Op.key}]
                 \/ q = [proj EXCEPT !.pkgs = proj.pkgs \ {Op.key}]
    BY <1>6 DEF Halfway, Completed, PkgOp
  <2> QED BY <1>0, <1>2, <1>6, <2>1, PackageChange DEF PkgOp, Limited
<1>7. CASE RecOp(Op)
  <2>1. q = proj \/ \E s \in SUBSET External : q = [proj EXCEPT !.recs = s]
    BY <1>0, <1>7, StoreParts DEF Halfway, Completed, RecOp
  <2>2. CASE \E s \in SUBSET External : q = [proj EXCEPT !.recs = s]
    BY <1>0, <1>7, <2>2, RecordChange DEF RecOp, Limited
  <2> QED BY <1>2, <2>1, <2>2
<1>8. CASE CoverOp(Op)
  <2> DEFINE K == Keys \X Files
  <2>0. /\ proj.covered \cup {Op.key} \X Overrides[Op.key] \in SUBSET K
        /\ proj.covered \ {Op.key} \X Files \in SUBSET K /\ {} \in SUBSET K
    BY <1>0, <1>8, StoreParts, FilesAssumption DEF CoverOp
  <2> HIDE DEF K
  <2>1. q = proj \/ \E s \in SUBSET K : \/ q = [proj EXCEPT !.covered = s]
                                      \/ q = [proj EXCEPT !.presets = FALSE, !.covered = s]
    BY <1>8, <2>0 DEF Halfway, Completed, CoverOp
  <2>2. CASE \E s \in SUBSET K : \/ q = [proj EXCEPT !.covered = s]
                               \/ q = [proj EXCEPT !.presets = FALSE, !.covered = s]
    <3>1. PICK s \in SUBSET K : \/ q = [proj EXCEPT !.covered = s]
                              \/ q = [proj EXCEPT !.presets = FALSE, !.covered = s]
      BY <2>2
    <3>2. s \in SUBSET (Keys \X Files)
      BY DEF K
    <3>3. q \in Stores /\ SameBut(q, proj, {PresetFile}) /\ q.disk = proj.disk
      <4> DEFINE p1 == [proj EXCEPT !.presets = FALSE, !.covered = s]
                 p2 == [proj EXCEPT !.covered = s]
      <4>1. /\ p1 \in Stores /\ SameBut(p1, proj, {PresetFile}) /\ p1.disk = proj.disk
            /\ p2 \in Stores /\ SameBut(p2, proj, {PresetFile}) /\ p2.disk = proj.disk
        BY <1>0, <3>2, PresetChange
      <4>2. q = p1 \/ q = p2
        BY <3>1
      <4> HIDE DEF p1, p2
      <4> QED BY <4>1, <4>2
    <3> QED BY <1>8, <3>3 DEF CoverOp, Limited
  <2> QED BY <1>2, <2>1, <2>2
<1> QED BY <1>0, <1>3, <1>4, <1>5, <1>6, <1>7, <1>8, OpFacts

LEMMA CompletedIsHalfway == Completed \in Halfway /\ proj \in Halfway
BY DEF Halfway

-----------------------------------------------------------------------------
(* The lists of operations *)

LEMMA FilesFinite == \A X \in SUBSET Files : IsFiniteSet(X)
BY FilesAssumption, FS_Subset

LEMMA TupleIn ==
  ASSUME NEW S, NEW a \in S
  PROVE  <<a>> \in Seq(S) /\ \A b \in S : <<a, b>> \in Seq(S)
OBVIOUS

LEMMA ConcatIn ==
  ASSUME NEW S, NEW s \in Seq(S), NEW t \in Seq(S)
  PROVE  s \o t \in Seq(S)
BY ConcatProperties

LEMMA ElementsIn ==
  ASSUME NEW S, NEW s \in Seq(S)
  PROVE  Len(s) \in Nat /\ \A i \in 1 .. Len(s) : s[i] \in S
BY ElementOfSeq, LenProperties

Joined(u, s, t) ==
  /\ Len(s) \in Nat /\ Len(t) \in Nat /\ Len(u) = Len(s) + Len(t)
  /\ \A i \in 1 .. Len(s) : u[i] = s[i]
  /\ \A i \in 1 .. Len(t) : u[i + Len(s)] = t[i]
  /\ \A i \in 1 .. Len(u) :
       i \in 1 .. Len(s) \/ (i - Len(s) \in 1 .. Len(t) /\ i - Len(s) + Len(s) = i)

LEMMA ConcatElements ==
  ASSUME NEW S, NEW s \in Seq(S), NEW t \in Seq(S)
  PROVE  s \o t \in Seq(S) /\ Joined(s \o t, s, t)
<1>1. Len(s) \in Nat /\ Len(t) \in Nat
  BY LenProperties
<1>2. /\ s \o t \in Seq(S) /\ Len(s \o t) = Len(s) + Len(t)
      /\ \A i \in 1 .. Len(s) + Len(t) : (s \o t)[i] = IF i <= Len(s) THEN s[i] ELSE t[i - Len(s)]
  BY ConcatProperties
<1>3. \A i \in 1 .. Len(s) : (s \o t)[i] = s[i]
  BY <1>1, <1>2
<1>4. ASSUME NEW i \in 1 .. Len(t) PROVE (s \o t)[i + Len(s)] = t[i]
  <2>1. i + Len(s) \in 1 .. Len(s) + Len(t) /\ ~ (i + Len(s) <= Len(s)) /\ i + Len(s) - Len(s) = i
    BY <1>1
  <2> QED BY <1>2, <2>1
<1>5. \A i \in 1 .. Len(s \o t) :
        i \in 1 .. Len(s) \/ (i - Len(s) \in 1 .. Len(t) /\ i - Len(s) + Len(s) = i)
  BY <1>1, <1>2
<1> QED BY <1>1, <1>2, <1>3, <1>4, <1>5 DEF Joined

\* One operation for each file of a set.
LEMMA EachFileIn ==
  ASSUME NEW X \in SUBSET Files, NEW S
  PROVE  /\ (\A f \in X : PutOp(f) \in S) => Each(X, PutOp) \in Seq(S)
         /\ (\A f \in X : OverlayOp(f) \in S) => Each(X, OverlayOp) \in Seq(S)
         /\ (\A f \in X : ClearOp(f) \in S) => Each(X, ClearOp) \in Seq(S)
         /\ (\A f \in X : RehashOp(f) \in S) => Each(X, RehashOp) \in Seq(S)
<1> DEFINE e == SetToSeq(X)
<1>1. e \in Seq(X) /\ Len(e) \in Nat /\ \A i \in 1 .. Len(e) : e[i] \in X
  BY FilesFinite, SetToSeqIn, ElementOfSeq, LenProperties
<1> HIDE DEF e
<1>2. (\A f \in X : PutOp(f) \in S) => [i \in 1 .. Len(e) |-> PutOp(e[i])] \in Seq(S)
  BY <1>1
<1>3. (\A f \in X : OverlayOp(f) \in S) => [i \in 1 .. Len(e) |-> OverlayOp(e[i])] \in Seq(S)
  BY <1>1
<1>4. (\A f \in X : ClearOp(f) \in S) => [i \in 1 .. Len(e) |-> ClearOp(e[i])] \in Seq(S)
  BY <1>1
<1>5. (\A f \in X : RehashOp(f) \in S) => [i \in 1 .. Len(e) |-> RehashOp(e[i])] \in Seq(S)
  BY <1>1
<1> QED BY <1>2, <1>3, <1>4, <1>5 DEF Each, e

LEMMA SetUpIn ==
  ASSUME NEW k \in Keys, NEW r \in Releases, NEW S,
         \A f \in Ships[k][r] : PutOp(f) \in S, SaveManifest(k) \in S
  PROVE  SetUp(k, r) \in Seq(S)
<1>1. Ships[k][r] \in SUBSET Files
  BY FilesAssumption
<1> QED BY <1>1, EachFileIn, TupleIn, ConcatIn DEF SetUp

LEMMA DropsIn ==
  ASSUME NEW X \in SUBSET Files, NEW m, NEW force, NEW S,
         \A f \in X : DropOp(f, m[f], force) \in S
  PROVE  [i \in 1 .. Len(SetToSeq(X)) |-> DropOp(SetToSeq(X)[i], m[SetToSeq(X)[i]], force)] \in Seq(S)
<1> DEFINE e == SetToSeq(X)
<1>1. e \in Seq(X) /\ Len(e) \in Nat /\ \A i \in 1 .. Len(e) : e[i] \in X
  BY FilesFinite, SetToSeqIn, ElementOfSeq, LenProperties
<1> HIDE DEF e
<1>2. [i \in 1 .. Len(e) |-> DropOp(e[i], m[e[i]], force)] \in Seq(S)
  BY <1>1
<1> QED BY <1>2 DEF e

LEMMA TearDownIn ==
  ASSUME NEW k \in Keys, NEW m, NEW force, NEW S,
         \A f \in Tracked(m) : DropOp(f, m[f], force) \in S, DropManifest(k) \in S
  PROVE  TearDown(k, m, force) \in Seq(S)
<1>1. Tracked(m) \in SUBSET Files
  BY DEF Tracked
<1> QED BY <1>1, DropsIn, TupleIn, ConcatIn DEF TearDown, Each

LEMMA StaleIn ==
  ASSUME NEW k \in Keys, NEW r, NEW S,
         \A f \in Tracked(proj.man[k]) \ Ships[k][r] : DropOp(f, proj.man[k][f], TRUE) \in S
  PROVE  Stale(k, r) \in Seq(S)
<1>1. Tracked(proj.man[k]) \ Ships[k][r] \in SUBSET Files
  BY DEF Tracked
<1> QED BY <1>1, DropsIn DEF Stale, StaleOp, Each

LEMMA RegisterIn ==
  ASSUME NEW k \in Keys, NEW S, \A f \in Overrides[k] : OverlayOp(f) \in S,
         PresetOp("cover", k) \in S
  PROVE  Register(k) \in Seq(S)
<1>1. Overrides[k] \in SUBSET Files
  BY FilesAssumption
<1> QED BY <1>1, EachFileIn, TupleIn, ConcatIn, EmptySeq DEF Register

LEMMA UnregisterIn ==
  ASSUME NEW k \in Keys, NEW S,
         \A f \in CoveredFor(proj, k) : ClearOp(f) \in S, PresetOp("uncover", k) \in S
  PROVE  Unregister(k) \in Seq(S)
<1> DEFINE X == CoveredFor(proj, k) \ UNION {CoveredFor(proj, l) : l \in Keys \ {k}}
<1>1. X \in SUBSET Files /\ \A f \in X : ClearOp(f) \in S
  BY DEF CoveredFor
<1>2. Unregister(k) = IF CoveredFor(proj, k) = {} THEN <<>>
                      ELSE Each(X, ClearOp) \o <<PresetOp("uncover", k)>>
  BY DEF Unregister
<1> HIDE DEF X
<1> QED BY <1>1, <1>2, EachFileIn, TupleIn, ConcatIn, EmptySeq

LEMMA PackagesIn ==
  ASSUME NEW k \in Keys, NEW S, NEW kind, proj.recs \subseteq External,
         \A l \in External : /\ PackageOp("package", l) \in S /\ PackageOp("unpackage", l) \in S
                             /\ RecordOp("record", l) \in S /\ RecordOp("unrecord", l) \in S
  PROVE  Fetched(kind, k) \in Seq(S) /\ Forget(k) \in Seq(S)
<1>1. Forget(k) \in Seq(S)
  BY TupleIn, EmptySeq DEF Forget
<1>2. k \in External => Persist(k) \in Seq(S)
  BY TupleIn DEF Persist
<1> QED BY <1>1, <1>2, EmptySeq DEF Fetched, Downloads

\* An integration that is installed once is gone when it is removed.
LEMMA RemoveFirstIn ==
  ASSUME NEW s \in Seq(Keys), IsInjective(s), NEW k
  PROVE  /\ RemoveFirst(s, k) \in Seq(Keys) /\ IsInjective(RemoveFirst(s, k))
         /\ Range(RemoveFirst(s, k)) = Range(s) \ {k}
<1>0. Len(s) \in Nat /\ DOMAIN s = 1 .. Len(s) /\ \A i \in 1 .. Len(s) : s[i] \in Keys
  BY LenProperties, ElementOfSeq
<1>1. CASE ~ \E i \in 1 .. Len(s) : s[i] = k
  BY <1>0, <1>1 DEF RemoveFirst, Range
<1>2. CASE \E i \in 1 .. Len(s) : s[i] = k
  <2>1. PICK n \in 1 .. Len(s) : s[n] = k
    BY <1>2
  <2>2. {i \in 1 .. Len(s) : s[i] = k} = {n}
    BY <1>0, <2>1 DEF IsInjective
  <2>3. SelectInSeq(s, LAMBDA v : v = k) = n
    BY <2>1, <2>2 DEF SelectInSeq, Min
  <2>4. RemoveFirst(s, k) = SubSeq(s, 1, n - 1) \o SubSeq(s, n + 1, Len(s))
    BY <1>2, <2>3 DEF RemoveFirst, RemoveAt
  <2> DEFINE a == SubSeq(s, 1, n - 1)
             b == SubSeq(s, n + 1, Len(s))
  <2>5. a \in Seq(Keys) /\ Len(a) = n - 1 /\ \A i \in 1 .. n - 1 : a[i] = s[i]
    BY <1>0, SubSeqProperties
  <2>6. b \in Seq(Keys) /\ Len(b) = Len(s) - n /\ \A i \in 1 .. Len(s) - n : b[i] = s[n + i]
    <3>1. \A i \in n + 1 .. Len(s) : s[i] \in Keys
      BY <1>0
    <3>2. /\ b \in Seq(Keys)
          /\ Len(b) = IF n + 1 <= Len(s) THEN Len(s) - (n + 1) + 1 ELSE 0
          /\ \A i \in 1 .. Len(s) - (n + 1) + 1 : b[i] = s[n + 1 + i - 1]
      BY <1>0, <3>1, SubSeqProperties
    <3> HIDE DEF b
    <3>3. Len(b) = Len(s) - n
      <4>1. Len(s) \in Nat /\ n \in Nat /\ 1 <= n /\ n <= Len(s)
        BY <1>0
      <4>2. CASE n + 1 <= Len(s)
        <5>1. Len(b) = Len(s) - (n + 1) + 1
          BY <3>2, <4>2
        <5> QED BY <4>1, <5>1
      <4>3. CASE ~ (n + 1 <= Len(s))
        <5>1. Len(b) = 0 /\ Len(s) = n
          BY <3>2, <4>1, <4>3
        <5> QED BY <4>1, <5>1
      <4> QED BY <4>2, <4>3
    <3>4. ASSUME NEW i \in 1 .. Len(s) - n PROVE b[i] = s[n + i]
      <4>1. i \in 1 .. Len(s) - (n + 1) + 1 /\ n + 1 + i - 1 = n + i
        BY <1>0
      <4> QED BY <3>2, <4>1
    <3> QED BY <3>2, <3>3, <3>4
  <2>7. /\ a \o b \in Seq(Keys) /\ Len(a \o b) = Len(s) - 1
        /\ \A i \in 1 .. Len(s) - 1 : (a \o b)[i] = IF i < n THEN s[i] ELSE s[i + 1]
    <3> HIDE DEF a, b
    <3>1. /\ a \o b \in Seq(Keys) /\ Len(a \o b) = Len(a) + Len(b)
          /\ \A i \in 1 .. Len(a) + Len(b) :
               (a \o b)[i] = IF i <= Len(a) THEN a[i] ELSE b[i - Len(a)]
      BY <2>5, <2>6, ConcatProperties
    <3>2. Len(a) + Len(b) = Len(s) - 1
      BY <1>0, <2>5, <2>6
    <3>3. ASSUME NEW i \in 1 .. Len(s) - 1
          PROVE  (a \o b)[i] = IF i < n THEN s[i] ELSE s[i + 1]
      <4>1. (a \o b)[i] = IF i <= n - 1 THEN a[i] ELSE b[i - (n - 1)]
        BY <2>5, <3>1, <3>2
      <4>2. CASE i < n
        BY <1>0, <2>5, <4>1, <4>2
      <4>3. CASE ~ (i < n)
        <5>1. i - (n - 1) \in 1 .. Len(s) - n /\ n + (i - (n - 1)) = i + 1 /\ ~ (i <= n - 1)
          BY <1>0, <4>3
        <5>2. b[i - (n - 1)] = s[n + (i - (n - 1))]
          BY <2>6, <5>1
        <5> QED BY <4>1, <4>3, <5>1, <5>2
      <4> QED BY <4>2, <4>3
    <3> QED BY <3>1, <3>2, <3>3
  <2> DEFINE t == a \o b
  <2> HIDE DEF a, b, t
  <2>8. t \in Seq(Keys) /\ DOMAIN t = 1 .. Len(s) - 1
        /\ \A i \in 1 .. Len(s) - 1 : t[i] = IF i < n THEN s[i] ELSE s[i + 1]
    BY <2>7, LenProperties DEF t
  <2> DEFINE g(i) == IF i < n THEN i ELSE i + 1
  <2>g. \A i \in 1 .. Len(s) - 1 : g(i) \in 1 .. Len(s) /\ g(i) # n /\ t[i] = s[g(i)]
    BY <1>0, <2>8
  <2>h. \A i, j \in 1 .. Len(s) - 1 : g(i) = g(j) => i = j
    BY <1>0
  <2>i. \A i, j \in 1 .. Len(s) : s[i] = s[j] => i = j
    BY <1>0 DEF IsInjective
  <2> HIDE DEF g
  <2>9. IsInjective(t)
    <3>1. ASSUME NEW i \in 1 .. Len(s) - 1, NEW j \in 1 .. Len(s) - 1, t[i] = t[j]
          PROVE  i = j
      <4>1. g(i) \in 1 .. Len(s) /\ g(j) \in 1 .. Len(s) /\ s[g(i)] = s[g(j)]
        BY <2>g, <3>1
      <4>2. g(i) = g(j)
        BY <2>i, <4>1
      <4> QED BY <2>h, <4>2
    <3> QED BY <2>8, <3>1 DEF IsInjective
  <2>10. Range(t) \subseteq Range(s) \ {k}
    BY <1>0, <2>1, <2>8, <2>g, <2>i DEF Range
  <2>11. Range(s) \ {k} \subseteq Range(t)
    <3> SUFFICES ASSUME NEW i \in 1 .. Len(s), s[i] # k PROVE s[i] \in Range(t)
      BY <1>0 DEF Range
    <3>1. CASE i < n
      BY <1>0, <2>1, <2>8, <3>1 DEF Range
    <3>2. CASE i > n
      <4>1. i - 1 \in 1 .. Len(s) - 1 /\ t[i - 1] = s[i]
        BY <1>0, <2>1, <2>8, <3>2
      <4> QED BY <2>8, <4>1 DEF Range
    <3> QED BY <1>0, <2>1, <3>1, <3>2
  <2>12. RemoveFirst(s, k) = t
    BY <2>4 DEF t, a, b
  <2> QED BY <2>8, <2>9, <2>10, <2>11, <2>12
<1> QED BY <1>1, <1>2

LEMMA AppendIn ==
  ASSUME NEW S, NEW s \in Seq(S), NEW k \in S
  PROVE  /\ Append(s, k) \in Seq(S) /\ Range(Append(s, k)) = Range(s) \cup {k}
         /\ IsInjective(s) /\ k \notin Range(s) => IsInjective(Append(s, k))
<1> DEFINE t == Append(s, k)
<1>1. /\ t \in Seq(S) /\ Len(t) = Len(s) + 1 /\ Len(s) \in Nat /\ DOMAIN s = 1 .. Len(s)
      /\ DOMAIN t = 1 .. Len(s) + 1
      /\ \A i \in 1 .. Len(s) : t[i] = s[i]
      /\ t[Len(s) + 1] = k
  BY AppendProperties, LenProperties
<1> HIDE DEF t
<1>2. Range(t) = Range(s) \cup {k}
  <2>1. Range(t) \subseteq Range(s) \cup {k}
    BY <1>1 DEF Range
  <2>2. \A i \in 1 .. Len(s) : s[i] \in Range(t)
    BY <1>1 DEF Range
  <2>3. k \in Range(t)
    BY <1>1 DEF Range
  <2> QED BY <1>1, <2>1, <2>2, <2>3 DEF Range
<1>3. IsInjective(s) /\ k \notin Range(s) => IsInjective(t)
  BY <1>1 DEF IsInjective, Range
<1> QED BY <1>1, <1>2, <1>3 DEF t

LEMMA FirstIn ==
  ASSUME NEW s \in Seq(Keys)
  PROVE  First(s) \in Keys \cup {None} /\ (s # <<>> => First(s) \in Range(s))
<1>1. s # <<>> => Head(s) \in Keys /\ Head(s) = s[1] /\ 1 \in DOMAIN s
  BY HeadTailProperties, EmptySeq, LenProperties
<1> QED BY <1>1 DEF First, Range

-----------------------------------------------------------------------------
(* Types *)

LEMMA CleanUpTyped ==
  ASSUME Typed, cmd.key \in Keys
  PROVE  CleanUp \in Seq(Ops)
<1> DEFINE installed == IF cmd.kind = "install" THEN was.json.installed
                        ELSE RemoveFirst(was.json.installed, was.json.default)
           default == IF cmd.kind = "install" THEN was.json.default ELSE First(installed)
<1>0. was.json \in Proper /\ was.json.installed \in Seq(Keys) /\ IsInjective(was.json.installed)
      /\ was.json.default \in Keys \cup {None}
  BY StoreParts DEF Typed, Control, Proper, State
<1>1. installed \in Seq(Keys) /\ IsInjective(installed)
  BY <1>0, RemoveFirstIn
<1>2. default \in Keys \cup {None}
  BY <1>0, <1>1, FirstIn
<1>3. TearDown(cmd.key, new, TRUE) \in Seq(Ops)
  <2>1. \A f \in Tracked(new) : DropOp(f, new[f], TRUE) \in Ops
    BY FileOpsTyped DEF Typed, Control, Hashes, Tracked
  <2> QED BY <2>1, TearDownIn, MetadataOpsTyped
<1>4. <<SaveState(installed, default, FALSE)>> \in Seq(Ops)
  BY <1>1, <1>2, StateOpTyped, TupleIn
<1>5. default # None => <<Snapshot(default)>> \o Register(default)
                         \o Resync(Tracked(proj.man[default])) \in Seq(Ops)
  <2> SUFFICES ASSUME default \in Keys
               PROVE  <<Snapshot(default)>> \o Register(default)
                      \o Resync(Tracked(proj.man[default])) \in Seq(Ops)
    BY <1>2
  <2> HIDE DEF default
  <2>1. <<Snapshot(default)>> \in Seq(Ops)
    BY MetadataOpsTyped, TupleIn
  <2>2. Register(default) \in Seq(Ops)
    <3>1. \A f \in Overrides[default] : OverlayOp(f) \in Ops
      BY FileOpsTyped, FilesAssumption
    <3> QED BY <3>1, RegisterIn, MetadataOpsTyped
  <2>3. Resync(Tracked(proj.man[default])) \in Seq(Ops)
    BY FileOpsTyped, EachFileIn DEF Resync, Tracked
  <2> QED BY <2>1, <2>2, <2>3, ConcatIn
<1> DEFINE revived == IF cmd.kind = "install" \/ default = None THEN <<>>
                      ELSE <<Snapshot(default)>> \o Register(default)
                           \o Resync(Tracked(proj.man[default]))
<1>6. revived \in Seq(Ops)
  BY <1>5, EmptySeq
<1>7. CleanUp = TearDown(cmd.key, new, TRUE) \o <<SaveState(installed, default, FALSE)>>
                \o revived
  BY DEF CleanUp
<1> HIDE DEF installed, default, revived
<1> QED BY <1>3, <1>4, <1>6, <1>7, ConcatIn

LEMMA EndsTyped ==
  ASSUME Typed, NEW outcome \in {"ok", "failed", "interrupted", "killed"}, Ends(outcome)
  PROVE  Control'
<1>1. <<>> \in Seq(Ops) /\ <<>> \in Seq(Paths) /\ IsInjective(<<>>)
  BY EmptySeq DEF IsInjective
<1>2. NoFiles \in Hashes
  BY ContentFacts DEF ContainsMore
<1>3. cmd' = cmd /\ was' = was /\ owns' = owns /\ pc' = "idle" /\ how' = outcome /\ todo' = <<>>
      /\ ready' = FALSE /\ new' = NoFiles /\ fresh' = {} /\ jour' = <<>> /\ pending' = {}
      /\ saved' \in {saved, NoFiles} /\ written' = NoFiles
  BY DEF Ends
<1> QED BY <1>1, <1>2, <1>3 DEF Typed, Control

LEMMA RaiseTyped ==
  ASSUME Typed, HasKey, Raise, pc # "idle"
  PROVE  Control'
<1>1. CASE owns /\ pc' = "rollback" /\ ready' = FALSE
           /\ UNCHANGED <<cmd, todo, new, fresh, journal, was, how>>
  BY <1>1 DEF Typed, Control, journal, Journaled
<1>2. CASE ~ owns /\ Guarded /\ pc' = "undo" /\ todo' = CleanUp /\ ready' = FALSE
           /\ UNCHANGED <<cmd, new, fresh, journal, was, how>>
  <2>1. CleanUp \in Seq(Ops)
    BY CleanUpTyped DEF HasKey
  <2> QED BY <1>2, <2>1 DEF Typed, Control, journal, Journaled
<1>3. CASE ~ owns /\ ~ Guarded /\ Ends("failed")
  BY <1>3, EndsTyped
<1> QED BY <1>1, <1>2, <1>3 DEF Raise

LEMMA AfterFailureTyped ==
  ASSUME todo \in Seq(Ops), todo # <<>>
  PROVE  AfterFailure \in Seq(Ops)
BY HeadIsOp, FromIn DEF AfterFailure

LEMMA RestoredTyped ==
  ASSUME Typed, NEW ps
  PROVE  Restored(ps) \in Stores
<1> DEFINE q == Restored(ps)
<1>0. proj \in Stores /\ was \in Stores
  BY DEF Typed, Control, Effects
<1>1. q.disk \in Hashes
  <2>1. saved \in Hashes /\ proj.disk \in Hashes
    BY <1>0, StoreParts DEF Typed, Control
  <2> QED BY <2>1 DEF Restored, Hashes
<1>2. q.man \in [Keys -> Hashes]
  BY <1>0, StoreParts DEF Restored
<1>3. q.json \in Proper /\ q.readable \in BOOLEAN
  BY <1>0, StoreParts DEF Restored
<1>4. q.pkgs \subseteq External /\ q.recs \subseteq External
  BY <1>0, StoreParts DEF Restored
<1>5. q.presets \in BOOLEAN /\ q.covered \in SUBSET (Keys \X Files)
  BY <1>0, StoreParts DEF Restored
<1>6. q = [disk |-> q.disk, man |-> q.man, json |-> q.json, readable |-> q.readable,
           pkgs |-> q.pkgs, recs |-> q.recs, presets |-> q.presets, covered |-> q.covered]
  BY DEF Restored
<1> HIDE DEF q
<1>7. q \in Project
  BY <1>1, <1>2, <1>3, <1>4, <1>5, <1>6 DEF Project, Proper
<1>8. IsInjective(q.json.installed)
  BY <1>3 DEF Proper
<1> QED BY <1>7, <1>8 DEF Stores, q

-----------------------------------------------------------------------------
(* What comes before an operation *)

LEMMA EarlierConcat ==
  ASSUME NEW S, NEW s \in Seq(S), NEW t \in Seq(S), NEW u, Joined(u, s, t)
  PROVE  /\ \A j \in 1 .. Len(s) : Earlier(u, j) = Earlier(s, j)
         /\ \A j \in 1 .. Len(t) : Range(s) \cup Earlier(t, j) \subseteq Earlier(u, j + Len(s))
<1>0. Len(s) \in Nat /\ Len(t) \in Nat /\ DOMAIN s = 1 .. Len(s)
  BY LenProperties
<1>1. ASSUME NEW j \in 1 .. Len(s) PROVE Earlier(u, j) = Earlier(s, j)
  <2>1. \A i \in 1 .. j - 1 : u[i] = s[i]
    BY <1>0 DEF Joined
  <2> QED BY <2>1 DEF Earlier
<1>2. ASSUME NEW j \in 1 .. Len(t)
      PROVE  Range(s) \cup Earlier(t, j) \subseteq Earlier(u, j + Len(s))
  <2>1. ASSUME NEW i \in 1 .. Len(s) PROVE s[i] \in Earlier(u, j + Len(s))
    <3>1. i \in 1 .. j + Len(s) - 1 /\ u[i] = s[i]
      BY <1>0 DEF Joined
    <3> QED BY <3>1 DEF Earlier
  <2>2. ASSUME NEW i \in 1 .. j - 1 PROVE t[i] \in Earlier(u, j + Len(s))
    <3>1. i \in 1 .. Len(t) /\ i + Len(s) \in 1 .. j + Len(s) - 1
      BY <1>0
    <3>2. u[i + Len(s)] = t[i]
      BY <3>1 DEF Joined
    <3> QED BY <3>1, <3>2 DEF Earlier
  <2> QED BY <1>0, <2>1, <2>2 DEF Earlier, Range
<1> QED BY <1>1, <1>2

\* A list without refreshed hashes needs nothing before it.
LEMMA NoneShielded ==
  ASSUME NEW S, NEW s \in Seq(S), \A o \in S : o.do # "rehash", NEW kind
  PROVE  AllShielded(s, kind)
BY ElementOfSeq DEF AllShielded

LEMMA ShieldedConcat ==
  ASSUME NEW S, NEW s \in Seq(S), NEW t \in Seq(S), NEW kind, AllShielded(s, kind),
         \A i \in 1 .. Len(t) : t[i].do = "rehash" =>
           \/ (\E o \in Range(s) : o.do = "snapshot") /\ kind # "upgrade"
           \/ \E o \in Range(s) : o.do = "put" /\ o.at = t[i].at
           \/ Shielded(t, kind, i)
  PROVE  AllShielded(s \o t, kind)
<1> DEFINE u == s \o t
<1>1. Joined(u, s, t)
  BY ConcatElements
<1> HIDE DEF u
<1>2. Len(s) \in Nat /\ Len(t) \in Nat
  BY LenProperties
<1> SUFFICES ASSUME NEW j \in 1 .. Len(u), u[j].do = "rehash"
             PROVE  Shielded(u, kind, j)
  BY DEF AllShielded, u
<1>3. CASE j \in 1 .. Len(s)
  <2>1. Earlier(u, j) = Earlier(s, j) /\ u[j] = s[j]
    BY <1>1, <1>3, EarlierConcat DEF Joined
  <2>2. Shielded(s, kind, j)
    BY <1>3, <2>1 DEF AllShielded
  <2> QED BY <2>1, <2>2 DEF Shielded, Looked, Wrote
<1>4. CASE ~ (j \in 1 .. Len(s))
  <2> DEFINE i == j - Len(s)
  <2>1. i \in 1 .. Len(t) /\ i + Len(s) = j
    BY <1>1, <1>4 DEF Joined
  <2> HIDE DEF i
  <2>2. u[j] = t[i] /\ Range(s) \cup Earlier(t, i) \subseteq Earlier(u, j)
    BY <1>1, <2>1, EarlierConcat DEF Joined
  <2> QED BY <2>1, <2>2 DEF Shielded, Looked, Wrote
<1> QED BY <1>3, <1>4

LEMMA ShieldedJoin ==
  ASSUME NEW S, NEW s \in Seq(S), NEW t \in Seq(S), NEW kind, AllShielded(s, kind),
         AllShielded(t, kind)
  PROVE  AllShielded(s \o t, kind)
BY ShieldedConcat DEF AllShielded

LEMMA ResyncIs ==
  ASSUME NEW X \in SUBSET Files
  PROVE  \A i \in 1 .. Len(Resync(X)) : Resync(X)[i].at \in X
<1> DEFINE S == {RehashOp(f) : f \in X}
<1>1. Resync(X) \in Seq(S)
  BY EachFileIn DEF Resync
<1>2. \A o \in S : o.at \in X
  BY DEF RehashOp
<1> HIDE DEF S
<1> QED BY <1>1, <1>2, ElementOfSeq

LEMMA SetUpPuts ==
  ASSUME NEW k \in Keys, NEW r \in Releases, NEW f \in Ships[k][r]
  PROVE  PutOp(f) \in Range(SetUp(k, r))
<1> DEFINE X == Ships[k][r]
           e == SetToSeq(X)
           p == Each(X, PutOp)
<1>0. X \in SUBSET Files
  BY FilesAssumption
<1>1. e \in Seq(X) /\ Range(e) = X /\ DOMAIN e = 1 .. Len(e)
  BY <1>0, FilesFinite, SetToSeqIn, LenProperties
<1> HIDE DEF e
<1>2. p = [i \in 1 .. Len(e) |-> PutOp(e[i])]
  BY DEF Each, e
<1>3. PutOp(f) \in Range(p)
  BY <1>1, <1>2 DEF Range
<1> DEFINE S == {PutOp(g) : g \in Files} \cup {SaveManifest(k)}
<1>4. p \in Seq(S) /\ <<SaveManifest(k)>> \in Seq(S)
  BY <1>0, EachFileIn, TupleIn
<1>5. SetUp(k, r) = p \o <<SaveManifest(k)>>
  BY DEF SetUp
<1> HIDE DEF p, S
<1>6. Range(p \o <<SaveManifest(k)>>) = Range(p) \cup Range(<<SaveManifest(k)>>)
  BY <1>4, RangeConcatenation
<1> QED BY <1>3, <1>5, <1>6

-----------------------------------------------------------------------------
(* Operations that spare what the user modified *)

LEMMA SparesFacts ==
  ASSUME NEW p \in Stores, NEW X
  PROVE  /\ \A o : o.do \notin {"put", "overlay", "clear", "drop"} => Spares(X, p, o)
         /\ \A o : o.at \in X => Spares(X, p, o)
         /\ \A k \in Keys : \A f \in Overrides[k] : Spares(X, p, OverlayOp(f))
         /\ \A k \in Keys : \A f \in CoveredFor(p, k) : Spares(X, p, ClearOp(f))
         /\ \A k \in Keys : \A f \in Files : Spares(X, p, DropOp(f, p.man[k][f], FALSE))
         /\ \A k \in Keys : Modified(p, k) = {} =>
              \A o : o.at \in Tracked(p.man[k]) => Spares(X, p, o)
<1>1. \A o : o.do \notin {"put", "overlay", "clear", "drop"} => Spares(X, p, o)
  BY DEF Spares
<1>2. \A o : o.at \in X => Spares(X, p, o)
  BY DEF Spares
<1>3. ASSUME NEW k \in Keys, NEW f \in Overrides[k] PROVE Spares(X, p, OverlayOp(f))
  BY DEF Spares, OverlayOp, Precious, PresetFiles
<1>4. ASSUME NEW k \in Keys, NEW f \in CoveredFor(p, k) PROVE Spares(X, p, ClearOp(f))
  BY DEF Spares, ClearOp, Precious, PresetFiles
<1>5. ASSUME NEW k \in Keys, NEW f \in Files PROVE Spares(X, p, DropOp(f, p.man[k][f], FALSE))
  BY DEF Spares, DropOp
<1>6. ASSUME NEW k \in Keys, Modified(p, k) = {}, NEW o, o.at \in Tracked(p.man[k])
      PROVE  Spares(X, p, o)
  <2>1. o.at \notin Edited(p)
    BY <1>6 DEF Modified, Edited
  <2> QED BY <2>1 DEF Spares, Precious
<1> QED BY <1>1, <1>2, <1>3, <1>4, <1>5, <1>6

-----------------------------------------------------------------------------
(* Commands begin well *)

\* A command refreshes a hash behind a look or a write, spares modified files
\* unless it is forced, and brings a package when its integration is there.
Brings(kind, k, ops) ==
  kind \in {"install", "switch"} /\ k \in Installed =>
    \E i \in DOMAIN ops : ops[i].do = "package"
Given(kind, k, r, force, ops) ==
  /\ kind \in Kinds \ {"none"} /\ k \in Keys /\ r \in Releases \cup {0} /\ force \in BOOLEAN
  /\ ops \in Seq(Fit(proj, kind, k, r, force)) /\ AllShielded(ops, kind) /\ Brings(kind, k, ops)
Begins == \E kind \in Kinds \ {"none"}, k \in Keys, r \in Releases \cup {0}, force \in BOOLEAN,
            ops \in Seq(Ops) : Given(kind, k, r, force, ops) /\ Begin(kind, k, r, force, ops)

LEMMA BeginsBy ==
  ASSUME NEW kind, NEW k, NEW r, NEW force, NEW ops, Given(kind, k, r, force, ops),
         Begin(kind, k, r, force, ops)
  PROVE  Begins
<1>1. Fit(proj, kind, k, r, force) \subseteq Ops
  BY DEF Fit
<1> HIDE DEF Fit
<1>2. ops \in Seq(Ops)
  BY <1>1, SeqMonotonic DEF Given
<1> QED BY <1>2 DEF Given, Begins

\* The fitting operations that refresh no hash.
Calm(kind, k, r, force) == {o \in Fit(proj, kind, k, r, force) : o.do # "rehash"}

LEMMA CalmIs ==
  ASSUME NEW kind, NEW k, NEW r, NEW force, NEW s \in Seq(Calm(kind, k, r, force))
  PROVE  s \in Seq(Fit(proj, kind, k, r, force)) /\ AllShielded(s, kind)
<1>1. Calm(kind, k, r, force) \subseteq Fit(proj, kind, k, r, force)
      /\ \A o \in Calm(kind, k, r, force) : o.do # "rehash"
  BY DEF Calm
<1> HIDE DEF Calm, Fit
<1> QED BY <1>1, SeqMonotonic, NoneShielded

\* Commands that find nothing of the integration they set up.
Founds(kind, k) == kind \in {"install", "switch"} /\ k \notin Installed

LEMMA CalmFacts ==
  ASSUME Typed, NEW kind, NEW k \in Keys, NEW r \in Releases \cup {0}, NEW force \in BOOLEAN
  PROVE  LET C == Calm(kind, k, r, force)
         IN  /\ SaveManifest(k) \in C /\ (kind = "use" => Snapshot(k) \in C)
             /\ \A l \in Keys : /\ DropManifest(l) \in C
                                /\ PresetOp("cover", l) \in C /\ PresetOp("uncover", l) \in C
             /\ \A l \in External :
                  /\ PackageOp("package", l) \in C /\ PackageOp("unpackage", l) \in C
                  /\ RecordOp("record", l) \in C /\ RecordOp("unrecord", l) \in C
             /\ \A s \in Seq(Keys), d \in Keys \cup {None}, b \in BOOLEAN :
                  IsInjective(s) => SaveState(s, d, b) \in C
             /\ \A l \in Keys : \A f \in Overrides[l] : OverlayOp(f) \in C
             /\ \A l \in Keys : \A f \in CoveredFor(proj, l) : ClearOp(f) \in C
             /\ \A l \in Keys : \A f \in Tracked(proj.man[l]) :
                  DropOp(f, proj.man[l][f], force) \in C
             /\ r \in Releases
                /\ (force \/ Founds(kind, k) \/ (kind = "upgrade" /\ Modified(proj, k) = {})) =>
                  \A f \in Ships[k][r] : PutOp(f) \in C
             /\ force \/ Modified(proj, k) = {} =>
                  \A f \in Tracked(proj.man[k]) : DropOp(f, proj.man[k][f], TRUE) \in C
             /\ \A f \in Files : (kind \in {"install", "switch"} => f \in Ships[k][r]) =>
                  RehashOp(f) \in Fit(proj, kind, k, r, force)
<1> DEFINE C == Calm(kind, k, r, force)
           X == NewFiles(proj, kind, k, r)
<1>0. proj \in Stores /\ proj.man \in [Keys -> Hashes]
  BY StoreParts DEF Typed, Effects
<1>1. ASSUME NEW o \in Ops, ~ force => Spares(X, proj, o),
             o.do \notin {"put", "rehash", "manifest", "resave", "snapshot"}
      PROVE  o \in C
  BY <1>1 DEF Calm, Fit, Suits
<1>2. ASSUME NEW o \in Ops,
             o.do \in {"dropManifest", "cover", "uncover", "package", "unpackage", "record",
                       "unrecord", "state"}
      PROVE  o \in C
  <2>1. Spares(X, proj, o)
    BY <1>0, <1>2, SparesFacts
  <2> QED BY <1>1, <1>2, <2>1
<1>3. SaveManifest(k) \in C /\ (kind = "use" => Snapshot(k) \in C)
  <2>1. SaveManifest(k) \in Ops /\ Snapshot(k) \in Ops
    BY MetadataOpsTyped
  <2>2. /\ SaveManifest(k).do = "manifest" /\ SaveManifest(k).key = k
        /\ Snapshot(k).do = "snapshot" /\ Snapshot(k).key = k
    BY DEF SaveManifest, Snapshot
  <2>3. Spares(X, proj, SaveManifest(k)) /\ Spares(X, proj, Snapshot(k))
    BY <1>0, <2>2, SparesFacts
  <2> QED BY <2>1, <2>2, <2>3 DEF Calm, Fit, Suits
<1>4. \A l \in Keys : /\ DropManifest(l) \in C
                      /\ PresetOp("cover", l) \in C /\ PresetOp("uncover", l) \in C
  <2> HIDE DEF C
  <2> QED BY <1>2, MetadataOpsTyped DEF DropManifest, PresetOp
<1>5. \A l \in External : /\ PackageOp("package", l) \in C /\ PackageOp("unpackage", l) \in C
                          /\ RecordOp("record", l) \in C /\ RecordOp("unrecord", l) \in C
  <2> HIDE DEF C
  <2> QED BY <1>2, MetadataOpsTyped DEF PackageOp, RecordOp
<1>6. ASSUME NEW s \in Seq(Keys), NEW d \in Keys \cup {None}, NEW b \in BOOLEAN, IsInjective(s)
      PROVE  SaveState(s, d, b) \in C
  <2> HIDE DEF C
  <2> QED BY <1>2, <1>6, StateOpTyped DEF SaveState
<1>7. ASSUME NEW l \in Keys, NEW f \in Overrides[l] PROVE OverlayOp(f) \in C
  <2>1. OverlayOp(f) \in Ops /\ Spares(X, proj, OverlayOp(f)) /\ OverlayOp(f).do = "overlay"
    BY <1>0, SparesFacts, FileOpsTyped, FilesAssumption DEF OverlayOp
  <2> QED BY <1>1, <2>1
<1>8. ASSUME NEW l \in Keys, NEW f \in CoveredFor(proj, l) PROVE ClearOp(f) \in C
  <2>1. f \in Files
    BY DEF CoveredFor
  <2>2. ClearOp(f) \in Ops /\ Spares(X, proj, ClearOp(f)) /\ ClearOp(f).do = "clear"
    BY <1>0, <2>1, SparesFacts, FileOpsTyped DEF ClearOp
  <2> QED BY <1>1, <2>2
<1>9. ASSUME NEW l \in Keys, NEW f \in Tracked(proj.man[l])
      PROVE  DropOp(f, proj.man[l][f], force) \in C
  <2> DEFINE o == DropOp(f, proj.man[l][f], force)
  <2>1. f \in Files /\ o \in Ops /\ o.do = "drop"
    BY <1>0, FileOpsTyped DEF Tracked, Hashes, DropOp
  <2>2. ~ force => Spares(X, proj, o)
    <3>1. ~ force => force = FALSE
      OBVIOUS
    <3> QED BY <1>0, <2>1, <3>1, SparesFacts
  <2> HIDE DEF o, X
  <2>3. o \in C
    BY <1>1, <2>1, <2>2
  <2> QED BY <2>3 DEF o
<1>10. ASSUME r \in Releases,
              force \/ Founds(kind, k) \/ (kind = "upgrade" /\ Modified(proj, k) = {}),
              NEW f \in Ships[k][r]
       PROVE  PutOp(f) \in C
  <2>1. f \in Files /\ PutOp(f) \in Ops /\ PutOp(f).do = "put" /\ PutOp(f).at = f
    BY <1>10, FileOpsTyped, FilesAssumption DEF PutOp
  <2>2. Founds(kind, k) => f \in X
    BY <2>1 DEF Founds, NewFiles, Replaced, SetsUp, Installed
  <2>3. kind = "upgrade" => f \in X \/ f \in Tracked(proj.man[k])
    BY <2>1 DEF NewFiles, Replaced, SetsUp, Tracked
  <2>4. ~ force => Spares(X, proj, PutOp(f))
    BY <1>0, <1>10, <2>1, <2>2, <2>3, SparesFacts
  <2> QED BY <2>1, <2>4 DEF Calm, Fit, Suits
<1>11. ASSUME force \/ Modified(proj, k) = {}, NEW f \in Tracked(proj.man[k])
       PROVE  DropOp(f, proj.man[k][f], TRUE) \in C
  <2> DEFINE o == DropOp(f, proj.man[k][f], TRUE)
  <2>1. o \in Ops /\ o.do = "drop" /\ o.at = f
    BY <1>0, FileOpsTyped DEF Tracked, Hashes, DropOp
  <2> HIDE DEF o
  <2>2. ~ force => Spares(X, proj, o)
    BY <1>0, <1>11, <2>1, SparesFacts
  <2> HIDE DEF X
  <2>3. o \in C
    BY <1>1, <2>1, <2>2
  <2> QED BY <2>3 DEF o
<1>12. ASSUME NEW f \in Files, kind \in {"install", "switch"} => f \in Ships[k][r]
       PROVE  RehashOp(f) \in Fit(proj, kind, k, r, force)
  <2>1. RehashOp(f) \in Ops /\ RehashOp(f).do = "rehash" /\ RehashOp(f).at = f
    BY FileOpsTyped DEF RehashOp
  <2>2. Spares(X, proj, RehashOp(f))
    BY <1>0, <2>1, SparesFacts
  <2> QED BY <1>12, <2>1, <2>2 DEF Fit, Suits
<1> QED BY <1>3, <1>4, <1>5, <1>6, <1>7, <1>8, <1>9, <1>10, <1>11, <1>12

LEMMA ListsCalm ==
  ASSUME Typed, NEW kind, NEW k \in Keys, NEW r \in Releases \cup {0}, NEW force \in BOOLEAN
  PROVE  LET C == Seq(Calm(kind, k, r, force))
         IN  /\ \A l \in Keys : /\ TearDown(l, proj.man[l], force) \in C
                                /\ Register(l) \in C /\ Unregister(l) \in C
                                /\ Forget(l) \in C /\ \A d : Fetched(d, l) \in C
             /\ r \in Releases
                /\ (force \/ Founds(kind, k) \/ (kind = "upgrade" /\ Modified(proj, k) = {})) =>
                  SetUp(k, r) \in C
             /\ force \/ Modified(proj, k) = {} => Stale(k, r) \in C
             /\ kind = "use" => <<Snapshot(k)>> \in C
             /\ \A s \in Seq(Keys), d \in Keys \cup {None}, b \in BOOLEAN :
                  IsInjective(s) => <<SaveState(s, d, b)>> \in C
<1> DEFINE S == Calm(kind, k, r, force)
<1>0. proj.recs \subseteq External
  BY StoreParts DEF Typed, Effects
<1>1. ASSUME NEW l \in Keys
      PROVE  /\ TearDown(l, proj.man[l], force) \in Seq(S)
             /\ Register(l) \in Seq(S) /\ Unregister(l) \in Seq(S)
             /\ Forget(l) \in Seq(S) /\ \A d : Fetched(d, l) \in Seq(S)
  <2>1. /\ DropManifest(l) \in S /\ PresetOp("cover", l) \in S /\ PresetOp("uncover", l) \in S
        /\ \A f \in Overrides[l] : OverlayOp(f) \in S
        /\ \A f \in CoveredFor(proj, l) : ClearOp(f) \in S
        /\ \A f \in Tracked(proj.man[l]) : DropOp(f, proj.man[l][f], force) \in S
    BY CalmFacts
  <2>2. \A e \in External :
          /\ PackageOp("package", e) \in S /\ PackageOp("unpackage", e) \in S
          /\ RecordOp("record", e) \in S /\ RecordOp("unrecord", e) \in S
    BY CalmFacts
  <2> HIDE DEF S
  <2>3. TearDown(l, proj.man[l], force) \in Seq(S)
    BY <2>1, TearDownIn
  <2>4. Register(l) \in Seq(S) /\ Unregister(l) \in Seq(S)
    BY <2>1, RegisterIn, UnregisterIn
  <2>5. Forget(l) \in Seq(S) /\ \A d : Fetched(d, l) \in Seq(S)
    BY <1>0, <2>2, PackagesIn
  <2> QED BY <2>3, <2>4, <2>5
<1>2. ASSUME r \in Releases,
             force \/ Founds(kind, k) \/ (kind = "upgrade" /\ Modified(proj, k) = {})
      PROVE  SetUp(k, r) \in Seq(S)
  <2>1. (\A f \in Ships[k][r] : PutOp(f) \in S) /\ SaveManifest(k) \in S
    BY <1>2, CalmFacts
  <2> HIDE DEF S
  <2> QED BY <1>2, <2>1, SetUpIn
<1>3. ASSUME force \/ Modified(proj, k) = {} PROVE Stale(k, r) \in Seq(S)
  <2>1. \A f \in Tracked(proj.man[k]) : DropOp(f, proj.man[k][f], TRUE) \in S
    BY <1>3, CalmFacts
  <2> HIDE DEF S
  <2> QED BY <2>1, StaleIn
<1>4. ASSUME kind = "use" PROVE <<Snapshot(k)>> \in Seq(S)
  <2>1. Snapshot(k) \in S
    BY <1>4, CalmFacts
  <2> HIDE DEF S
  <2> QED BY <2>1, TupleIn
<1>5. ASSUME NEW s \in Seq(Keys), NEW d \in Keys \cup {None}, NEW b \in BOOLEAN, IsInjective(s)
      PROVE  <<SaveState(s, d, b)>> \in Seq(S)
  <2>1. SaveState(s, d, b) \in S
    BY <1>5, CalmFacts
  <2> HIDE DEF S
  <2> QED BY <2>1, TupleIn
<1> QED BY <1>1, <1>2, <1>3, <1>4, <1>5

\* Hashes of X refreshed after s, and t after that.
LEMMA RefreshedFits ==
  ASSUME Typed, NEW kind, NEW k \in Keys, NEW r \in Releases \cup {0}, NEW force \in BOOLEAN,
         NEW s \in Seq(Calm(kind, k, r, force)), NEW t \in Seq(Calm(kind, k, r, force)),
         NEW X \in SUBSET Files, kind \in {"install", "switch"} => X \subseteq Ships[k][r],
         \/ (\E o \in Range(s) : o.do = "snapshot") /\ kind # "upgrade"
         \/ \A f \in X : PutOp(f) \in Range(s)
  PROVE  /\ s \o Resync(X) \o t \in Seq(Fit(proj, kind, k, r, force))
         /\ AllShielded(s \o Resync(X) \o t, kind)
<1> DEFINE S == Fit(proj, kind, k, r, force)
           y == Resync(X)
<1>1. \A f \in X : RehashOp(f) \in S
  BY CalmFacts
<1>2. s \in Seq(S) /\ t \in Seq(S) /\ AllShielded(s, kind) /\ AllShielded(t, kind)
  BY CalmIs
<1> HIDE DEF S
<1>3. y \in Seq(S)
  BY <1>1, EachFileIn DEF Resync
<1>4. \A i \in 1 .. Len(y) : y[i].at \in X
  BY ResyncIs
<1>5. \A f : PutOp(f).do = "put" /\ PutOp(f).at = f
  BY DEF PutOp
<1> HIDE DEF y
<1>6. \A i \in 1 .. Len(y) :
        \/ (\E o \in Range(s) : o.do = "snapshot") /\ kind # "upgrade"
        \/ \E o \in Range(s) : o.do = "put" /\ o.at = y[i].at
  BY <1>4, <1>5
<1>7. s \o y \in Seq(S) /\ AllShielded(s \o y, kind)
  BY <1>2, <1>3, <1>6, ConcatIn, ShieldedConcat
<1>8. (s \o y) \o t \in Seq(S) /\ AllShielded((s \o y) \o t, kind)
  BY <1>2, <1>7, ConcatIn, ShieldedJoin
<1> QED BY <1>8 DEF y, S

LEMMA StateTyped ==
  ASSUME Typed
  PROVE  /\ proj.json.installed \in Seq(Keys) /\ IsInjective(proj.json.installed)
         /\ Default \in Keys \cup {None} /\ Installed \subseteq Keys
<1>1. proj.json \in Proper
  BY StoreParts DEF Typed, Effects
<1>2. proj.json.installed \in Seq(Keys) /\ IsInjective(proj.json.installed)
      /\ Default \in Keys \cup {None}
  BY <1>1 DEF Proper, State, Default
<1> QED BY <1>2, RangeOfSeq DEF Installed

LEMMA InstallBegins ==
  ASSUME Typed, NEW k \in Keys, NEW r \in Releases, NEW force \in BOOLEAN, Install(k, r, force)
  PROVE  Begins
<1> DEFINE installed == proj.json.installed
           first == IF Default = None THEN k ELSE Default
           got == Fetched("install", k)
           ops == SetUp(k, r) \o <<SaveState(Append(installed, k), first, TRUE)>> \o got
           C == Calm("install", k, r, force)
<1>0. Typed
  OBVIOUS
<1>1. CASE MayInstall(k, force) /\ Begin("install", k, r, force, ops)
  <2>1. Append(installed, k) \in Seq(Keys) /\ IsInjective(Append(installed, k))
    BY <1>0, <1>1, StateTyped, AppendIn DEF MayInstall, Installed
  <2>2. first \in Keys \cup {None}
    BY <1>0, StateTyped
  <2> HIDE DEF first, installed
  <2>3. <<SaveState(Append(installed, k), first, TRUE)>> \in Seq(C)
    BY <2>1, <2>2, ListsCalm
  <2>4. k \notin Installed /\ SetUp(k, r) \in Seq(C) /\ got \in Seq(C)
    BY <1>1, ListsCalm DEF MayInstall, Founds
  <2> HIDE DEF C
  <2>5. ops \in Seq(C)
    BY <2>3, <2>4, ConcatIn
  <2>6. Brings("install", k, ops)
    BY <2>4 DEF Brings
  <2> HIDE DEF ops
  <2>7. ops \in Seq(Fit(proj, "install", k, r, force)) /\ AllShielded(ops, "install")
    BY <2>5, CalmIs DEF C
  <2> QED BY <1>1, <2>6, <2>7, BeginsBy DEF Given, Kinds
<1>2. CASE Downloads("install", k) /\ Begin("install", k, r, force, got)
  <2>1. got \in Seq(C)
    BY ListsCalm
  <2>2. got \in Seq(Fit(proj, "install", k, r, force)) /\ AllShielded(got, "install")
    BY <2>1, CalmIs
  <2>3. Brings("install", k, got)
    <3>1. got = <<PackageOp("package", k), RecordOp("record", k)>>
      BY <1>2 DEF Fetched, Persist
    <3>2. 1 \in DOMAIN got /\ got[1].do = "package"
      BY <3>1 DEF PackageOp
    <3> QED BY <3>2 DEF Brings
  <2> QED BY <1>2, <2>2, <2>3, BeginsBy DEF Given, Kinds
<1> QED BY <1>1, <1>2 DEF Install

LEMMA UninstallBegins ==
  ASSUME Typed, NEW k \in Keys, NEW force \in BOOLEAN, Uninstall(k, force)
  PROVE  Begins
<1> DEFINE rest == Without(k)
           next == IF Default = k THEN First(rest) ELSE Default
           down == IF proj.man[k] = NoFiles THEN <<>> ELSE TearDown(k, proj.man[k], force)
           up == IF Default = k /\ next # None /\ Known(next) THEN Register(next) ELSE <<>>
           ops == down \o Unregister(k) \o <<SaveState(rest, next, FALSE)>> \o up \o Forget(k)
           C == Calm("uninstall", k, 0, force)
<1>0. Typed
  OBVIOUS
<1>1. rest \in Seq(Keys) /\ IsInjective(rest)
  BY <1>0, StateTyped, RemoveFirstIn DEF Without
<1>2. next \in Keys \cup {None}
  BY <1>0, <1>1, StateTyped, FirstIn
<1> HIDE DEF rest, next
<1>3. <<SaveState(rest, next, FALSE)>> \in Seq(C)
  BY <1>1, <1>2, ListsCalm
<1>4. down \in Seq(C) /\ up \in Seq(C)
  BY <1>2, ListsCalm, EmptySeq
<1>5. Unregister(k) \in Seq(C) /\ Forget(k) \in Seq(C)
  BY ListsCalm
<1> HIDE DEF down, up, C
<1>6. ops \in Seq(C)
  BY <1>3, <1>4, <1>5, ConcatIn
<1>7. Begin("uninstall", k, 0, force, ops)
  BY DEF Uninstall, ops, down, up, rest, next
<1>8. Brings("uninstall", k, ops)
  BY DEF Brings
<1> HIDE DEF ops
<1>9. ops \in Seq(Fit(proj, "uninstall", k, 0, force)) /\ AllShielded(ops, "uninstall")
  BY <1>6, CalmIs DEF C
<1> QED BY <1>7, <1>8, <1>9, BeginsBy DEF Given, Kinds

LEMMA UseBegins ==
  ASSUME Typed, NEW k \in Keys, Use(k) \/ SwitchToInstalled(k)
  PROVE  Begins
<1> DEFINE front == <<SaveState(proj.json.installed, k, FALSE), Snapshot(k)>> \o Register(k)
           X == Tracked(proj.man[k])
           C == Calm("use", k, 0, FALSE)
<1>0. Typed
  OBVIOUS
<1>1. <<SaveState(proj.json.installed, k, FALSE), Snapshot(k)>> \in Seq(C)
  <2>1. SaveState(proj.json.installed, k, FALSE) \in C /\ Snapshot(k) \in C
    BY <1>0, StateTyped, CalmFacts
  <2> HIDE DEF C
  <2> QED BY <2>1, TupleIn
<1>2. Register(k) \in Seq(C) /\ Fetched("switch", k) \in Seq(C) /\ <<>> \in Seq(C)
  BY ListsCalm, EmptySeq
<1>3. front \in Seq(C) /\ \E o \in Range(front) : o.do = "snapshot"
  <2> DEFINE a == <<SaveState(proj.json.installed, k, FALSE), Snapshot(k)>>
  <2>1. Snapshot(k) \in Range(a) /\ Snapshot(k).do = "snapshot"
    <3>1. 2 \in DOMAIN a /\ a[2] = Snapshot(k)
      OBVIOUS
    <3> QED BY <3>1 DEF Range, Snapshot
  <2> HIDE DEF C, a
  <2>2. a \o Register(k) \in Seq(C) /\ Range(a \o Register(k)) = Range(a) \cup Range(Register(k))
    BY <1>1, <1>2, ConcatIn, RangeConcatenation DEF a
  <2> QED BY <2>1, <2>2 DEF a
<1>4. X \in SUBSET Files
  BY DEF Tracked
<1> HIDE DEF front, X
<1>5. \A t \in Seq(C) : /\ front \o Resync(X) \o t \in Seq(Fit(proj, "use", k, 0, FALSE))
                        /\ AllShielded(front \o Resync(X) \o t, "use")
  BY <1>3, <1>4, RefreshedFits
<1>6. ASSUME NEW ops, ops \in Seq(Fit(proj, "use", k, 0, FALSE)), AllShielded(ops, "use"),
             Begin("use", k, 0, FALSE, ops)
      PROVE  Begins
  <2>1. Brings("use", k, ops)
    BY DEF Brings
  <2> QED BY <1>6, <2>1, BeginsBy DEF Given, Kinds
<1>7. Activate(k) = front \o Resync(X)
  BY DEF Activate, front, X
<1>8. CASE Use(k)
  <2>1. front \o Resync(X) \in Seq(Fit(proj, "use", k, 0, FALSE))
        /\ AllShielded(front \o Resync(X), "use")
    <3> DEFINE S == Fit(proj, "use", k, 0, FALSE)
    <3>2. \A f \in X : RehashOp(f) \in S
      BY <1>4, CalmFacts
    <3>3. front \in Seq(S)
      BY <1>3, CalmIs
    <3> HIDE DEF S
    <3>4. Resync(X) \in Seq(S)
      BY <1>4, <3>2, EachFileIn DEF Resync
    <3>5. front \o Resync(X) \in Seq(S)
      BY <3>3, <3>4, ConcatIn
    <3> HIDE DEF C
    <3>6. front \o Resync(X) \o <<>> = front \o Resync(X)
      BY <3>5, ConcatEmptySeq
    <3> QED BY <1>2, <1>5, <3>6 DEF S
  <2> QED BY <1>6, <1>7, <1>8, <2>1 DEF Use
<1>9. CASE SwitchToInstalled(k)
  <2>1. Begin("use", k, 0, FALSE, front \o Resync(X) \o Fetched("switch", k))
    BY <1>7, <1>9 DEF SwitchToInstalled
  <2> QED BY <1>2, <1>5, <1>6, <2>1
<1> QED BY <1>8, <1>9

LEMMA SwitchBegins ==
  ASSUME Typed, NEW k \in Keys, NEW r \in Releases, NEW force \in BOOLEAN, Switch(k, r, force)
  PROVE  Begins
<1> DEFINE rest == Without(Default)
           gone == IF Default = None THEN <<>>
                   ELSE TearDown(Default, proj.man[Default], force) \o Unregister(Default)
                        \o <<SaveState(rest, First(rest), FALSE)>>
           forgot == IF Default = None THEN <<>> ELSE Forget(Default)
           state == <<SaveState(Append(rest, k), k, TRUE)>>
           got == Fetched("switch", k)
           front == gone \o SetUp(k, r) \o state \o Register(k)
           C == Calm("switch", k, r, force)
<1>0. Typed /\ k \notin Installed
  BY DEF Switch
<1>1. rest \in Seq(Keys) /\ IsInjective(rest) /\ Range(rest) \subseteq Installed
  BY <1>0, StateTyped, RemoveFirstIn DEF Without, Installed
<1>2. k \notin Range(rest)
  BY <1>0, <1>1
<1>3. Append(rest, k) \in Seq(Keys) /\ IsInjective(Append(rest, k))
  BY <1>1, <1>2, AppendIn
<1>4. First(rest) \in Keys \cup {None}
  BY <1>1, FirstIn
<1> HIDE DEF rest
<1>5. gone \in Seq(C)
  <2>1. CASE Default = None
    BY <2>1, EmptySeq
  <2>2. CASE Default # None
    <3>1. Default \in Keys
      BY <1>0, <2>2, StateTyped
    <3>2. <<SaveState(rest, First(rest), FALSE)>> \in Seq(C)
      BY <1>1, <1>4, ListsCalm
    <3>3. TearDown(Default, proj.man[Default], force) \in Seq(C) /\ Unregister(Default) \in Seq(C)
      BY <3>1, ListsCalm
    <3> HIDE DEF C
    <3> QED BY <2>2, <3>2, <3>3, ConcatIn
  <2> QED BY <2>1, <2>2
<1>6. state \in Seq(C)
  BY <1>3, ListsCalm
<1>7. forgot \in Seq(C)
  BY <1>0, StateTyped, ListsCalm, EmptySeq
<1>8. SetUp(k, r) \in Seq(C) /\ Register(k) \in Seq(C) /\ got \in Seq(C)
  BY <1>0, ListsCalm DEF Founds
<1>9. Begin("switch", k, r, force,
            gone \o SetUp(k, r) \o state \o Register(k) \o Resync(Ships[k][r]) \o got \o forgot)
  BY DEF Switch, gone, forgot, rest
<1> HIDE DEF gone, forgot, state, got, C
<1>10. front \in Seq(C) /\ got \o forgot \in Seq(C)
  BY <1>5, <1>6, <1>7, <1>8, ConcatIn
<1>11. \A f \in Ships[k][r] : PutOp(f) \in Range(front)
  <2>1. Range(gone \o SetUp(k, r)) = Range(gone) \cup Range(SetUp(k, r))
    BY <1>5, <1>8, RangeConcatenation
  <2>2. gone \o SetUp(k, r) \in Seq(C) /\ gone \o SetUp(k, r) \o state \in Seq(C)
    BY <1>5, <1>6, <1>8, ConcatIn
  <2>3. Range(gone \o SetUp(k, r) \o state) = Range(gone \o SetUp(k, r)) \cup Range(state)
    BY <1>6, <2>2, RangeConcatenation
  <2>4. Range(front) = Range(gone \o SetUp(k, r) \o state) \cup Range(Register(k))
    BY <1>8, <2>2, RangeConcatenation
  <2> QED BY <2>1, <2>3, <2>4, SetUpPuts
<1>12. Ships[k][r] \in SUBSET Files
  BY FilesAssumption
<1> HIDE DEF front
<1> DEFINE S == Fit(proj, "switch", k, r, force)
           X == Ships[k][r]
<1>13. front \o Resync(X) \o (got \o forgot) \in Seq(S)
       /\ AllShielded(front \o Resync(X) \o (got \o forgot), "switch")
  BY <1>10, <1>11, <1>12, RefreshedFits DEF C
<1> DEFINE ops == front \o Resync(X) \o got \o forgot
<1>14. front \o Resync(X) \o (got \o forgot) = ops
  <2>2. \A f \in X : RehashOp(f) \in S
    BY <1>12, CalmFacts
  <2>3. front \in Seq(S) /\ got \in Seq(S) /\ forgot \in Seq(S)
    BY <1>7, <1>8, <1>10, CalmIs DEF C
  <2> HIDE DEF S
  <2>4. Resync(X) \in Seq(S)
    BY <1>12, <2>2, EachFileIn DEF Resync
  <2>5. front \o Resync(X) \in Seq(S)
    BY <2>3, <2>4, ConcatIn
  <2> QED BY <2>3, <2>5, ConcatAssociative
<1>15. Begin("switch", k, r, force, ops)
  BY <1>9 DEF front
<1>16. Brings("switch", k, ops)
  BY <1>0 DEF Brings
<1> HIDE DEF ops
<1> QED BY <1>13, <1>14, <1>15, <1>16, BeginsBy DEF Given, Kinds

LEMMA UpgradeBegins ==
  ASSUME Typed, NEW k \in Keys, NEW r \in Releases, NEW force \in BOOLEAN, Upgrade(k, r, force)
  PROVE  Begins
<1> DEFINE state == <<SaveState(proj.json.installed, Default, TRUE)>>
           X == IF k = Default THEN Ships[k][r] ELSE {}
           up == IF k = Default THEN Register(k) \o Resync(Ships[k][r]) ELSE <<>>
           got == Fetched("upgrade", k)
           base == SetUp(k, r) \o state \o Stale(k, r)
           ops == base \o up \o got
           C == Calm("upgrade", k, r, force)
           S == Fit(proj, "upgrade", k, r, force)
<1>0. Typed /\ (force \/ Modified(proj, k) = {})
  BY DEF Upgrade, MayUpgrade
<1>1. state \in Seq(C)
  BY <1>0, StateTyped, ListsCalm
<1>2. SetUp(k, r) \in Seq(C) /\ Stale(k, r) \in Seq(C) /\ got \in Seq(C) /\ Register(k) \in Seq(C)
  BY <1>0, ListsCalm
<1>3. Begin("upgrade", k, r, force, ops)
  BY DEF Upgrade
<1>4. Brings("upgrade", k, ops)
  BY DEF Brings
<1> HIDE DEF state, got, C
<1>5. /\ base \in Seq(C)
      /\ \A f \in Ships[k][r] : PutOp(f) \in Range(base)
  <2>1. Range(SetUp(k, r) \o state) = Range(SetUp(k, r)) \cup Range(state)
    BY <1>1, <1>2, RangeConcatenation
  <2>2. SetUp(k, r) \o state \in Seq(C)
    BY <1>1, <1>2, ConcatIn
  <2>3. base \in Seq(C) /\ Range(base) = Range(SetUp(k, r) \o state) \cup Range(Stale(k, r))
    BY <1>2, <2>2, ConcatIn, RangeConcatenation
  <2> QED BY <2>1, <2>3, SetUpPuts
<1> HIDE DEF base
<1>6. CASE k = Default
  <2> DEFINE front == base \o Register(k)
             Y == Ships[k][r]
  <2>1. front \in Seq(C) /\ Range(front) = Range(base) \cup Range(Register(k))
    BY <1>2, <1>5, ConcatIn, RangeConcatenation
  <2>2. Y \in SUBSET Files
    BY FilesAssumption
  <2> HIDE DEF front, Y
  <2>3. \A f \in Y : PutOp(f) \in Range(front)
    BY <1>5, <2>1 DEF Y
  <2>4. front \o Resync(Y) \o got \in Seq(S) /\ AllShielded(front \o Resync(Y) \o got, "upgrade")
    BY <1>2, <2>1, <2>2, <2>3, RefreshedFits DEF C
  <2>5. front \o Resync(Y) \o got = ops
    <3>1. \A f \in Y : RehashOp(f) \in S
      BY <2>2, CalmFacts
    <3>2. base \in Seq(S) /\ Register(k) \in Seq(S) /\ got \in Seq(S)
      BY <1>2, <1>5, CalmIs DEF C
    <3> HIDE DEF S
    <3>3. Resync(Y) \in Seq(S)
      BY <2>2, <3>1, EachFileIn DEF Resync
    <3>4. (base \o Register(k)) \o Resync(Y) = base \o (Register(k) \o Resync(Y))
      BY <3>2, <3>3, ConcatAssociative
    <3> QED BY <1>6, <3>4 DEF front, Y
  <2> HIDE DEF ops, S
  <2> QED BY <1>3, <1>4, <2>4, <2>5, BeginsBy DEF Given, Kinds, S
<1>7. CASE k # Default
  <2>1. ops = base \o got
    <3>1. base \o <<>> = base
      BY <1>5, ConcatEmptySeq
    <3> QED BY <1>7, <3>1
  <2>2. base \o got \in Seq(C)
    BY <1>2, <1>5, ConcatIn
  <2> HIDE DEF ops
  <2>3. ops \in Seq(S) /\ AllShielded(ops, "upgrade")
    BY <2>1, <2>2, CalmIs DEF C
  <2> QED BY <1>3, <1>4, <2>3, BeginsBy DEF Given, Kinds
<1> QED BY <1>6, <1>7

LEMMA CommandBegins == Typed /\ Command => Begins
BY InstallBegins, UninstallBegins, UseBegins, SwitchBegins, UpgradeBegins DEF Command

-----------------------------------------------------------------------------
(* Every action keeps the types *)

LEMMA BeginsTyped ==
  ASSUME Typed, Begins
  PROVE  Typed'
<1>1. PICK kind \in Kinds \ {"none"}, k \in Keys, r \in Releases \cup {0}, force \in BOOLEAN,
           ops \in Seq(Ops) : Begin(kind, k, r, force, ops)
  BY DEF Begins
<1>2. <<>> \in Seq(Paths) /\ IsInjective(<<>>) /\ NoFiles \in Hashes
  BY EmptySeq, ContentFacts DEF IsInjective, ContainsMore
<1>3. proj.disk \in Hashes
  BY StoreParts DEF Typed, Effects
<1>4. Control'
  <2>1. /\ cmd' = [kind |-> kind, key |-> k, rel |-> r, force |-> force]
        /\ pc' = "run" /\ todo' = ops /\ ready' = FALSE /\ new' = NoFiles /\ fresh' = Files
        /\ owns' \in BOOLEAN /\ jour' = <<>> /\ saved' = NoFiles /\ written' = NoFiles
        /\ pending' = {} /\ was' = proj /\ how' = "running"
    BY <1>1 DEF Begin
  <2> QED BY <1>1, <1>2, <2>1 DEF Typed, Control, Effects
<1>5. Effects'
  <2>1. /\ proj' = proj /\ theirs' = proj.disk /\ reported' = {} /\ blind' = {} /\ touched' = {}
        /\ kept' = FALSE /\ scarred' = scarred
    BY <1>1 DEF Begin
  <2> QED BY <1>3, <2>1 DEF Typed, Effects
<1> QED BY <1>4, <1>5 DEF Typed

LEMMA RememberTyped ==
  ASSUME Typed, NEW p \in Paths, Remember(p)
  PROVE  /\ saved' \in Hashes /\ written' \in Hashes
         /\ jour' \in Seq(Paths) /\ IsInjective(jour') /\ Journaled' = Journaled \cup {p}
<1>0. proj.disk \in Hashes /\ saved \in Hashes /\ written \in Hashes
      /\ jour \in Seq(Paths) /\ IsInjective(jour)
  BY StoreParts DEF Typed, Control, Effects
<1>1. CASE p \in Journaled
  BY <1>0, <1>1 DEF Remember, Journaled
<1>2. CASE p \notin Journaled
  <2>1. jour' = Append(jour, p)
    BY <1>2 DEF Remember
  <2>2. jour' \in Seq(Paths) /\ IsInjective(jour') /\ Journaled' = Journaled \cup {p}
    BY <1>0, <1>2, <2>1, AppendIn DEF Journaled
  <2>3. saved' \in Hashes /\ written' \in Hashes
    BY <1>0, <1>2 DEF Remember, Hashes
  <2> QED BY <2>2, <2>3
<1> QED BY <1>1, <1>2

LEMMA AnnounceTyped ==
  ASSUME Typed, Announce
  PROVE  Typed'
<1>1. Op \in Ops /\ Op.at \in Paths
  BY HeadIsOp, OpFacts DEF Typed, Control, Announce, Busy
<1>2. /\ saved' \in Hashes /\ written' \in Hashes
      /\ jour' \in Seq(Paths) /\ IsInjective(jour') /\ Journaled' = Journaled \cup {Op.at}
  BY <1>1, RememberTyped DEF Announce
<1>3. Control'
  <2>1. /\ cmd' = cmd /\ pc' = pc /\ todo' = todo /\ ready' = TRUE /\ new' = new /\ fresh' = fresh
        /\ owns' = owns /\ was' = was /\ how' = how /\ pending' = pending \cup {Op.at}
    BY DEF Announce, result
  <2> QED BY <1>2, <2>1 DEF Typed, Control
<1>4. Effects'
  BY DEF Announce, result, history, Typed, Effects
<1> QED BY <1>3, <1>4 DEF Typed

LEMMA PerformTyped ==
  ASSUME Typed, Perform
  PROVE  Typed'
<1>0. Typed /\ todo # <<>> /\ Touches /\ Op \in Ops /\ Tail(todo) \in Seq(Ops)
  BY HeadIsOp DEF Perform, InFlight, Busy, Typed, Control
<1>1. Limited(Completed)
  BY <1>0, HalfwayIsLimited, CompletedIsHalfway
<1>2. proj' \in Stores
  BY <1>1 DEF Limited, Perform
<1>3. new' \in Hashes
  <2>1. cmd.rel \in Contents /\ new \in Hashes
    BY DEF Typed, Control, Contents, Absent
  <2> QED BY <2>1 DEF Perform, Hashes
<1>4. written' \in Hashes
  <2>1. proj'.disk \in Hashes /\ written \in Hashes
    BY <1>2, StoreParts DEF Typed, Control
  <2> QED BY <2>1 DEF Perform, Hashes
<1>5. Control'
  <2>1. /\ cmd' = cmd /\ pc' = pc /\ todo' = Tail(todo) /\ ready' = FALSE /\ fresh' = fresh
        /\ owns' = owns /\ was' = was /\ how' = how /\ pending' = pending \ {Op.at}
        /\ jour' = jour /\ saved' = saved
    BY DEF Perform, Proceed, result
  <2> QED BY <1>0, <1>3, <1>4, <2>1 DEF Typed, Control, Journaled
<1>6. Effects'
  BY <1>2 DEF Perform, result, history, Typed, Effects
<1> QED BY <1>5, <1>6 DEF Typed

LEMMA PassTyped ==
  ASSUME Typed, Pass
  PROVE  Typed'
<1>0. Op \in Ops /\ Op.at \in Paths /\ Tail(todo) \in Seq(Ops)
  BY HeadIsOp, OpFacts DEF Typed, Control, Pass, Busy
<1>1. Control'
  <2>1. /\ cmd' = cmd /\ pc' = pc /\ todo' = Tail(todo) /\ ready' = FALSE /\ fresh' = fresh
        /\ owns' = owns /\ was' = was /\ how' = how /\ pending' = pending
        /\ jour' = jour /\ saved' = saved /\ written' = written /\ new' = new
    BY DEF Pass, Proceed
  <2> QED BY <1>0, <2>1 DEF Typed, Control, Journaled
<1>2. Effects'
  BY <1>0 DEF Pass, history, Typed, Effects
<1> QED BY <1>1, <1>2 DEF Typed

LEMMA TakeSnapshotTyped ==
  ASSUME Typed, TakeSnapshot
  PROVE  Typed'
<1>0. ManifestOp(Op) /\ Tail(todo) \in Seq(Ops)
  BY HeadIsOp, OpFacts
     DEF Typed, Control, TakeSnapshot, Busy, FileOp, StateOp, PkgOp, RecOp, CoverOp
<1>1. new' \in Hashes /\ fresh' \subseteq Files
  BY <1>0, StoreParts DEF Typed, Effects, TakeSnapshot, ManifestOp, Tracked
<1>2. Control'
  <2>1. /\ cmd' = cmd /\ pc' = pc /\ todo' = Tail(todo) /\ ready' = ready
        /\ owns' = owns /\ was' = was /\ how' = how /\ pending' = pending
        /\ jour' = jour /\ saved' = saved /\ written' = written
    BY DEF TakeSnapshot, journal, result
  <2> QED BY <1>0, <1>1, <2>1 DEF Typed, Control, Journaled
<1>3. Effects'
  BY DEF TakeSnapshot, result, history, Typed, Effects
<1> QED BY <1>2, <1>3 DEF Typed


-----------------------------------------------------------------------------
(* The operations that are left *)

\* After the first operation: the rest, or the rest without what a failed
\* registration of presets gives up.
Follows(t, s, n) ==
  /\ n \in 1 .. Len(s) /\ t \in Seq(Ops) /\ Len(t) = Len(s) - n
  /\ \A i \in 1 .. Len(t) : t[i] = s[i + n]
  /\ \A i \in 2 .. n : s[i].do \in {"overlay", "cover", "clear", "uncover"}
GivenUp == {"overlay", "cover", "clear", "uncover"}

LEMMA TailFollows ==
  ASSUME NEW s \in Seq(Ops), s # <<>>
  PROVE  Follows(Tail(s), s, 1) /\ Len(s) \in Nat /\ s[1] = Head(s)
BY HeadTailProperties, LenProperties, EmptySeq DEF Follows

LEMMA FromFollows ==
  ASSUME NEW s \in Seq(Ops), s # <<>>, NEW K \in SUBSET GivenUp
  PROVE  \E n \in 1 .. Len(s) : Follows(From(Tail(s), K), s, n)
<1> DEFINE t == Tail(s)
           others == {i \in DOMAIN t : t[i].do \notin K}
<1>1. /\ t \in Seq(Ops) /\ Len(s) \in Nat /\ Len(s) >= 1 /\ Len(t) = Len(s) - 1
      /\ DOMAIN t = 1 .. Len(t)
      /\ \A i \in 1 .. Len(t) : t[i] = s[i + 1]
  BY HeadTailProperties, LenProperties, EmptySeq
<1> HIDE DEF t
<1>2. CASE others = {}
  <2>1. From(t, K) = <<>>
    BY <1>2 DEF From
  <2>2. <<>> \in Seq(Ops) /\ Len(<<>>) = 0
    BY EmptySeq
  <2>3. ASSUME NEW i \in 2 .. Len(s) PROVE s[i].do \in GivenUp
    <3>1. i - 1 \in 1 .. Len(t) /\ i - 1 + 1 = i
      BY <1>1
    <3>2. t[i - 1].do \in K
      BY <1>1, <1>2, <3>1
    <3> QED BY <1>1, <3>1, <3>2
  <2>4. Len(s) \in 1 .. Len(s) /\ Len(s) - Len(s) = 0 /\ 1 .. Len(<<>>) = {}
    BY <1>1, <2>2
  <2>5. Follows(<<>>, s, Len(s))
    BY <2>2, <2>3, <2>4 DEF Follows, GivenUp
  <2> QED BY <2>1, <2>4, <2>5 DEF t
<1>3. CASE others # {}
  <2>1. others \in SUBSET Nat
    BY <1>1
  <2>2. PICK m \in others : \A j \in others : m <= j
    BY <2>1, <1>3, Smallest
  <2> DEFINE n == CHOOSE i \in others : \A j \in others : i <= j
  <2>3. n \in others /\ \A j \in others : n <= j
    BY <2>2
  <2>4. n \in 1 .. Len(t) /\ n \in Nat
    BY <1>1, <2>3
  <2>5. From(t, K) = SubSeq(t, n, Len(t))
    BY <1>3 DEF From
  <2> HIDE DEF n, others
  <2> DEFINE u == SubSeq(t, n, Len(t))
  <2>6. /\ u \in Seq(Ops) /\ Len(u) = Len(t) - n + 1
        /\ \A i \in 1 .. Len(t) - n + 1 : u[i] = t[n + i - 1]
    BY <1>1, <2>4, ElementOfSeq, SubSeqProperties
  <2> HIDE DEF u
  <2>7. Len(u) = Len(s) - n
    BY <1>1, <2>4, <2>6
  <2>8. ASSUME NEW i \in 1 .. Len(u) PROVE u[i] = s[i + n]
    <3>1. i \in 1 .. Len(t) - n + 1 /\ n + i - 1 \in 1 .. Len(t) /\ n + i - 1 + 1 = i + n
      BY <1>1, <2>4, <2>6
    <3> QED BY <1>1, <2>6, <3>1
  <2>9. ASSUME NEW i \in 2 .. n PROVE s[i].do \in GivenUp
    <3>1. i - 1 \in 1 .. Len(t) /\ i - 1 + 1 = i /\ ~ (n <= i - 1)
      BY <1>1, <2>4
    <3>2. t[i - 1].do \in K
      BY <1>1, <2>3, <3>1 DEF others
    <3> QED BY <1>1, <3>1, <3>2
  <2>10. n \in 1 .. Len(s)
    BY <1>1, <2>4
  <2>11. Follows(u, s, n)
    BY <2>6, <2>7, <2>8, <2>9, <2>10 DEF Follows, GivenUp
  <2> QED BY <2>5, <2>10, <2>11 DEF u, t
<1> QED BY <1>2, <1>3

LEMMA AfterFailureFollows ==
  ASSUME todo \in Seq(Ops), todo # <<>>
  PROVE  \E n \in 1 .. Len(todo) : Follows(AfterFailure, todo, n)
<1>1. Len(todo) \in Nat /\ Len(todo) >= 1 /\ Follows(Tail(todo), todo, 1)
  BY TailFollows, LenProperties, EmptySeq
<1>2. 1 \in 1 .. Len(todo)
  BY <1>1
<1>3. {"overlay", "cover"} \in SUBSET GivenUp /\ {"clear", "uncover"} \in SUBSET GivenUp
  BY DEF GivenUp
<1> QED BY <1>1, <1>2, <1>3, FromFollows DEF AfterFailure

LEMMA RevivedRest ==
  ASSUME NEW s \in Seq(Ops), NEW t, NEW n, Follows(t, s, n), NEW a, NEW b, NEW k, RevivedBy(s, a, k),
         s[1].do = "state" => b = First(s[1].value.installed),
         s[1].do # "state" => b = a
  PROVE  RevivedBy(t, b, k)
<1>0. Len(s) \in Nat /\ Len(t) = Len(s) - n /\ n \in 1 .. Len(s)
  BY LenProperties DEF Follows
<1>1. \A i \in 1 .. Len(t) : i + n \in 1 .. Len(s) /\ t[i] = s[i + n]
  BY <1>0 DEF Follows
<1> SUFFICES ASSUME NEW j \in 1 .. Len(t), t[j].do = "rehash"
             PROVE  /\ k \in Keys
                    /\ \A i \in 1 .. Len(t) : t[i].do = "state" => First(t[i].value.installed) = k
                    /\ \/ b = k
                       \/ \E i \in 1 .. Len(t) :
                            /\ t[i].do = "state"
                            /\ \A l \in 1 .. Len(t) : t[l].do = "rehash" => i < l
  BY DEF RevivedBy
<1>2. j + n \in 1 .. Len(s) /\ s[j + n].do = "rehash"
  BY <1>1
<1>3. k \in Keys /\ \A i \in 1 .. Len(s) : s[i].do = "state" => First(s[i].value.installed) = k
  BY <1>2 DEF RevivedBy
<1>4. k \in Keys /\ \A i \in 1 .. Len(t) : t[i].do = "state" => First(t[i].value.installed) = k
  BY <1>1, <1>3
<1>5. CASE s[1].do = "state"
  <2>1. 1 \in 1 .. Len(s)
    BY <1>0
  <2> QED BY <1>3, <1>4, <1>5, <2>1
<1>6. CASE s[1].do # "state"
  <2>1. CASE a = k
    BY <1>4, <1>6, <2>1
  <2>2. CASE a # k
    <3>1. PICK i \in 1 .. Len(s) : /\ s[i].do = "state"
                                   /\ \A l \in 1 .. Len(s) : s[l].do = "rehash" => i < l
      BY <1>2, <2>2 DEF RevivedBy
    <3>2. ~ (i \in 2 .. n)
      BY <3>1 DEF Follows
    <3>3. i # 1
      BY <1>6, <3>1
    <3>4. i - n \in 1 .. Len(t) /\ i - n + n = i
      BY <1>0, <3>2, <3>3
    <3>5. t[i - n].do = "state"
      BY <1>1, <3>1, <3>4
    <3>6. \A l \in 1 .. Len(t) : t[l].do = "rehash" => i - n < l
      <4> SUFFICES ASSUME NEW l \in 1 .. Len(t), t[l].do = "rehash" PROVE i - n < l
        OBVIOUS
      <4>1. l + n \in 1 .. Len(s) /\ s[l + n].do = "rehash"
        BY <1>1
      <4>2. i < l + n
        BY <3>1, <4>1
      <4> QED BY <1>0, <4>2
    <3> QED BY <1>4, <3>4, <3>5, <3>6
  <2> QED BY <2>1, <2>2
<1> QED BY <1>5, <1>6

LEMMA RevivedAppend ==
  ASSUME NEW s \in Seq(Ops), NEW o \in Ops, o.do \notin {"rehash", "state"}, NEW a, NEW k,
         RevivedBy(s, a, k)
  PROVE  RevivedBy(s \o <<o>>, a, k)
<1> DEFINE t == s \o <<o>>
<1>1. /\ Len(s) \in Nat /\ Len(t) = Len(s) + 1
      /\ \A i \in 1 .. Len(s) : t[i] = s[i]
      /\ t[Len(s) + 1] = o
  BY LenProperties, ConcatProperties, TupleIn
<1> HIDE DEF t
<1>2. \A i \in 1 .. Len(t) : i \in 1 .. Len(s) \/ t[i] = o
  BY <1>1
<1>3. \A i \in 1 .. Len(s) : i \in 1 .. Len(t)
  BY <1>1
<1> SUFFICES ASSUME NEW j \in 1 .. Len(t), t[j].do = "rehash"
             PROVE  /\ k \in Keys
                    /\ \A i \in 1 .. Len(t) : t[i].do = "state" => First(t[i].value.installed) = k
                    /\ \/ a = k
                       \/ \E i \in 1 .. Len(t) :
                            /\ t[i].do = "state"
                            /\ \A l \in 1 .. Len(t) : t[l].do = "rehash" => i < l
  BY DEF RevivedBy, t
<1>4. j \in 1 .. Len(s) /\ s[j].do = "rehash"
  BY <1>1, <1>2
<1>5. /\ k \in Keys
      /\ \A i \in 1 .. Len(s) : s[i].do = "state" => First(s[i].value.installed) = k
      /\ \/ a = k
         \/ \E i \in 1 .. Len(s) : /\ s[i].do = "state"
                                   /\ \A l \in 1 .. Len(s) : s[l].do = "rehash" => i < l
  BY <1>4 DEF RevivedBy
<1>6. k \in Keys /\ \A i \in 1 .. Len(t) : t[i].do = "state" => First(t[i].value.installed) = k
  BY <1>1, <1>2, <1>5
<1>7. CASE a # k
  <2>1. PICK i \in 1 .. Len(s) : /\ s[i].do = "state"
                                 /\ \A l \in 1 .. Len(s) : s[l].do = "rehash" => i < l
    BY <1>5, <1>7
  <2>2. i \in 1 .. Len(t) /\ t[i].do = "state"
    BY <1>1, <1>3, <2>1
  <2>3. \A l \in 1 .. Len(t) : t[l].do = "rehash" => i < l
    BY <1>1, <1>2, <2>1
  <2> QED BY <1>6, <2>2, <2>3
<1> QED BY <1>6, <1>7

\* The clean-up: removals, then the state, then what it falls back on.
LEMMA CleanUpRevives ==
  ASSUME Typed, cmd.key \in Keys, NEW a
  PROVE  RevivedBy(CleanUp, a, Fallback)
<1> DEFINE installed == IF cmd.kind = "install" THEN was.json.installed
                        ELSE RemoveFirst(was.json.installed, was.json.default)
           default == IF cmd.kind = "install" THEN was.json.default ELSE First(installed)
           down == TearDown(cmd.key, new, TRUE)
           middle == <<SaveState(installed, default, FALSE)>>
           up == IF cmd.kind = "install" \/ default = None THEN <<>>
                 ELSE <<Snapshot(default)>> \o Register(default)
                      \o Resync(Tracked(proj.man[default]))
<1> DEFINE Plain == {o \in Ops : o.do \notin {"state", "rehash"}}
           Other == {o \in Ops : o.do # "state"}
<1>0. was.json \in Proper /\ was.json.installed \in Seq(Keys) /\ IsInjective(was.json.installed)
      /\ was.json.default \in Keys \cup {None}
  BY StoreParts DEF Typed, Control, Proper, State
<1>1. installed \in Seq(Keys) /\ IsInjective(installed)
  BY <1>0, RemoveFirstIn
<1>2. default \in Keys \cup {None}
  BY <1>0, <1>1, FirstIn
<1>3. down \in Seq(Plain)
  <2>1. \A f \in Tracked(new) : DropOp(f, new[f], TRUE) \in Plain
    BY FileOpsTyped DEF Typed, Control, Hashes, Tracked, DropOp
  <2>2. DropManifest(cmd.key) \in Plain
    BY MetadataOpsTyped DEF DropManifest
  <2> HIDE DEF Plain
  <2> QED BY <2>1, <2>2, TearDownIn
<1>4. up \in Seq(Other)
  <2>1. CASE cmd.kind = "install" \/ default = None
    BY <2>1, EmptySeq
  <2>2. CASE ~ (cmd.kind = "install" \/ default = None)
    <3>0. default \in Keys
      BY <1>2, <2>2
    <3> HIDE DEF default
    <3>1. Snapshot(default) \in Other /\ PresetOp("cover", default) \in Other
      BY <3>0, MetadataOpsTyped DEF Snapshot, PresetOp
    <3>2. \A f \in Files : OverlayOp(f) \in Other /\ RehashOp(f) \in Other
      BY FileOpsTyped DEF OverlayOp, RehashOp
    <3> HIDE DEF Other
    <3>3. <<Snapshot(default)>> \in Seq(Other)
      BY <3>1, TupleIn
    <3>4. Register(default) \in Seq(Other)
      BY <3>0, <3>1, <3>2, RegisterIn, FilesAssumption
    <3>5. Resync(Tracked(proj.man[default])) \in Seq(Other)
      BY <3>2, EachFileIn DEF Resync, Tracked
    <3> QED BY <2>2, <3>3, <3>4, <3>5, ConcatIn DEF default
  <2> QED BY <2>1, <2>2
<1>5. up # <<>> => First(installed) = Fallback /\ Fallback \in Keys
  BY <1>2 DEF Fallback
<1>6. SaveState(installed, default, FALSE) \in Ops
  BY <1>1, <1>2, StateOpTyped
<1> DEFINE the == SaveState(installed, default, FALSE)
<1>7. the.do = "state" /\ the.value.installed = installed
  BY DEF SaveState
<1>8. CleanUp = (down \o middle) \o up
  BY DEF CleanUp
<1> HIDE DEF installed, default, up, the, down
<1> HIDE DEF middle
<1> DEFINE front == down \o middle
<1>9. /\ front \in Seq(Ops) /\ Len(front) = Len(down) + 1 /\ Len(down) \in Nat
      /\ \A i \in 1 .. Len(down) : front[i] \in Plain
      /\ front[Len(down) + 1] = the
  <2>1. down \in Seq(Ops) /\ \A i \in 1 .. Len(down) : down[i] \in Plain
    BY <1>3, ElementsIn, SeqMonotonic
  <2>2. middle \in Seq(Ops) /\ Len(middle) = 1 /\ middle[1] = the
    BY <1>6, TupleIn DEF the, middle
  <2> HIDE DEF Plain
  <2>3. /\ front \in Seq(Ops) /\ Len(front) = Len(down) + Len(middle) /\ Len(down) \in Nat
        /\ \A i \in 1 .. Len(down) : front[i] = down[i]
        /\ \A i \in 1 .. Len(middle) : front[i + Len(down)] = middle[i]
    <3>1. front \in Seq(Ops) /\ Joined(front, down, middle)
      BY <2>1, <2>2, ConcatElements
    <3> QED BY <3>1 DEF Joined
  <2>4. front[1 + Len(down)] = the /\ 1 + Len(down) = Len(down) + 1
    BY <2>2, <2>3
  <2> QED BY <2>1, <2>2, <2>3, <2>4
<1> HIDE DEF front
<1>10. /\ Len(up) \in Nat /\ \A i \in 1 .. Len(up) : up[i] \in Other
       /\ up \in Seq(Ops)
  BY <1>4, ElementsIn, SeqMonotonic
<1> DEFINE all == front \o up
<1>11. /\ all \in Seq(Ops) /\ Len(all) = Len(front) + Len(up)
       /\ \A i \in 1 .. Len(front) : all[i] = front[i]
       /\ \A i \in 1 .. Len(up) : all[i + Len(front)] = up[i]
       /\ \A i \in 1 .. Len(all) :
            i \in 1 .. Len(front) \/ (i - Len(front) \in 1 .. Len(up)
                                      /\ i - Len(front) + Len(front) = i)
  <2>1. all \in Seq(Ops) /\ Joined(all, front, up)
    BY <1>9, <1>10, ConcatElements
  <2> QED BY <2>1 DEF Joined
<1> HIDE DEF all
<1> SUFFICES ASSUME NEW j \in 1 .. Len(all), all[j].do = "rehash"
             PROVE  /\ Fallback \in Keys
                    /\ \A i \in 1 .. Len(all) :
                         all[i].do = "state" => First(all[i].value.installed) = Fallback
                    /\ \E i \in 1 .. Len(all) :
                            /\ all[i].do = "state"
                            /\ \A l \in 1 .. Len(all) : all[l].do = "rehash" => i < l
  BY <1>8 DEF RevivedBy, all, front
<1> DEFINE Tells(i) == \/ i \in 1 .. Len(down) /\ all[i].do \notin {"state", "rehash"}
                       \/ i = Len(down) + 1 /\ all[i] = the
                       \/ i > Len(down) + 1 /\ all[i].do # "state" /\ up # <<>>
<1>12. \A i \in 1 .. Len(all) : Tells(i)
  <2> SUFFICES ASSUME NEW i \in 1 .. Len(all)
               PROVE  Tells(i)
    OBVIOUS
  <2>1. CASE i \in 1 .. Len(down)
    <3>1. i \in 1 .. Len(front)
      BY <1>9, <2>1
    <3> QED BY <1>9, <1>11, <2>1, <3>1
  <2>2. CASE i = Len(down) + 1
    <3>1. i \in 1 .. Len(front)
      BY <1>9, <2>2
    <3> QED BY <1>9, <1>11, <2>2, <3>1
  <2>3. CASE i > Len(down) + 1
    <3>1. i - Len(front) \in 1 .. Len(up) /\ i - Len(front) + Len(front) = i
      BY <1>9, <1>10, <1>11, <2>3
    <3>2. all[i] = up[i - Len(front)]
      BY <1>11, <3>1
    <3>3. up # <<>>
      <4>1. Len(<<>>) = 0 /\ 1 .. 0 = {}
        BY EmptySeq
      <4> QED BY <3>1, <4>1
    <3> QED BY <1>10, <2>3, <3>1, <3>2, <3>3
  <2> QED BY <1>9, <1>10, <1>11, <2>1, <2>2, <2>3
<1> HIDE DEF Plain, Other
<1>13. j > Len(down) + 1 /\ up # <<>>
  BY <1>7, <1>12
<1>14. Len(down) + 1 \in 1 .. Len(all)
  BY <1>9, <1>10, <1>11
<1>15. /\ all[Len(down) + 1] = the /\ the.do = "state"
       /\ First(installed) = Fallback /\ Fallback \in Keys
  BY <1>5, <1>7, <1>9, <1>12, <1>13, <1>14
<1>16. \A i \in 1 .. Len(all) : all[i].do = "state" => i = Len(down) + 1
  BY <1>9, <1>12
<1>17. \A l \in 1 .. Len(all) : all[l].do = "rehash" => Len(down) + 1 < l
  BY <1>7, <1>9, <1>12
<1> QED BY <1>7, <1>14, <1>15, <1>16, <1>17

-----------------------------------------------------------------------------
(* Every action keeps the types (continued) *)

LEMMA ResavesTyped ==
  ASSUME Typed, Routed, Revives, Busy, Op.do = "rehash", NEW f
  PROVE  /\ \/ Resaves(f) = <<>>
            \/ \E k \in Keys : Resaves(f) = <<Resave(k)>>
         /\ pc = "undo" => Resaves(f) \in {<<>>, <<Resave(Fallback)>>} /\ Fallback \in Keys
         /\ pc = "run" => Resaves(f) \in {<<>>, <<Resave(cmd.key)>>}
<1> DEFINE active == IF pc = "undo" THEN First(proj.json.installed) ELSE cmd.key
<1>1. active \in Keys /\ (pc = "undo" => active = Fallback)
  <2>1. CASE pc = "undo"
    <3>1. todo[1].do = "rehash" /\ 1 \in 1 .. Len(todo) /\ \A i \in 1 .. Len(todo) : ~ (i < 1)
      BY TailFollows, LenProperties, EmptySeq DEF Typed, Control, Busy, Op
    <3> QED BY <2>1, <3>1 DEF Revives, RevivedBy
  <2>2. CASE pc # "undo"
    BY <2>2 DEF Routed, HasKey, Busy
  <2> QED BY <2>1, <2>2
<1>2. Resaves(f) \in {<<>>, <<Resave(active)>>}
  BY DEF Resaves
<1> QED BY <1>1, <1>2

LEMMA RehashTyped ==
  ASSUME Typed, Routed, Revives, Rehash
  PROVE  Typed'
<1> DEFINE f == Op.at
<1>0. /\ f \in Files /\ f \in Paths /\ todo \in Seq(Ops) /\ todo # <<>> /\ Tail(todo) \in Seq(Ops)
      /\ proj.disk[f] \in Contents
  <2>1. Op \in Ops /\ Op.do = "rehash" /\ Tail(todo) \in Seq(Ops)
    BY HeadIsOp DEF Typed, Control, Rehash, Busy
  <2>2. FileOp(Op) /\ Op.at \in Paths
    BY <2>1, OpFacts DEF FileOp, ManifestOp, StateOp, PkgOp, RecOp, CoverOp
  <2> QED BY <2>1, <2>2, StoreParts DEF FileOp, Typed, Control, Effects, Hashes, Rehash, Busy
<1>1. /\ cmd' = cmd /\ pc' = pc /\ ready' = ready /\ fresh' = fresh /\ was' = was /\ how' = how
      /\ proj' = proj /\ theirs' = theirs /\ reported' = reported /\ touched' = touched
      /\ kept' = kept /\ scarred' = scarred
  BY DEF Rehash, result
<1>2. CASE ~ Rehashed(f)
  <2>1. todo' = Tail(todo) /\ new' = new /\ blind' = blind /\ owns' = owns /\ jour' = jour
        /\ saved' = saved /\ written' = written /\ pending' = pending
    BY <1>2 DEF Rehash, journal
  <2> QED BY <1>0, <1>1, <2>1 DEF Typed, Control, Effects, Journaled
<1>3. CASE Rehashed(f)
  <2>1. owns' = owns /\ saved' = saved /\ new' = [new EXCEPT ![f] = proj.disk[f]]
        /\ blind' \in {blind, blind \cup {f}} /\ todo' = Tail(todo) \o Resaves(f)
    BY <1>3 DEF Rehash
  <2>2. todo' \in Seq(Ops)
    <3>1. Resaves(f) \in Seq(Ops)
      <4>1. Resaves(f) = <<>> \/ \E k \in Keys : Resaves(f) = <<Resave(k)>>
        BY ResavesTyped DEF Rehash
      <4>2. <<>> \in Seq(Ops) /\ \A k \in Keys : <<Resave(k)>> \in Seq(Ops)
        BY MetadataOpsTyped, TupleIn, EmptySeq
      <4> HIDE DEF f
      <4> QED BY <4>1, <4>2
    <3> QED BY <1>0, <2>1, <3>1, ConcatIn
  <2>3. new' \in Hashes
    BY <1>0, <2>1 DEF Typed, Control, Hashes
  <2>4. /\ jour' \in Seq(Paths) /\ IsInjective(jour') /\ pending' \subseteq Journaled'
        /\ written' \in Hashes
    <3>1. CASE Adopts(f)
      <4>1. /\ jour' = IF f \in Journaled THEN jour ELSE Append(jour, f)
            /\ written' = [written EXCEPT ![f] = proj.disk[f]]
            /\ pending' = pending \ {f}
        BY <1>3, <3>1 DEF Rehash
      <4>2. written' \in Hashes
        BY <1>0, <4>1 DEF Typed, Control, Hashes
      <4>3. jour' \in Seq(Paths) /\ IsInjective(jour') /\ Journaled \subseteq Journaled'
        BY <1>0, <4>1, AppendIn DEF Typed, Control, Journaled
      <4> QED BY <4>1, <4>2, <4>3 DEF Typed, Control
    <3>2. CASE ~ Adopts(f)
      BY <1>3, <3>2 DEF Rehash, Typed, Control, Journaled
    <3> QED BY <3>1, <3>2
  <2>5. Control'
    BY <1>1, <2>1, <2>2, <2>3, <2>4 DEF Typed, Control
  <2>6. Effects'
    BY <1>0, <1>1, <2>1 DEF Typed, Effects
  <2> QED BY <2>5, <2>6 DEF Typed
<1> QED BY <1>2, <1>3

LEMMA RefuseTyped ==
  ASSUME Typed, Routed, Refuse
  PROVE  Typed'
<1>0. /\ todo \in Seq(Ops) /\ todo # <<>> /\ pc # "idle" /\ Op.at \in Paths
      /\ AfterFailure \in Seq(Ops)
  BY HeadIsOp, OpFacts, AfterFailureTyped DEF Typed, Control, Refuse, Busy
<1>1. Effects'
  BY <1>0 DEF Refuse, history, Typed, Effects
<1>2. Control'
  <2>1. CASE BestEffort
    <3>1. /\ todo' = AfterFailure /\ ready' = FALSE /\ cmd' = cmd /\ pc' = pc /\ fresh' = fresh
          /\ owns' = owns /\ new' = new /\ jour' = jour /\ saved' = saved /\ written' = written
          /\ pending' = pending /\ was' = was /\ how' = how
      BY <2>1 DEF Refuse, Proceed
    <3> QED BY <1>0, <3>1 DEF Typed, Control, Journaled
  <2>2. CASE ~ BestEffort
    BY <1>0, <2>2, RaiseTyped DEF Refuse, Routed
  <2> QED BY <2>1, <2>2
<1> QED BY <1>1, <1>2 DEF Typed

\* What may be on disk when an operation stops.
LEMMA LeftIsLimited ==
  ASSUME Typed, pc # "idle", NEW q \in Left
  PROVE  q \in Stores /\ (q = proj \/ (InFlight /\ Limited(q)))
<1>1. CASE InFlight
  <2>1. todo # <<>> /\ Touches /\ q \in Halfway
    BY <1>1 DEF Left, InFlight, Busy
  <2>2. Limited(q)
    BY <2>1, HalfwayIsLimited
  <2> QED BY <1>1, <2>2 DEF Limited
<1>2. CASE ~ InFlight
  BY <1>2 DEF Left, Typed, Effects
<1> QED BY <1>1, <1>2

LEMMA FailsTyped ==
  ASSUME Typed, Routed, Fails
  PROVE  Typed'
<1>0. /\ todo \in Seq(Ops) /\ todo # <<>> /\ pc # "idle" /\ Op.at \in Paths /\ Touches
      /\ AfterFailure \in Seq(Ops)
  BY HeadIsOp, OpFacts, AfterFailureTyped DEF Typed, Control, Fails, InFlight, Busy
<1>1. proj' \in Stores /\ reported' \subseteq Paths
  <2>1. proj' \in Halfway
    BY CompletedIsHalfway DEF Fails
  <2>2. reported' \in {reported, reported \cup {Op.at}}
    BY DEF Fails
  <2> QED BY <1>0, <2>1, <2>2, HalfwayIsLimited DEF Limited, Typed, Effects
<1>2. Effects'
  BY <1>1 DEF Fails, history, Typed, Effects
<1>3. Control'
  <2>1. CASE BestEffort
    <3>1. /\ todo' = AfterFailure /\ ready' = FALSE /\ cmd' = cmd /\ pc' = pc /\ fresh' = fresh
          /\ owns' = owns /\ new' = new /\ jour' = jour /\ saved' = saved /\ written' = written
          /\ pending' = pending /\ was' = was /\ how' = how
      BY <2>1 DEF Fails, Proceed
    <3> QED BY <1>0, <3>1 DEF Typed, Control, Journaled
  <2>2. CASE ~ BestEffort
    BY <1>0, <2>2, RaiseTyped DEF Fails, Routed
  <2> QED BY <2>1, <2>2
<1> QED BY <1>2, <1>3 DEF Typed

LEMMA InterruptedTyped ==
  ASSUME Typed, Interrupted
  PROVE  Typed'
<1>1. proj' \in Stores
  BY LeftIsLimited DEF Interrupted
<1>2. Effects'
  BY <1>1 DEF Interrupted, history, Typed, Effects
<1>3. Control'
  <2>1. CASE owns
    BY <2>1 DEF Interrupted, Typed, Control, Journaled, journal
  <2>2. CASE ~ owns
    BY <2>2, EndsTyped DEF Interrupted
  <2> QED BY <2>1, <2>2
<1> QED BY <1>2, <1>3 DEF Typed

LEMMA HalfRestoredTyped ==
  ASSUME Typed, NEW q \in HalfRestored
  PROVE  q \in Stores
BY RestoredTyped DEF HalfRestored

LEMMA JournaledPaths ==
  ASSUME Typed
  PROVE  Journaled \subseteq Paths
BY DEF Typed, Control, Journaled, Range

LEMMA EndingsTyped ==
  ASSUME Typed, RollBack \/ RollBackFails \/ Killed \/ Finish
  PROVE  Typed'
<1>0. /\ Conflicts \subseteq Paths /\ Journaled \subseteq Paths /\ reported \subseteq Paths
      /\ proj \in Stores
  BY JournaledPaths DEF Conflicts, Typed, Effects
<1>1. CASE RollBack
  <2>1. Control'
    BY <1>1, EndsTyped DEF RollBack
  <2>2. Effects'
    BY <1>0, <1>1, RestoredTyped DEF RollBack, Typed, Effects
  <2> QED BY <2>1, <2>2 DEF Typed
<1>2. CASE RollBackFails
  <2>1. Control'
    BY <1>2, EndsTyped DEF RollBackFails
  <2>2. Effects'
    BY <1>0, <1>2, HalfRestoredTyped DEF RollBackFails, Typed, Effects
  <2> QED BY <2>1, <2>2 DEF Typed
<1>3. CASE Killed
  <2>1. Control'
    BY <1>3, EndsTyped DEF Killed
  <2>2. proj' \in Stores
    BY <1>3, HalfRestoredTyped, LeftIsLimited DEF Killed, Fault
  <2>3. Effects'
    BY <1>3, <2>2 DEF Killed, Typed, Effects
  <2> QED BY <2>1, <2>3 DEF Typed
<1>4. CASE Finish
  <2>1. Control'
    BY <1>4, EndsTyped DEF Finish
  <2>2. Effects'
    BY <1>4 DEF Finish, history, Typed, Effects
  <2> QED BY <2>1, <2>2 DEF Typed
<1> QED BY <1>1, <1>2, <1>3, <1>4

LEMMA EditsTyped ==
  ASSUME Typed, NEW f \in Files, NEW c \in Written, Edit(f, c) \/ EditMeanwhile(f, c)
  PROVE  Typed'
<1>0. /\ proj' = [proj EXCEPT !.disk[f] = c] /\ c \in Contents
      /\ proj \in Stores /\ theirs \in Hashes
  BY ContentFacts DEF Edit, EditMeanwhile, ContainsMore, Typed, Effects
<1>1. proj' \in Stores
  BY <1>0, DiskChange
<1>2. CASE Edit(f, c)
  <2>1. cmd' = [cmd EXCEPT !.kind = "none"] /\ how' = "ok"
        /\ pc' = pc /\ todo' = todo /\ was' = was /\ new' = new /\ fresh' = fresh /\ saved' = saved
        /\ written' = written /\ jour' = jour /\ pending' = pending /\ owns' = owns /\ ready' = ready
    BY <1>2 DEF Edit, journal
  <2>2. cmd' \in [kind : Kinds, key : Keys \cup {None}, rel : Releases \cup {0}, force : BOOLEAN]
    BY <2>1 DEF Typed, Control, Kinds
  <2>3. Control'
    BY <2>1, <2>2 DEF Typed, Control, Journaled
  <2>4. Effects'
    BY <1>1, <1>2 DEF Edit, history, Typed, Effects
  <2> QED BY <2>3, <2>4 DEF Typed
<1>3. CASE EditMeanwhile(f, c)
  <2>1. cmd' = cmd /\ how' = how
        /\ pc' = pc /\ todo' = todo /\ was' = was /\ new' = new /\ fresh' = fresh /\ saved' = saved
        /\ written' = written /\ jour' = jour /\ pending' = pending /\ owns' = owns /\ ready' = ready
    BY <1>3 DEF EditMeanwhile, journal, result
  <2>2. Control'
    BY <2>1 DEF Typed, Control, Journaled
  <2>3. theirs' \in Hashes /\ blind' \subseteq Files
    BY <1>0, <1>3 DEF EditMeanwhile, Hashes, Typed, Effects
  <2>4. Effects'
    BY <1>1, <1>3, <2>3 DEF EditMeanwhile, result, Typed, Effects
  <2> QED BY <2>2, <2>4 DEF Typed
<1> QED BY <1>2, <1>3

-----------------------------------------------------------------------------
(* Every action keeps the order of a command *)

LEMMA RoutedKept ==
  ASSUME Typed, Routed, [Next]_vars
  PROVE  Routed'
<1> DEFINE Still == cmd' = cmd /\ was' = was /\ owns' = owns
<1>1. ASSUME NEW outcome, Ends(outcome) PROVE Routed'
  BY <1>1 DEF Ends, Routed, HasKey
<1>2. ASSUME Raise, pc # "idle", was' = was PROVE Routed'
  <2>1. CASE ~ owns /\ ~ Guarded /\ Ends("failed")
    BY <1>1, <2>1
  <2>2. CASE owns /\ pc' = "rollback" /\ ready' = FALSE
             /\ UNCHANGED <<cmd, todo, new, fresh, journal, was, how>>
    BY <1>2, <2>2 DEF Routed, HasKey, journal
  <2>3. CASE ~ owns /\ Guarded /\ pc' = "undo" /\ todo' = CleanUp /\ ready' = FALSE
             /\ UNCHANGED <<cmd, new, fresh, journal, was, how>>
    BY <1>2, <2>3 DEF Routed, HasKey, journal
  <2> QED BY <1>2, <2>1, <2>2, <2>3 DEF Raise
<1>3. CASE Command
  <2>1. PICK kind \in Kinds \ {"none"}, k \in Keys, r \in Releases \cup {0}, force \in BOOLEAN,
             ops \in Seq(Ops) : Begin(kind, k, r, force, ops)
    BY <1>3, CommandBegins DEF Begins
  <2> QED BY <2>1 DEF Begin, Routed, HasKey
<1>4. CASE Announce
  BY <1>4 DEF Announce, Busy, Routed, HasKey, result, Touches, Op
<1>5. CASE Perform
  BY <1>5 DEF Perform, Proceed, InFlight, Busy, Routed, HasKey, result
<1>6. CASE Pass
  BY <1>6 DEF Pass, Proceed, Busy, Routed, HasKey
<1>7. CASE TakeSnapshot
  BY <1>7 DEF TakeSnapshot, Busy, Routed, HasKey, journal, result, Touches
<1>8. CASE Rehash
  <2>1. ~ ready /\ ready' = ready /\ cmd' = cmd /\ was' = was /\ pc' = pc /\ owns' = owns
    BY <1>8 DEF Rehash, Routed, Touches, result, journal
  <2>2. ~ owns => jour' = jour /\ pending' = pending
    BY <1>8 DEF Rehash, Adopts, journal
  <2> QED BY <2>1, <2>2 DEF Routed, HasKey
<1>9. CASE Refuse
  <2>1. CASE BestEffort
    BY <1>9, <2>1 DEF Refuse, Proceed, Busy, Routed, HasKey
  <2>2. CASE ~ BestEffort
    <3>1. Raise /\ pc # "idle"
      BY <1>9, <2>2 DEF Refuse, Busy
    <3> QED BY <1>2, <3>1 DEF Raise, Ends
  <2> QED BY <2>1, <2>2
<1>10. CASE Fails
  <2>1. CASE BestEffort
    BY <1>10, <2>1 DEF Fails, Proceed, InFlight, Busy, Routed, HasKey
  <2>2. CASE ~ BestEffort
    <3>1. Raise /\ pc # "idle"
      BY <1>10, <2>2 DEF Fails, InFlight, Busy
    <3> QED BY <1>2, <3>1 DEF Raise, Ends
  <2> QED BY <2>1, <2>2
<1>11. CASE Interrupted
  <2>1. CASE owns
    BY <1>11, <2>1 DEF Interrupted, Routed, HasKey, journal
  <2> QED BY <1>1, <1>11, <2>1 DEF Interrupted
<1>12. CASE RollBack \/ Finish \/ RollBackFails \/ Killed
  BY <1>1, <1>12 DEF RollBack, Finish, RollBackFails, Killed
<1>13. ASSUME NEW f \in Files, NEW c \in Written, Edit(f, c) \/ EditMeanwhile(f, c)
       PROVE  Routed'
  BY <1>13 DEF Edit, EditMeanwhile, Routed, HasKey, journal, result, Touches, Op
<1>14. CASE UNCHANGED vars
  BY <1>14 DEF vars, journal, result, Routed, HasKey, Touches, Op
<1> QED BY <1>3, <1>4, <1>5, <1>6, <1>7, <1>8, <1>9, <1>10, <1>11, <1>12, <1>13, <1>14
        DEF Next, Step, GoesWrong, Others, Rest

\* Only the operation that writes integration.json changes it.
LEMMA JsonStays ==
  ASSUME Typed, todo # <<>>, Touches, NEW q \in Halfway, Op.do # "state"
  PROVE  q.json = proj.json /\ q.readable = proj.readable
<1>1. SameBut(q, proj, {Op.at})
  BY HalfwayIsLimited DEF Limited
<1>2. Op \in Ops
  BY HeadIsOp DEF Typed, Control
<1>3. Op.at # StateFile
  BY <1>2, OpFacts, FilesApart, MetadataApart
     DEF FileOp, ManifestOp, StateOp, PkgOp, RecOp, CoverOp
<1> QED BY <1>1, <1>3 DEF SameBut

LEMMA UndoKeepsWas ==
  ASSUME Typed, [Next]_vars, pc' = "undo"
  PROVE  was' = was
<1>1. CASE Command
  BY <1>1, CommandBegins DEF Begins, Begin
<1>2. CASE Announce \/ Perform \/ Pass \/ TakeSnapshot \/ Rehash
  BY <1>2 DEF Announce, Perform, Pass, TakeSnapshot, Rehash, result
<1>3. CASE Refuse \/ Fails
  BY <1>3 DEF Refuse, Fails, Raise, Ends
<1>4. CASE Interrupted \/ RollBack \/ Finish \/ RollBackFails \/ Killed
  BY <1>4 DEF Interrupted, RollBack, Finish, RollBackFails, Killed, Ends
<1>5. ASSUME NEW f \in Files, NEW c \in Written, Edit(f, c) \/ EditMeanwhile(f, c)
      PROVE  was' = was
  BY <1>5 DEF Edit, EditMeanwhile, result
<1>6. CASE UNCHANGED vars
  BY <1>6 DEF vars, result
<1> QED BY <1>1, <1>2, <1>3, <1>4, <1>5, <1>6 DEF Next, Step, GoesWrong, Others, Rest

LEMMA RevivesKept ==
  ASSUME Typed, Routed, Revives, [Next]_vars
  PROVE  Revives'
<1> SUFFICES ASSUME pc' = "undo" PROVE RevivedBy(todo', First(proj'.json.installed), Fallback)
  <2> SUFFICES ASSUME pc' = "undo" PROVE Fallback' = Fallback
    BY DEF Revives
  <2> QED BY UndoKeepsWas DEF Fallback
<1>1. CASE pc # "undo"
  <2>1. Raise /\ ~ owns /\ todo' = CleanUp /\ cmd.key \in Keys
    <3>1. CASE Refuse \/ Fails
      <4>1. Raise
        BY <1>1, <3>1 DEF Refuse, Fails, Proceed
      <4>2. pc # "idle"
        BY <3>1 DEF Refuse, Fails, InFlight, Busy
      <4> QED BY <1>1, <4>1, <4>2 DEF Raise, Ends, Routed, HasKey
    <3>2. CASE Command
      BY <3>2, CommandBegins DEF Begins, Begin
    <3>3. ~ (Announce \/ Perform \/ Pass \/ TakeSnapshot \/ Rehash)
      BY <1>1 DEF Announce, Perform, Proceed, Pass, TakeSnapshot, Rehash
    <3>4. ~ (RollBack \/ Finish \/ RollBackFails \/ Killed \/ Interrupted)
      BY <1>1 DEF RollBack, Finish, RollBackFails, Killed, Interrupted, Ends
    <3>5. \A f, c : ~ (Edit(f, c) \/ EditMeanwhile(f, c))
      BY <1>1 DEF Edit, EditMeanwhile
    <3>6. ~ (UNCHANGED vars)
      BY <1>1 DEF vars
    <3> QED BY <3>1, <3>2, <3>3, <3>4, <3>5, <3>6 DEF Next, Step, GoesWrong, Others, Rest
  <2> QED BY <2>1, CleanUpRevives
<1>2. CASE pc = "undo"
  <2>0. RevivedBy(todo, First(proj.json.installed), Fallback) /\ ~ owns /\ todo \in Seq(Ops)
    BY <1>2 DEF Revives, Routed, Typed, Control
  <2>a. ASSUME NEW t, NEW n, Follows(t, todo, n), todo # <<>>, Op.do # "state",
               proj'.json = proj.json
        PROVE  RevivedBy(t, First(proj'.json.installed), Fallback)
    BY <2>0, <2>a, RevivedRest, TailFollows DEF Op
  <2>b. todo # <<>> => Follows(Tail(todo), todo, 1)
    BY <2>0, TailFollows
  <2>1. CASE Perform
    <3>1. todo # <<>> /\ Touches /\ proj' = Completed /\ todo' = Tail(todo)
      BY <2>1 DEF Perform, Proceed, InFlight, Busy
    <3>2. CASE Op.do = "state"
      <4>1. proj'.json = Op.value
        BY <3>1, <3>2 DEF Completed, Typed, Effects, Stores, Project
      <4>2. todo[1] = Op
        BY <2>0, <3>1, TailFollows DEF Op
      <4> QED BY <2>0, <2>b, <3>1, <3>2, <4>1, <4>2, RevivedRest
    <3>3. CASE Op.do # "state"
      BY <2>a, <2>b, <3>1, <3>3, JsonStays, CompletedIsHalfway
    <3> QED BY <3>2, <3>3
  <2>2. CASE Pass
    <3>1. todo # <<>> /\ Op.do # "state" /\ proj' = proj /\ todo' = Tail(todo)
      BY <2>2 DEF Pass, Proceed, Busy, Vain
    <3> QED BY <2>a, <2>b, <3>1
  <2>3. CASE TakeSnapshot
    <3>1. todo # <<>> /\ Op.do # "state" /\ proj' = proj /\ todo' = Tail(todo)
      BY <2>3 DEF TakeSnapshot, Busy
    <3> QED BY <2>a, <2>b, <3>1
  <2>4. CASE Rehash
    <3>1. todo # <<>> /\ Op.do = "rehash" /\ Op.do # "state" /\ proj' = proj
          /\ todo' \in {Tail(todo), Tail(todo) \o Resaves(Op.at)}
      BY <2>4 DEF Rehash, Busy
    <3>2. RevivedBy(Tail(todo), First(proj'.json.installed), Fallback) /\ Tail(todo) \in Seq(Ops)
      BY <2>a, <2>b, <3>1 DEF Follows
    <3>3. CASE Resaves(Op.at) = <<>>
      BY <3>1, <3>2, <3>3, ConcatEmptySeq
    <3>4. CASE \E k \in Keys : Resaves(Op.at) = <<Resave(k)>>
      <4>1. PICK k \in Keys : Resaves(Op.at) = <<Resave(k)>>
        BY <3>4
      <4>2. Resave(k) \in Ops /\ Resave(k).do \notin {"rehash", "state"}
        BY MetadataOpsTyped DEF Resave
      <4>3. RevivedBy(Tail(todo) \o <<Resave(k)>>, First(proj'.json.installed), Fallback)
        BY <3>2, <4>2, RevivedAppend
      <4> QED BY <3>1, <3>2, <4>1, <4>3
    <3> QED BY <2>4, <3>3, <3>4, ResavesTyped DEF Rehash
  <2>5. CASE Refuse \/ Fails
    <3>1. todo # <<>> /\ Touches /\ pc # "run"
      BY <1>2, <2>5 DEF Refuse, Fails, InFlight, Busy
    <3>2. BestEffort
      BY <1>2, <2>0, <2>5, <3>1 DEF Refuse, Fails, Raise, Guarded, Ends
    <3>3. todo' = AfterFailure /\ proj' \in Halfway
      BY <2>5, <3>2, CompletedIsHalfway DEF Refuse, Fails, Proceed
    <3>4. Op.do # "state"
      BY <3>2 DEF BestEffort
    <3>5. \E n \in 1 .. Len(todo) : Follows(AfterFailure, todo, n)
      BY <2>0, <3>1, AfterFailureFollows
    <3> QED BY <2>a, <3>1, <3>3, <3>4, <3>5, JsonStays
  <2>6. ~ (Announce \/ Command)
    <3>1. ~ Command
      BY <1>2, CommandBegins DEF Begins, Begin
    <3>2. ~ Announce
      BY <2>0 DEF Announce
    <3> QED BY <3>1, <3>2
  <2>7. ~ (RollBack \/ Finish \/ RollBackFails \/ Killed \/ Interrupted)
    BY <2>0 DEF RollBack, Finish, RollBackFails, Killed, Interrupted, Ends
  <2>8. ASSUME NEW f \in Files, NEW c \in Written, Edit(f, c) \/ EditMeanwhile(f, c)
        PROVE  RevivedBy(todo', First(proj'.json.installed), Fallback)
    <3>1. todo' = todo /\ proj' = [proj EXCEPT !.disk[f] = c]
      BY <2>8 DEF Edit, EditMeanwhile
    <3>2. proj'.json = proj.json
      BY <3>1 DEF Typed, Effects, Stores, Project
    <3> QED BY <2>0, <3>1, <3>2
  <2>9. CASE UNCHANGED vars
    BY <2>0, <2>9 DEF vars
  <2> QED BY <2>1, <2>2, <2>3, <2>4, <2>5, <2>6, <2>7, <2>8, <2>9
          DEF Next, Step, GoesWrong, Others, Rest
<1> QED BY <1>1, <1>2

-----------------------------------------------------------------------------
(* What the journal knows *)

LEMMA SameButMore ==
  ASSUME NEW p, NEW q, NEW A, NEW B, SameBut(p, q, A), A \subseteq B
  PROVE  SameBut(p, q, B)
BY DEF SameBut

LEMMA SameButThrough ==
  ASSUME NEW p, NEW q, NEW r, NEW A, NEW B, SameBut(p, q, A), SameBut(q, r, B), A \subseteq B
  PROVE  SameBut(p, r, B)
BY DEF SameBut

\* What an operation leaves in its file was written by nobody else.
LEMMA HalfwayContent ==
  ASSUME Typed, todo # <<>>, Touches, NEW q \in Halfway, NEW f \in Files
  PROVE  q.disk[f] = proj.disk[f] \/ (f = Op.at /\ q.disk[f] \notin Written)
<1>0. Op \in Ops /\ proj \in Stores /\ q \in Stores
  BY HeadIsOp, HalfwayIsLimited DEF Typed, Control, Effects, Limited
<1>1. f # Op.at => q.disk[f] = proj.disk[f]
  BY HalfwayIsLimited DEF Limited
<1>2. CASE f = Op.at
  <2>1. FileOp(Op)
    BY <1>0, <1>2, OpFacts, FilesApart DEF ManifestOp, StateOp, PkgOp, RecOp, CoverOp
  <2>2. q = proj \/ \E c \in {cmd.rel, Absent, Preset, Torn} : q = [proj EXCEPT !.disk[Op.at] = c]
    BY <2>1 DEF Halfway, Completed, FileOp, Touches
  <2>3. {cmd.rel, Absent, Preset, Torn} \cap Written = {}
    BY ContentAssumption DEF Typed, Control, Absent
  <2>4. \A c : [proj EXCEPT !.disk[Op.at] = c].disk[f] = c
    BY <1>0, <1>2, StoreParts DEF Stores, Project, Hashes
  <2> QED BY <1>2, <2>2, <2>3, <2>4
<1> QED BY <1>1, <1>2

\* What a completed operation leaves.
LEMMA CompletedContent ==
  ASSUME Typed, todo # <<>>, Touches, Op.at \in Files
  PROVE  Completed.disk[Op.at] \notin Written
<1>0. Op \in Ops /\ proj \in Stores
  BY HeadIsOp DEF Typed, Control, Effects
<1>1. FileOp(Op)
  BY <1>0, OpFacts, FilesApart DEF ManifestOp, StateOp, PkgOp, RecOp, CoverOp
<1>2. \E c \in {cmd.rel, Absent, Preset} : Completed = [proj EXCEPT !.disk[Op.at] = c]
  BY <1>1 DEF Completed, FileOp, Touches
<1>3. {cmd.rel, Absent, Preset} \cap Written = {}
  BY ContentAssumption DEF Typed, Control, Absent
<1>4. \A c : [proj EXCEPT !.disk[Op.at] = c].disk[Op.at] = c
  BY <1>0, StoreParts DEF Stores, Project, Hashes
<1> QED BY <1>2, <1>3, <1>4

LEMMA WitnessedKept ==
  ASSUME Typed, Witnessed, [Next]_vars
  PROVE  Witnessed'
<1>1. CASE Command
  BY <1>1, CommandBegins DEF Begins, Begin, Witnessed
<1>2. CASE Announce \/ Perform \/ Pass \/ TakeSnapshot \/ Rehash
  BY <1>2 DEF Announce, Perform, Proceed, Pass, TakeSnapshot, Rehash, Witnessed, result, history
<1>3. CASE Refuse \/ Fails
  <2>1. theirs' = theirs /\ pc # "idle"
    BY <1>3 DEF Refuse, Fails, history, InFlight, Busy
  <2>2. was' = was
    BY <1>3 DEF Refuse, Fails, Raise, Ends
  <2> QED BY <2>1, <2>2 DEF Witnessed
<1>4. CASE Interrupted \/ RollBack \/ Finish \/ RollBackFails \/ Killed
  BY <1>4 DEF Interrupted, RollBack, Finish, RollBackFails, Killed, Ends, Witnessed, history
<1>5. ASSUME NEW f \in Files, NEW c \in Written, Edit(f, c) \/ EditMeanwhile(f, c)
      PROVE  Witnessed'
  <2>1. was' = was /\ pc' = pc
    BY <1>5 DEF Edit, EditMeanwhile, result
  <2>2. pc = "idle" \/ theirs' = theirs \/ theirs' = [theirs EXCEPT ![f] = c]
    BY <1>5 DEF Edit, EditMeanwhile
  <2> QED BY <2>1, <2>2 DEF Witnessed, Typed, Effects, Hashes
<1>6. CASE UNCHANGED vars
  BY <1>6 DEF vars, history, result, Witnessed
<1> QED BY <1>1, <1>2, <1>3, <1>4, <1>5, <1>6 DEF Next, Step, GoesWrong, Others, Rest

\* An operation of a transaction, done or stopped half way, was announced.
LEMMA TracedStops ==
  ASSUME Typed, Routed, Traced, owns, pc = "run", NEW q \in Left,
         proj' = q, UNCHANGED <<journal, was, theirs, blind>>
  PROVE  (\A f \in Files \ blind : Known4(f))' /\ SameBut(proj', was', Journaled')
<1>0. /\ \A f \in Files \ blind : Known4(f)
      /\ SameBut(proj, was, Journaled) /\ pending \subseteq Journaled
  BY DEF Traced, Typed, Control
<1>1. CASE q = proj
  BY <1>0, <1>1 DEF Known4, journal, Journaled
<1>2. CASE InFlight /\ Limited(q)
  <2>1. Op.at \in pending
    BY <1>2 DEF Routed, InFlight
  <2>2. SameBut(proj', was', Journaled')
    <3>1. SameBut(proj', proj, {Op.at}) /\ {Op.at} \subseteq Journaled
      BY <1>0, <1>2, <2>1 DEF Limited
    <3>2. SameBut(proj', was, Journaled)
      BY <1>0, <3>1, SameButThrough
    <3> QED BY <3>2 DEF journal, Journaled
  <2>3. ASSUME NEW f \in Files \ blind PROVE Known4(f)'
    <3>1. Known4(f) /\ (f # Op.at => proj'.disk[f] = proj.disk[f])
      BY <1>0, <1>2 DEF Limited
    <3> QED BY <2>1, <1>0, <3>1 DEF Known4, journal, Journaled
  <2>4. blind' = blind
    OBVIOUS
  <2> QED BY <2>2, <2>3, <2>4
<1> QED BY <1>1, <1>2, LeftIsLimited

LEMMA TracedAnnounce ==
  ASSUME Typed, Routed, Witnessed, Traced, Announce
  PROVE  Traced'
<1>0. /\ owns /\ pc = "run" /\ \A f \in Files \ blind : Known4(f)
      /\ SameBut(proj, was, Journaled) /\ ~ Refused /\ Op.at \in Paths
  BY HeadIsOp, OpFacts DEF Announce, Busy, Routed, Traced, Typed, Control
<1>1. /\ Remember(Op.at) /\ pending' = pending \cup {Op.at}
      /\ proj' = proj /\ was' = was /\ theirs' = theirs /\ blind' = blind /\ owns' = owns
  BY DEF Announce, result, history
<1>2. Journaled' = Journaled \cup {Op.at}
  BY <1>0, <1>1, RememberTyped
<1>3. SameBut(proj', was', Journaled')
  BY <1>0, <1>1, <1>2, SameButMore
<1>4. ASSUME NEW f \in Files \ blind PROVE Known4(f)'
  <2>0. Known4(f)
    BY <1>0
  <2>1. CASE f # Op.at
    <3>1. saved'[f] = saved[f] /\ written'[f] = written[f]
      BY <1>1, <2>1 DEF Remember, Typed, Control, Hashes
    <3> QED BY <1>1, <1>2, <2>0, <2>1, <3>1 DEF Known4
  <2>2. CASE f = Op.at /\ f \in Journaled
    <3>1. f \in pending \/ proj.disk[f] = written[f]
      BY <1>0, <2>2 DEF Refused, Foreign
    <3>2. saved[f] = theirs[f]
      BY <2>0, <2>2, <3>1 DEF Known4
    <3>3. saved' = saved
      BY <1>1, <2>2 DEF Remember
    <3> QED BY <1>1, <1>2, <2>2, <3>2, <3>3 DEF Known4
  <2>3. CASE f = Op.at /\ f \notin Journaled
    <3>1. proj.disk[f] = theirs[f] /\ saved'[f] = proj.disk[f]
      BY <1>1, <2>0, <2>3 DEF Known4, Remember, Typed, Control, Hashes
    <3> QED BY <1>1, <1>2, <2>3, <3>1 DEF Known4
  <2> QED BY <2>1, <2>2, <2>3
<1> QED BY <1>1, <1>3, <1>4 DEF Traced

LEMMA TracedPerform ==
  ASSUME Typed, Routed, Traced, Perform
  PROVE  Traced'
<1> SUFFICES ASSUME owns', pc' \in {"run", "rollback"}
             PROVE  (\A f \in Files \ blind : Known4(f))' /\ SameBut(proj', was', Journaled')
  BY DEF Traced
<1>0. /\ owns /\ pc = "run" /\ \A f \in Files \ blind : Known4(f)
      /\ SameBut(proj, was, Journaled) /\ pending \subseteq Journaled
      /\ ready /\ Op.at \in pending /\ todo # <<>> /\ Touches
  BY DEF Perform, Proceed, InFlight, Busy, Routed, Traced, Typed, Control
<1>1. /\ proj' = Completed /\ pending' = pending \ {Op.at} /\ jour' = jour /\ saved' = saved
      /\ written' = IF Op.at \in Files THEN [written EXCEPT ![Op.at] = proj'.disk[Op.at]]
                    ELSE written
      /\ was' = was /\ theirs' = theirs /\ blind' = blind
  BY <1>0 DEF Perform, result, history
<1>2. Limited(proj') /\ Journaled' = Journaled
  BY <1>0, <1>1, HalfwayIsLimited, CompletedIsHalfway DEF Journaled
<1>3. SameBut(proj', was', Journaled')
  <2>1. SameBut(proj', proj, {Op.at}) /\ {Op.at} \subseteq Journaled
    BY <1>0, <1>2 DEF Limited
  <2> QED BY <1>0, <1>1, <1>2, <2>1, SameButThrough
<1>4. ASSUME NEW f \in Files \ blind PROVE Known4(f)'
  <2>0. Known4(f)
    BY <1>0
  <2>1. CASE f # Op.at
    <3>1. proj'.disk[f] = proj.disk[f] /\ written'[f] = written[f]
      BY <1>1, <1>2, <2>1 DEF Limited, Typed, Control, Hashes
    <3> QED BY <1>1, <1>2, <2>0, <2>1, <3>1 DEF Known4
  <2>2. CASE f = Op.at
    <3>1. written'[f] = proj'.disk[f] /\ proj'.disk[f] \notin Written
      BY <1>0, <1>1, <2>2, CompletedContent DEF Typed, Control, Hashes
    <3>2. saved[f] = theirs[f] /\ f \in Journaled
      BY <1>0, <2>0, <2>2 DEF Known4
    <3> QED BY <1>1, <1>2, <2>2, <3>1, <3>2 DEF Known4
  <2> QED BY <2>1, <2>2
<1> QED BY <1>1, <1>3, <1>4

LEMMA TracedRehash ==
  ASSUME Typed, Routed, Witnessed, Traced, Rehash
  PROVE  Traced'
<1> DEFINE g == Op.at
<1>1. /\ pc' = pc /\ owns' = owns /\ proj' = proj /\ was' = was /\ theirs' = theirs
      /\ saved' = saved /\ pc # "idle" /\ g \in Files
  <2>1. Op \in Ops /\ Op.do = "rehash"
    BY HeadIsOp DEF Typed, Control, Rehash, Busy
  <2>2. FileOp(Op)
    BY <2>1, OpFacts DEF FileOp, ManifestOp, StateOp, PkgOp, RecOp, CoverOp
  <2> QED BY <2>2 DEF Rehash, FileOp, result, journal, Busy
<1> SUFFICES ASSUME owns, pc \in {"run", "rollback"}
             PROVE  (\A f \in Files \ blind : Known4(f))' /\ SameBut(proj', was', Journaled')
  BY <1>1 DEF Traced
<1>0. /\ \A f \in Files \ blind : Known4(f)
      /\ SameBut(proj, was, Journaled) /\ jour \in Seq(Paths) /\ written \in Hashes
  BY DEF Traced, Typed, Control
<1>2. CASE ~ (Rehashed(g) /\ Adopts(g))
  <2>1. jour' = jour /\ written' = written /\ pending' = pending /\ blind \subseteq blind'
    BY <1>2 DEF Rehash, journal
  <2> QED BY <1>0, <1>1, <2>1 DEF Known4, Journaled
<1>3. CASE Rehashed(g) /\ Adopts(g)
  <2>1. /\ jour' = IF g \in Journaled THEN jour ELSE Append(jour, g)
        /\ written' = [written EXCEPT ![g] = proj.disk[g]]
        /\ pending' = pending \ {g}
        /\ blind' = IF proj.disk[g] \in Written THEN blind \cup {g} ELSE blind
    BY <1>3 DEF Rehash
  <2>2. Journaled' = Journaled \cup {g}
    BY <1>0, <1>1, <2>1, AppendIn, FilesApart DEF Journaled
  <2>3. SameBut(proj', was', Journaled')
    BY <1>0, <1>1, <2>2, SameButMore
  <2>4. ASSUME NEW f \in Files \ blind' PROVE Known4(f)'
    <3>0. Known4(f)
      BY <1>0, <2>1, <2>4
    <3>1. CASE f # g
      <4>1. written'[f] = written[f]
        BY <1>0, <2>1, <3>1 DEF Hashes
      <4> QED BY <1>1, <2>1, <2>2, <3>0, <3>1, <4>1 DEF Known4
    <3>2. CASE f = g
      <4>1. proj.disk[f] \notin Written
        BY <2>1, <2>4, <3>2
      <4>2. proj.disk[f] # Absent /\ (f \in Journaled \/ was.disk[f] = Absent)
        BY <1>3, <3>2 DEF Rehashed, Adopts
      <4>3. saved[f] = theirs[f]
        <5>1. CASE f \notin Journaled
          BY <1>1, <3>0, <4>1, <4>2, <5>1 DEF Known4, Witnessed
        <5>2. CASE f \in Journaled
          BY <3>0, <4>1, <5>2 DEF Known4
        <5> QED BY <5>1, <5>2
      <4>4. written'[f] = proj'.disk[f]
        BY <1>0, <1>1, <2>1, <3>2 DEF Hashes
      <4> QED BY <1>1, <2>1, <2>2, <3>2, <4>1, <4>3, <4>4 DEF Known4
    <3> QED BY <3>1, <3>2
  <2> QED BY <2>3, <2>4
<1> QED BY <1>2, <1>3

LEMMA TracedKept ==
  ASSUME Typed, Routed, Witnessed, Traced, [Next]_vars
  PROVE  Traced'
<1>1. CASE Command
  <2>1. /\ proj' = proj /\ was' = proj /\ theirs' = proj.disk /\ jour' = <<>> /\ pending' = {}
    BY <1>1, CommandBegins DEF Begins, Begin
  <2>2. Journaled' = {}
    BY <2>1 DEF Journaled, Range
  <2> QED BY <2>1, <2>2 DEF Traced, Known4, SameBut
<1>2. CASE Announce \/ Perform \/ Rehash
  BY <1>2, TracedAnnounce, TracedPerform, TracedRehash
<1>3. CASE Pass
  BY <1>3 DEF Pass, Proceed, history, Traced, Known4, Journaled
<1>4. CASE TakeSnapshot
  BY <1>4 DEF TakeSnapshot, journal, result, history, Traced, Known4, Journaled
<1>5. CASE Refuse
  <2>1. /\ UNCHANGED <<proj, was, theirs, blind>> /\ pc \in {"run", "undo"}
    BY <1>5 DEF Refuse, Raise, Ends, history, Busy
  <2>2. pc' = "idle" \/ UNCHANGED journal \/ ~ owns'
    BY <1>5 DEF Refuse, Raise, Ends, Proceed, journal
  <2> QED BY <1>5, <2>1, <2>2 DEF Traced, Routed, Refuse, Known4, journal, Journaled
<1>6. CASE Fails
  <2>1. /\ UNCHANGED <<was, theirs, blind>> /\ pc \in {"run", "undo"}
    BY <1>6 DEF Fails, Raise, Ends, history, InFlight, Busy
  <2>2. pc' = "idle" \/ UNCHANGED journal \/ ~ owns'
    BY <1>6 DEF Fails, Raise, Ends, Proceed, journal
  <2>3. proj' \in Left
    BY <1>6, CompletedIsHalfway DEF Fails, Left
  <2>4. SUFFICES ASSUME owns', pc' # "idle" PROVE Traced'
    BY DEF Traced
  <2>5. owns /\ pc = "run" /\ UNCHANGED journal
    BY <2>1, <2>2, <2>4 DEF Routed, journal
  <2> QED BY <2>1, <2>3, <2>5, TracedStops DEF Traced
<1>7. CASE Interrupted
  <2>1. SUFFICES ASSUME owns', pc' # "idle" PROVE Traced'
    BY DEF Traced
  <2>2. /\ UNCHANGED <<was, theirs, blind, journal>> /\ proj' \in Left /\ pc \in {"run", "undo"}
    BY <1>7, <2>1 DEF Interrupted, Ends, history
  <2>3. owns /\ pc = "run"
    BY <2>1, <2>2 DEF Routed, journal
  <2> QED BY <2>2, <2>3, TracedStops DEF Traced
<1>8. CASE RollBack \/ Finish \/ RollBackFails \/ Killed
  BY <1>8 DEF RollBack, Finish, RollBackFails, Killed, Ends, Traced
<1>9. ASSUME NEW g \in Files, NEW c \in Written, Edit(g, c) \/ EditMeanwhile(g, c)
      PROVE  Traced'
  <2>0. SUFFICES ASSUME owns', pc' \in {"run", "rollback"}
        PROVE  (\A f \in Files \ blind : Known4(f))' /\ SameBut(proj', was', Journaled')
    BY DEF Traced
  <2>1. /\ EditMeanwhile(g, c) /\ proj' = [proj EXCEPT !.disk[g] = c]
        /\ owns' = owns /\ pc' = pc /\ UNCHANGED <<was, journal>>
    BY <1>9, <2>0 DEF Edit, EditMeanwhile, journal, result
  <2>2. /\ \A f \in Files \ blind : Known4(f)
        /\ SameBut(proj, was, Journaled)
    BY <2>0, <2>1 DEF Traced
  <2>3. /\ SameBut(proj', proj, {}) /\ proj'.disk[g] = c
        /\ \A f \in Files : f # g => proj'.disk[f] = proj.disk[f]
    BY <2>1, DiskChange, ContentFacts DEF Typed, Effects, ContainsMore
  <2>4. SameBut(proj', was', Journaled')
    <3>1. SameBut(proj', was, Journaled)
      BY <2>2, <2>3 DEF SameBut
    <3> QED BY <2>1, <3>1 DEF journal, Journaled
  <2>5. ASSUME NEW f \in Files \ blind' PROVE Known4(f)'
    <3>0. Known4(f)
      BY <2>1, <2>2, <2>5 DEF EditMeanwhile
    <3>1. CASE f # g
      <4>1. theirs'[f] = theirs[f]
        BY <2>1, <3>1 DEF EditMeanwhile, Typed, Effects, Hashes
      <4> QED BY <2>1, <2>3, <3>0, <3>1, <4>1 DEF Known4, journal, Journaled
    <3>2. CASE f = g
      <4>1. f \notin pending /\ theirs'[f] = c
        BY <2>1, <2>5, <3>2 DEF EditMeanwhile, Typed, Effects, Hashes
      <4> QED BY <2>1, <2>3, <3>0, <3>2, <4>1 DEF Known4, journal, Journaled
    <3> QED BY <3>1, <3>2
  <2> QED BY <2>4, <2>5
<1>10. CASE UNCHANGED vars
  BY <1>10 DEF vars, history, result, journal, Traced, Known4, Journaled
<1> QED BY <1>1, <1>2, <1>3, <1>4, <1>5, <1>6, <1>7, <1>8, <1>9, <1>10
        DEF Next, Step, GoesWrong, Others, Rest

-----------------------------------------------------------------------------
(* A transaction that fails is undone *)

\* What a rollback leaves of a path: what the command found, or what the journal
\* did not restore.
LEMMA RestoredPaths ==
  ASSUME Typed, NEW ps
  PROVE  /\ \A f \in Files : Restored(ps).disk[f] =
              IF f \in ps /\ ~ LeftAlone(f) THEN saved[f] ELSE proj.disk[f]
         /\ \A k \in Keys : Restored(ps).man[k] =
              IF Manifest(k) \in ps /\ Manifest(k) \notin pending THEN was.man[k] ELSE proj.man[k]
         /\ IF StateFile \in ps /\ StateFile \notin pending
            THEN Restored(ps).json = was.json /\ Restored(ps).readable = was.readable
            ELSE Restored(ps).json = proj.json /\ Restored(ps).readable = proj.readable
         /\ Restored(ps).recs =
              IF RecordFile \in ps /\ RecordFile \notin pending THEN was.recs ELSE proj.recs
         /\ Restored(ps).covered =
              IF PresetFile \in ps /\ PresetFile \notin pending THEN was.covered ELSE proj.covered
         /\ \A k \in External :
              IF PackageDir(k) \in ps /\ PackageDir(k) \notin pending
              THEN k \in Restored(ps).pkgs <=> k \in was.pkgs
              ELSE k \in Restored(ps).pkgs <=> k \in proj.pkgs
<1>1. \A p : p \notin Files => (LeftAlone(p) <=> p \in pending)
  BY DEF LeftAlone, Foreign
<1>2. /\ StateFile \notin Files /\ RecordFile \notin Files /\ PresetFile \notin Files
      /\ \A k \in Keys : Manifest(k) \notin Files
      /\ \A k \in External : PackageDir(k) \notin Files
  BY FilesApart
<1>3. \A f \in Files : Restored(ps).disk[f] =
        IF f \in ps /\ ~ LeftAlone(f) THEN saved[f] ELSE proj.disk[f]
  BY DEF Restored
<1>4. \A k \in Keys : Restored(ps).man[k] =
        IF Manifest(k) \in ps /\ Manifest(k) \notin pending THEN was.man[k] ELSE proj.man[k]
  BY <1>1, <1>2 DEF Restored
<1>5. IF StateFile \in ps /\ StateFile \notin pending
      THEN Restored(ps).json = was.json /\ Restored(ps).readable = was.readable
      ELSE Restored(ps).json = proj.json /\ Restored(ps).readable = proj.readable
  BY <1>1, <1>2 DEF Restored
<1>6. /\ Restored(ps).recs =
           IF RecordFile \in ps /\ RecordFile \notin pending THEN was.recs ELSE proj.recs
      /\ Restored(ps).covered =
           IF PresetFile \in ps /\ PresetFile \notin pending THEN was.covered ELSE proj.covered
  BY <1>1, <1>2 DEF Restored
<1>7. \A k \in External :
        IF PackageDir(k) \in ps /\ PackageDir(k) \notin pending
        THEN k \in Restored(ps).pkgs <=> k \in was.pkgs
        ELSE k \in Restored(ps).pkgs <=> k \in proj.pkgs
  BY <1>1, <1>2 DEF Restored
<1> QED BY <1>3, <1>4, <1>5, <1>6, <1>7

\* A path that was announced only and does not hold what it held is a conflict.
LEMMA PendingConflicts ==
  ASSUME Typed
  PROVE  /\ \A f \in Files : f \in pending /\ proj.disk[f] # saved[f] => f \in Conflicts
         /\ \A k \in Keys : Manifest(k) \in pending /\ proj.man[k] # was.man[k]
                              => Manifest(k) \in Conflicts
         /\ StateFile \in pending /\ ~ (proj.json = was.json /\ proj.readable = was.readable)
              => StateFile \in Conflicts
         /\ RecordFile \in pending /\ proj.recs # was.recs => RecordFile \in Conflicts
         /\ PresetFile \in pending /\ proj.covered # was.covered => PresetFile \in Conflicts
         /\ \A k \in External : PackageDir(k) \in pending /\ ~ (k \in proj.pkgs <=> k \in was.pkgs)
                                  => PackageDir(k) \in Conflicts
<1>0. pending \subseteq Journaled
  BY DEF Typed, Control
<1>1. \A p \in pending : ~ Original(p, was) => p \in Conflicts
  BY <1>0 DEF Conflicts
<1>2. \A f \in Files : Original(f, was) => proj.disk[f] = saved[f]
  BY DEF Original
<1>3. \A k \in Keys : Original(Manifest(k), was) => proj.man[k] = was.man[k]
  BY DEF Original
<1>4. /\ Original(StateFile, was) => proj.json = was.json /\ proj.readable = was.readable
      /\ Original(RecordFile, was) => proj.recs = was.recs
      /\ Original(PresetFile, was) => proj.covered = was.covered
  BY DEF Original
<1>5. \A k \in External :
        Original(PackageDir(k), was) => (k \in proj.pkgs <=> k \in was.pkgs)
  BY DEF Original
<1> QED BY <1>1, <1>2, <1>3, <1>4, <1>5

\* Metadata that a rollback does not give back is in conflict.
LEMMA RolledBackMetadata ==
  ASSUME Typed, Routed, Traced, RollBack
  PROVE  /\ \A k \in Keys : proj'.man[k] = was.man[k] \/ Manifest(k) \in Conflicts
         /\ (proj'.json = was.json /\ proj'.readable = was.readable) \/ StateFile \in Conflicts
         /\ proj'.recs = was.recs \/ RecordFile \in Conflicts
         /\ proj'.covered = was.covered \/ PresetFile \in Conflicts
         /\ \A k \in External : (k \in proj'.pkgs <=> k \in was.pkgs) \/ PackageDir(k) \in Conflicts
<1>0. /\ SameBut(proj, was, Journaled) /\ pending \subseteq Journaled
  BY DEF RollBack, Routed, Traced, Typed, Control
<1>1. proj' = Restored(Journaled)
  BY DEF RollBack
<1>2. /\ \A k \in Keys : proj'.man[k] = was.man[k] \/ Manifest(k) \in Conflicts
      /\ (proj'.json = was.json /\ proj'.readable = was.readable) \/ StateFile \in Conflicts
      /\ proj'.recs = was.recs \/ RecordFile \in Conflicts
      /\ proj'.covered = was.covered \/ PresetFile \in Conflicts
      /\ \A k \in External : (k \in proj'.pkgs <=> k \in was.pkgs) \/ PackageDir(k) \in Conflicts
  <2>1. ASSUME NEW k \in Keys
        PROVE  proj'.man[k] = was.man[k] \/ Manifest(k) \in Conflicts
    <3>1. Manifest(k) \notin Journaled => proj.man[k] = was.man[k]
      BY <1>0 DEF SameBut
    <3>2. proj'.man[k] = IF Manifest(k) \in Journaled /\ Manifest(k) \notin pending
                         THEN was.man[k] ELSE proj.man[k]
      BY <1>1, RestoredPaths
    <3> QED BY <3>1, <3>2, PendingConflicts
  <2>2. (proj'.json = was.json /\ proj'.readable = was.readable) \/ StateFile \in Conflicts
    BY <1>0, <1>1, RestoredPaths, PendingConflicts DEF SameBut
  <2>3. /\ proj'.recs = was.recs \/ RecordFile \in Conflicts
        /\ proj'.covered = was.covered \/ PresetFile \in Conflicts
    BY <1>0, <1>1, RestoredPaths, PendingConflicts DEF SameBut
  <2>4. ASSUME NEW k \in External
        PROVE  (k \in proj'.pkgs <=> k \in was.pkgs) \/ PackageDir(k) \in Conflicts
    <3>1. PackageDir(k) \notin Journaled => (k \in proj.pkgs <=> k \in was.pkgs)
      BY <1>0 DEF SameBut
    <3>2. IF PackageDir(k) \in Journaled /\ PackageDir(k) \notin pending
          THEN k \in proj'.pkgs <=> k \in was.pkgs
          ELSE k \in proj'.pkgs <=> k \in proj.pkgs
      BY <1>1, RestoredPaths
    <3> QED BY <3>1, <3>2, PendingConflicts
  <2> QED BY <2>1, <2>2, <2>3, <2>4
<1> QED BY <1>2

\* The two ways a rollback ends: with the whole journal, or with its last part
\* and a message that names it all.
LEMMA UndoneByRollBack ==
  ASSUME Typed, Routed, Traced, RollBack
  PROVE  FailedIsUndone'
<1>0. /\ owns /\ \A f \in Files \ blind : Known4(f)
      /\ SameBut(proj, was, Journaled) /\ pending \subseteq Journaled /\ was.readable
  BY DEF RollBack, Routed, Traced, Typed, Control
<1>1. /\ proj' = Restored(Journaled) /\ was' = was /\ theirs' = theirs /\ blind' = blind
      /\ reported' = reported \cup Conflicts /\ kept' = (Conflicts # {})
      /\ kept' => saved' = saved
  BY DEF RollBack, Ends
<1>2. ASSUME NEW f \in Files \ blind
      PROVE  \/ proj'.disk[f] = theirs[f]
             \/ f \in Conflicts /\ saved[f] = theirs[f]
  <2>0. Known4(f) /\ proj'.disk[f] =
          IF f \in Journaled /\ ~ LeftAlone(f) THEN saved[f] ELSE proj.disk[f]
    BY <1>0, <1>1, RestoredPaths
  <2>1. CASE f \notin Journaled
    BY <2>0, <2>1 DEF Known4
  <2>2. CASE f \in pending
    <3>1. proj'.disk[f] = proj.disk[f] /\ saved[f] = theirs[f] /\ f \in Journaled
      BY <1>0, <2>0, <2>2 DEF Known4, LeftAlone
    <3> QED BY <2>2, <3>1, PendingConflicts
  <2>3. CASE f \in Journaled \ pending
    <3>1. LeftAlone(f) <=> proj.disk[f] # written[f]
      BY <2>3 DEF LeftAlone, Foreign
    <3> QED BY <2>0, <2>3, <3>1 DEF Known4
  <2> QED BY <2>1, <2>2, <2>3
<1>3. /\ \A k \in Keys : proj'.man[k] = was.man[k] \/ Manifest(k) \in Conflicts
      /\ (proj'.json = was.json /\ proj'.readable = was.readable) \/ StateFile \in Conflicts
      /\ proj'.recs = was.recs \/ RecordFile \in Conflicts
      /\ proj'.covered = was.covered \/ PresetFile \in Conflicts
      /\ \A k \in External : (k \in proj'.pkgs <=> k \in was.pkgs) \/ PackageDir(k) \in Conflicts
  BY RolledBackMetadata
<1>4. \A p \in Conflicts : kept' /\ p \in reported'
  BY <1>1
<1>5. was'.readable
  BY <1>0, <1>1
<1>6. \A k \in External : (k \in proj'.pkgs) = (k \in was'.pkgs)
                            \/ (kept' /\ PackageDir(k) \in reported')
  BY <1>1, <1>3, <1>4
<1>7. \A f \in Files \ blind' :
        proj'.disk[f] = theirs'[f] \/ (kept' /\ f \in reported' /\ saved'[f] = theirs'[f])
  BY <1>1, <1>2, <1>4
<1> QED BY <1>1, <1>3, <1>4, <1>5, <1>6, <1>7 DEF FailedIsUndone

LEMMA UndoneByRollBackFails ==
  ASSUME Typed, Routed, Traced, RollBackFails
  PROVE  FailedIsUndone'
<1>0. /\ owns /\ \A f \in Files \ blind : Known4(f)
      /\ SameBut(proj, was, Journaled) /\ pending \subseteq Journaled /\ was.readable
  BY DEF RollBackFails, Routed, Traced, Typed, Control
<1>1. /\ was' = was /\ theirs' = theirs /\ blind' = blind
      /\ reported' = reported \cup Journaled /\ kept' = TRUE /\ saved' = saved
  BY DEF RollBackFails, Ends
<1>2. PICK n \in 1 .. Len(jour) + 1 : proj' = Restored({jour[i] : i \in n .. Len(jour)})
  BY DEF RollBackFails, HalfRestored
<1> DEFINE ps == {jour[i] : i \in n .. Len(jour)}
<1>3. ps \subseteq Journaled
  BY LenProperties DEF Typed, Control, Journaled, Range
<1> HIDE DEF ps
<1>4. ASSUME NEW f \in Files \ blind
      PROVE  proj'.disk[f] = theirs[f] \/ (f \in Journaled /\ saved[f] = theirs[f])
  <2>0. Known4(f) /\ proj'.disk[f] =
          IF f \in ps /\ ~ LeftAlone(f) THEN saved[f] ELSE proj.disk[f]
    BY <1>0, <1>2, RestoredPaths DEF ps
  <2>1. CASE f \notin Journaled
    BY <1>3, <2>0, <2>1 DEF Known4
  <2>2. CASE f \in pending
    BY <1>0, <2>0, <2>2 DEF Known4
  <2>3. CASE f \in Journaled \ pending
    <3>1. LeftAlone(f) <=> proj.disk[f] # written[f]
      BY <2>3 DEF LeftAlone, Foreign
    <3> QED BY <2>0, <2>3, <3>1 DEF Known4
  <2> QED BY <2>1, <2>2, <2>3
<1>5. /\ \A k \in Keys : proj'.man[k] = was.man[k] \/ Manifest(k) \in Journaled
      /\ (proj'.json = was.json /\ proj'.readable = was.readable) \/ StateFile \in Journaled
      /\ proj'.recs = was.recs \/ RecordFile \in Journaled
      /\ proj'.covered = was.covered \/ PresetFile \in Journaled
      /\ \A k \in External : (k \in proj'.pkgs <=> k \in was.pkgs) \/ PackageDir(k) \in Journaled
  <2>0. proj' = Restored(ps)
    BY <1>2 DEF ps
  <2>1. ASSUME NEW k \in Keys
        PROVE  proj'.man[k] = was.man[k] \/ Manifest(k) \in Journaled
    <3>1. Manifest(k) \notin Journaled => proj.man[k] = was.man[k]
      BY <1>0 DEF SameBut
    <3>2. proj'.man[k] = IF Manifest(k) \in ps /\ Manifest(k) \notin pending
                         THEN was.man[k] ELSE proj.man[k]
      BY <2>0, RestoredPaths
    <3> QED BY <1>3, <3>1, <3>2
  <2>2. (proj'.json = was.json /\ proj'.readable = was.readable) \/ StateFile \in Journaled
    BY <1>0, <1>3, <2>0, RestoredPaths DEF SameBut
  <2>3. /\ proj'.recs = was.recs \/ RecordFile \in Journaled
        /\ proj'.covered = was.covered \/ PresetFile \in Journaled
    BY <1>0, <1>3, <2>0, RestoredPaths DEF SameBut
  <2>4. ASSUME NEW k \in External
        PROVE  (k \in proj'.pkgs <=> k \in was.pkgs) \/ PackageDir(k) \in Journaled
    <3>1. PackageDir(k) \notin Journaled => (k \in proj.pkgs <=> k \in was.pkgs)
      BY <1>0 DEF SameBut
    <3>2. IF PackageDir(k) \in ps /\ PackageDir(k) \notin pending
          THEN k \in proj'.pkgs <=> k \in was.pkgs
          ELSE k \in proj'.pkgs <=> k \in proj.pkgs
      BY <2>0, RestoredPaths
    <3> QED BY <1>3, <3>1, <3>2
  <2> QED BY <2>1, <2>2, <2>3, <2>4
<1>6. \A p \in Journaled : kept' /\ p \in reported'
  BY <1>1
<1>7. was'.readable
  BY <1>0, <1>1
<1>8. \A k \in External : (k \in proj'.pkgs) = (k \in was'.pkgs)
                            \/ (kept' /\ PackageDir(k) \in reported')
  BY <1>1, <1>5, <1>6
<1>9. \A f \in Files \ blind' :
        proj'.disk[f] = theirs'[f] \/ (kept' /\ f \in reported' /\ saved'[f] = theirs'[f])
  BY <1>1, <1>4, <1>6
<1> QED BY <1>1, <1>5, <1>6, <1>7, <1>8, <1>9 DEF FailedIsUndone

LEMMA UndoneKept ==
  ASSUME Typed, Routed, Traced, FailedIsUndone, [Next]_vars
  PROVE  FailedIsUndone'
<1>1. CASE Command
  BY <1>1, CommandBegins DEF Begins, Begin, FailedIsUndone, Ended
<1>2. CASE Announce \/ Perform \/ Pass \/ TakeSnapshot \/ Rehash
  BY <1>2 DEF Announce, Perform, Proceed, Pass, TakeSnapshot, Rehash, InFlight, Busy,
              FailedIsUndone, Ended
<1>3. CASE Refuse \/ Fails
  <2>1. pc # "idle" /\ (Raise \/ pc' = pc)
    BY <1>3 DEF Refuse, Fails, Proceed, InFlight, Busy
  <2>2. Raise => pc' # "idle" \/ ~ owns'
    BY DEF Raise, Ends
  <2> QED BY <2>1, <2>2 DEF FailedIsUndone, Ended
<1>4. CASE Interrupted
  <2>1. pc' = "rollback" \/ how' = "interrupted"
    BY <1>4 DEF Interrupted, Ends
  <2> QED BY <2>1 DEF FailedIsUndone, Ended
<1>5. CASE Finish
  <2>1. how' = "ok" \/ ~ owns'
    BY <1>5 DEF Finish, Ends, Routed
  <2> QED BY <2>1 DEF FailedIsUndone, Ended
<1>6. CASE Killed
  <2>1. how' = "killed"
    BY <1>6 DEF Killed, Ends
  <2> QED BY <2>1 DEF FailedIsUndone, Ended
<1>7. CASE RollBack \/ RollBackFails
  BY <1>7, UndoneByRollBack, UndoneByRollBackFails
<1>8. ASSUME NEW f \in Files, NEW c \in Written, Edit(f, c) \/ EditMeanwhile(f, c)
      PROVE  FailedIsUndone'
  BY <1>8 DEF Edit, EditMeanwhile, FailedIsUndone, Ended
<1>9. CASE UNCHANGED vars
  BY <1>9 DEF vars, history, result, journal, FailedIsUndone, Ended
<1> QED BY <1>1, <1>2, <1>3, <1>4, <1>5, <1>6, <1>7, <1>8, <1>9
        DEF Next, Step, GoesWrong, Others, Rest

-----------------------------------------------------------------------------
(* What a step does to the command, and to the project *)

Fixed == cmd' = cmd /\ was' = was /\ owns' = owns
Waits == Fixed /\ pc' = pc /\ UNCHANGED <<todo, new, fresh>>
Advances ==
  /\ Fixed /\ pc' = pc /\ pc \in {"run", "undo"} /\ fresh' = fresh /\ todo # <<>> /\ Touches
  /\ \E n \in 1 .. Len(todo) : Follows(todo', todo, n)
  /\ \/ Perform
     \/ new' = new /\ Op.do # "put"
Falls ==
  /\ Fixed /\ pc = "run" /\ ~ owns /\ Guarded /\ todo # <<>>
  /\ pc' = "undo" /\ todo' = CleanUp /\ UNCHANGED <<new, fresh>>
TurnsBack == Fixed /\ pc \in {"run", "undo"} /\ pc' = "rollback" /\ UNCHANGED <<new, fresh>>

LEMMA StepShape ==
  ASSUME Typed, Routed, [Next]_vars, pc' # "idle"
  PROVE  \/ pc = "idle" /\ Begins
         \/ pc # "idle" /\ (Waits \/ Advances \/ TakeSnapshot \/ Rehash \/ Falls \/ TurnsBack)
<1>0. todo \in Seq(Ops) /\ (pc # "idle" => cmd.key \in Keys)
  BY DEF Typed, Control, Routed, HasKey
<1>1. CASE Command
  <2>1. Begins
    BY <1>1, CommandBegins
  <2> QED BY <2>1 DEF Begins, Begin
<1>2. CASE Announce
  BY <1>2 DEF Announce, Busy, Waits, Fixed, result
<1>3. CASE Perform
  <2>1. todo # <<>> /\ Touches /\ pc \in {"run", "undo"} /\ Fixed /\ pc' = pc /\ fresh' = fresh
        /\ todo' = Tail(todo)
    BY <1>3 DEF Perform, Proceed, InFlight, Busy, Fixed, result
  <2>2. 1 \in 1 .. Len(todo) /\ Follows(todo', todo, 1)
    BY <1>0, <2>1, TailFollows DEF Follows
  <2> QED BY <1>3, <2>1, <2>2 DEF Advances
<1>4. CASE Pass
  <2>1. todo # <<>> /\ pc \in {"run", "undo"} /\ Fixed /\ pc' = pc /\ fresh' = fresh
        /\ todo' = Tail(todo) /\ new' = new
    BY <1>4 DEF Pass, Proceed, Busy, Fixed
  <2>2. Touches /\ Op.do # "put"
    BY <1>4 DEF Pass, Vain, Touches
  <2>3. 1 \in 1 .. Len(todo) /\ Follows(todo', todo, 1)
    BY <1>0, <2>1, TailFollows DEF Follows
  <2> QED BY <2>1, <2>2, <2>3 DEF Advances
<1>5. CASE Refuse \/ Fails
  <2>1. /\ todo # <<>> /\ Touches /\ pc \in {"run", "undo"}
    BY <1>5 DEF Refuse, Fails, InFlight, Busy
  <2>2. CASE BestEffort
    <3>1. Fixed /\ pc' = pc /\ fresh' = fresh /\ todo' = AfterFailure /\ new' = new
      BY <1>5, <2>2 DEF Refuse, Fails, Proceed, Fixed
    <3>2. Op.do # "put"
      BY <2>2 DEF BestEffort
    <3> QED BY <1>0, <2>1, <3>1, <3>2, AfterFailureFollows DEF Advances
  <2>3. CASE ~ BestEffort
    <3>1. Raise
      BY <1>5, <2>3 DEF Refuse, Fails
    <3>2. CASE owns
      BY <2>1, <3>1, <3>2 DEF Raise, TurnsBack, Fixed, journal
    <3>3. CASE ~ owns
      <4>1. Guarded /\ pc' = "undo" /\ todo' = CleanUp
            /\ UNCHANGED <<cmd, new, fresh, journal, was, how>>
        BY <3>1, <3>3 DEF Raise, Ends
      <4> QED BY <2>1, <3>3, <4>1 DEF Guarded, Falls, Fixed, journal
    <3> QED BY <3>2, <3>3
  <2> QED BY <2>2, <2>3
<1>6. CASE Interrupted
  BY <1>6 DEF Interrupted, Ends, TurnsBack, Fixed, journal
<1>7. CASE RollBack \/ Finish \/ RollBackFails \/ Killed
  BY <1>7 DEF RollBack, Finish, RollBackFails, Killed, Ends
<1>8. ASSUME NEW f \in Files, NEW c \in Written, Edit(f, c) \/ EditMeanwhile(f, c)
      PROVE  pc # "idle" /\ Waits
  BY <1>8 DEF Edit, EditMeanwhile, Waits, Fixed, result, journal
<1>9. CASE UNCHANGED vars
  BY <1>9 DEF vars, journal, result, Waits, Fixed
<1>10. CASE TakeSnapshot \/ Rehash
  BY <1>10 DEF TakeSnapshot, Rehash, Busy
<1> QED BY <1>1, <1>2, <1>3, <1>4, <1>5, <1>6, <1>7, <1>8, <1>9, <1>10
        DEF Next, Step, GoesWrong, Others, Rest

LEMMA WasShape ==
  ASSUME Typed, [Next]_vars
  PROVE  was' = was \/ (was' = proj /\ proj' = proj)
<1>1. CASE Command
  BY <1>1, CommandBegins DEF Begins, Begin
<1>2. CASE Announce \/ Perform \/ Pass \/ TakeSnapshot \/ Rehash
  BY <1>2 DEF Announce, Perform, Pass, TakeSnapshot, Rehash, result
<1>3. CASE Refuse \/ Fails
  BY <1>3 DEF Refuse, Fails, Raise, Ends
<1>4. CASE Interrupted \/ RollBack \/ Finish \/ RollBackFails \/ Killed
  BY <1>4 DEF Interrupted, RollBack, Finish, RollBackFails, Killed, Ends
<1>5. ASSUME NEW f \in Files, NEW c \in Written, Edit(f, c) \/ EditMeanwhile(f, c)
      PROVE  was' = was
  BY <1>5 DEF Edit, EditMeanwhile, result
<1>6. CASE UNCHANGED vars
  BY <1>6 DEF vars, result
<1> QED BY <1>1, <1>2, <1>3, <1>4, <1>5, <1>6 DEF Next, Step, GoesWrong, Others, Rest

LEMMA HalfJournaled ==
  ASSUME Typed, NEW q \in HalfRestored
  PROVE  \E ps \in SUBSET Journaled : q = Restored(ps)
<1>1. PICK n \in 1 .. Len(jour) + 1 : q = Restored({jour[i] : i \in n .. Len(jour)})
  BY DEF HalfRestored
<1>2. Len(jour) \in Nat /\ DOMAIN jour = 1 .. Len(jour)
  BY LenProperties DEF Typed, Control
<1>3. {jour[i] : i \in n .. Len(jour)} \subseteq Journaled
  BY <1>2 DEF Journaled, Range
<1> QED BY <1>1, <1>3

\* A command in progress or stopped half way, an edit, or a rollback.
LEMMA ProjShape ==
  ASSUME Typed, [Next]_vars
  PROVE  \/ proj' = proj
         \/ InFlight /\ proj' \in Halfway
         \/ \E f \in Files, c \in Written :
              (Edit(f, c) \/ EditMeanwhile(f, c)) /\ proj' = [proj EXCEPT !.disk[f] = c]
         \/ pc = "rollback" /\ pc' = "idle" /\ \E ps \in SUBSET Journaled : proj' = Restored(ps)
<1>1. CASE Command
  BY <1>1, CommandBegins DEF Begins, Begin
<1>2. CASE Announce \/ Pass \/ TakeSnapshot \/ Rehash \/ Finish \/ Refuse
  BY <1>2 DEF Announce, Pass, TakeSnapshot, Rehash, Finish, Refuse
<1>3. CASE Perform \/ Fails
  BY <1>3, CompletedIsHalfway DEF Perform, Fails
<1>4. CASE Interrupted
  BY <1>4 DEF Interrupted, Left
<1>5. CASE RollBack \/ RollBackFails
  BY <1>5, HalfJournaled DEF RollBack, RollBackFails, Ends
<1>6. CASE Killed
  BY <1>6, HalfJournaled DEF Killed, Left, Ends
<1>7. ASSUME NEW f \in Files, NEW c \in Written, Edit(f, c) \/ EditMeanwhile(f, c)
      PROVE  proj' = [proj EXCEPT !.disk[f] = c]
  BY <1>7 DEF Edit, EditMeanwhile
<1>8. CASE UNCHANGED vars
  BY <1>8 DEF vars
<1> QED BY <1>1, <1>2, <1>3, <1>4, <1>5, <1>6, <1>7, <1>8 DEF Next, Step, GoesWrong, Others, Rest

\* Where the manifest on disk comes from.
LEMMA HalfwayManifests ==
  ASSUME Typed, todo # <<>>, Touches, NEW q \in Halfway, NEW k \in Keys
  PROVE  \/ q.man[k] \in {proj.man[k], NoFiles}
         \/ Op.do \in {"manifest", "resave"} /\ Op.key = k /\ q.man[k] = new
<1>0. Op \in Ops /\ SameBut(q, proj, {Op.at}) /\ proj \in Stores /\ proj.man \in [Keys -> Hashes]
  BY HeadIsOp, HalfwayIsLimited, StoreParts DEF Typed, Control, Effects, Limited
<1>1. CASE ManifestOp(Op) /\ Op.key = k
  <2>1. q \in {proj, [proj EXCEPT !.man[k] = NoFiles]}
        \/ (Op.do \in {"manifest", "resave"} /\ q = [proj EXCEPT !.man[k] = new])
    BY <1>1 DEF ManifestOp, Halfway, Completed, Touches
  <2> QED BY <1>0, <1>1, <2>1 DEF Stores, Project
<1>2. CASE ~ (ManifestOp(Op) /\ Op.key = k)
  <2>1. Manifest(k) # Op.at
    BY <1>0, <1>2, OpFacts, FilesApart, MetadataApart
       DEF FileOp, ManifestOp, StateOp, PkgOp, RecOp, CoverOp
  <2> QED BY <1>0, <2>1 DEF SameBut
<1> QED BY <1>1, <1>2

LEMMA ManifestShape ==
  ASSUME Typed, [Next]_vars, NEW k \in Keys
  PROVE  \/ proj'.man[k] \in {proj.man[k], was.man[k], NoFiles}
         \/ /\ InFlight /\ Op.do \in {"manifest", "resave"} /\ Op.key = k
            /\ proj'.man[k] = new
<1>1. CASE proj' = proj
  BY <1>1
<1>2. CASE InFlight /\ proj' \in Halfway
  <2>1. todo # <<>> /\ Touches
    BY <1>2 DEF InFlight, Busy
  <2> QED BY <1>2, <2>1, HalfwayManifests
<1>3. CASE \E f \in Files, c \in Written : proj' = [proj EXCEPT !.disk[f] = c]
  <2>1. proj'.man = proj.man
    BY <1>3 DEF Typed, Effects, Stores, Project
  <2> QED BY <2>1
<1>4. CASE \E ps : proj' = Restored(ps)
  BY <1>4, RestoredPaths
<1> QED BY <1>1, <1>2, <1>3, <1>4, ProjShape

\* While a command runs, what others do to a file is seen as touching it.
LEMMA DiskShape ==
  ASSUME Typed, [Next]_vars, pc # "idle", pc # "rollback", NEW f \in Files \ touched'
  PROVE  proj'.disk[f] = proj.disk[f] \/ proj'.disk[f] \notin Written
<1>1. CASE InFlight /\ proj' \in Halfway
  <2>1. todo # <<>> /\ Touches
    BY <1>1 DEF InFlight, Busy
  <2> QED BY <1>1, <2>1, HalfwayContent
<1>2. ASSUME NEW g \in Files, NEW c \in Written, Edit(g, c) \/ EditMeanwhile(g, c)
      PROVE  proj'.disk[f] = proj.disk[f]
  <2>1. proj' = [proj EXCEPT !.disk[g] = c] /\ touched' = touched \cup {g}
    BY <1>2 DEF Edit, EditMeanwhile
  <2>2. f # g
    BY <2>1
  <2> QED BY <2>1, <2>2, DiskChange, ContentFacts DEF Typed, Effects, ContainsMore
<1> QED BY <1>1, <1>2, ProjShape

-----------------------------------------------------------------------------
(* Every action keeps the operations fitting *)

LEMMA FollowsIn ==
  ASSUME NEW S, NEW s \in Seq(S), NEW t, NEW n, Follows(t, s, n)
  PROVE  t \in Seq(S)
<1>1. t \in Seq(Ops) /\ Len(t) \in Nat /\ Len(s) \in Nat /\ n \in 1 .. Len(s)
      /\ Len(t) = Len(s) - n
  BY LenProperties DEF Follows
<1>2. ASSUME NEW i \in 1 .. Len(t) PROVE t[i] \in S
  <2>1. i + n \in 1 .. Len(s) /\ t[i] = s[i + n]
    BY <1>1 DEF Follows
  <2> QED BY <2>1, ElementOfSeq
<1>3. t = [i \in 1 .. Len(t) |-> t[i]]
  BY <1>1
<1> QED BY <1>1, <1>2, <1>3

LEMMA TailIn ==
  ASSUME NEW S, NEW s \in Seq(S), s # <<>>
  PROVE  Tail(s) \in Seq(S) /\ Head(s) \in S
BY HeadTailProperties

LEMMA NewcomerKept ==
  ASSUME Typed, Routed, Newcomer, [Next]_vars
  PROVE  Newcomer'
<1> SUFFICES ASSUME pc' = "undo" \/ (pc' = "run" /\ ~ owns' /\ cmd'.kind \in {"install", "switch"})
             PROVE  /\ cmd'.kind \in {"install", "switch"}
                    /\ cmd'.key \notin Range(was'.json.installed)
  BY DEF Newcomer
<1>1. CASE pc = "idle" /\ Begins
  <2>1. PICK kind \in Kinds \ {"none"}, k \in Keys, r \in Releases \cup {0}, force \in BOOLEAN,
             ops \in Seq(Ops) : Given(kind, k, r, force, ops) /\ Begin(kind, k, r, force, ops)
    BY <1>1 DEF Begins
  <2>2. /\ cmd' = [kind |-> kind, key |-> k, rel |-> r, force |-> force] /\ pc' = "run"
        /\ was' = proj
        /\ owns' = (proj.recs # {} \/ \E i \in DOMAIN ops : ops[i].do = "package")
    BY <2>1 DEF Begin
  <2> QED BY <2>1, <2>2 DEF Given, Brings, Installed
<1>2. CASE Waits \/ Advances
  BY <1>2 DEF Waits, Advances, Fixed, Newcomer
<1>3. CASE TakeSnapshot \/ Rehash
  BY <1>3 DEF TakeSnapshot, Rehash, Newcomer, result, journal
<1>4. CASE Falls
  BY <1>4 DEF Falls, Guarded, Fixed, Newcomer
<1>5. CASE TurnsBack
  BY <1>5 DEF TurnsBack
<1> QED BY <1>1, <1>2, <1>3, <1>4, <1>5, StepShape

LEMMA SaveSpares == \A X, p, s, d, b : Spares(X, p, SaveState(s, d, b))
BY DEF Spares, SaveState

\* A clean-up spares what the user modified: it removes files that the command
\* was to replace.
LEMMA CleanUpMends ==
  ASSUME Typed, Confined, cmd.key \in Keys, pc = "run",
         cmd.kind \in {"install", "switch"}, cmd.key \notin Range(was.json.installed)
  PROVE  CleanUp \in Seq(Mends) /\ AllShielded(CleanUp, cmd.kind)
<1> DEFINE installed == IF cmd.kind = "install" THEN was.json.installed
                        ELSE RemoveFirst(was.json.installed, was.json.default)
           default == IF cmd.kind = "install" THEN was.json.default ELSE First(installed)
           down == TearDown(cmd.key, new, TRUE)
           mid == <<SaveState(installed, default, FALSE)>>
           gained == Replaced(cmd, was)
           Calmly == {o \in Mends : o.do # "rehash"}
<1>0. /\ was.json \in Proper /\ was.json.installed \in Seq(Keys) /\ IsInjective(was.json.installed)
      /\ was.json.default \in Keys \cup {None} /\ was \in Stores
  BY StoreParts DEF Typed, Control, Proper, State
<1>1. installed \in Seq(Keys) /\ IsInjective(installed)
  BY <1>0, RemoveFirstIn
<1>2. default \in Keys \cup {None}
  BY <1>0, <1>1, FirstIn
<1>3. ASSUME NEW o \in Ops, Spares(gained, was, o),
             o.do \notin {"put", "manifest", "resave", "snapshot", "rehash"}
      PROVE  o \in Calmly
  BY <1>3 DEF Mends
<1>4. down \in Seq(Calmly)
  <2>1. ASSUME NEW f \in Tracked(new) PROVE DropOp(f, new[f], TRUE) \in Calmly
    <3> DEFINE o == DropOp(f, new[f], TRUE)
    <3>1. f \in gained
      BY DEF Confined, Shipped, Replaced, SetsUp, Tracked
    <3>2. o \in Ops /\ o.do = "drop" /\ o.at = f
      BY FileOpsTyped DEF Typed, Control, Hashes, Tracked, DropOp
    <3> HIDE DEF o, gained
    <3>3. Spares(gained, was, o)
      BY <1>0, <3>1, <3>2, SparesFacts
    <3> HIDE DEF Calmly
    <3>4. o \in Calmly
      BY <1>3, <3>2, <3>3
    <3> QED BY <3>4 DEF o
  <2>2. DropManifest(cmd.key) \in Calmly
    <3>1. DropManifest(cmd.key) \in Ops /\ DropManifest(cmd.key).do = "dropManifest"
      BY MetadataOpsTyped DEF DropManifest
    <3>2. Spares(gained, was, DropManifest(cmd.key))
      BY <1>0, <3>1, SparesFacts
    <3> HIDE DEF Calmly
    <3> QED BY <1>3, <3>1, <3>2
  <2> HIDE DEF Calmly
  <2> QED BY <2>1, <2>2, TearDownIn
<1>5. mid \in Seq(Calmly)
  <2>1. SaveState(installed, default, FALSE) \in Ops
    BY <1>1, <1>2, StateOpTyped
  <2> HIDE DEF installed, default
  <2>2. SaveState(installed, default, FALSE) \in Calmly
    <3>1. SaveState(installed, default, FALSE).do = "state"
      BY DEF SaveState
    <3> QED BY <1>3, <2>1, <3>1, SaveSpares
  <2> HIDE DEF Calmly
  <2> QED BY <2>2, TupleIn
<1>6. ASSUME NEW s \in Seq(Calmly) PROVE s \in Seq(Mends) /\ AllShielded(s, cmd.kind)
  <2>1. Calmly \subseteq Mends /\ \A o \in Calmly : o.do # "rehash"
    OBVIOUS
  <2> HIDE DEF Calmly
  <2> QED BY <2>1, SeqMonotonic, NoneShielded
<1> HIDE DEF down, mid
<1>7. down \o mid \in Seq(Calmly)
  <2> HIDE DEF Calmly
  <2> QED BY <1>4, <1>5, ConcatIn
<1>8. CASE cmd.kind = "install" \/ default = None
  <2>1. CleanUp = down \o mid \o <<>>
    BY <1>8 DEF CleanUp, down, mid
  <2>2. down \o mid \o <<>> = down \o mid
    <3> HIDE DEF Calmly
    <3> QED BY <1>7, ConcatEmptySeq
  <2> HIDE DEF Calmly
  <2> QED BY <1>6, <1>7, <2>1, <2>2
<1>9. CASE ~ (cmd.kind = "install" \/ default = None)
  <2> DEFINE X == Tracked(proj.man[default])
             look == <<Snapshot(default)>>
             reg == Register(default)
             re == Resync(X)
  <2>1. default = Fallback /\ default \in Keys /\ cmd.kind # "upgrade"
    BY <1>2, <1>9 DEF Fallback
  <2>2. CleanUp = down \o mid \o (look \o reg \o re)
    BY <1>9 DEF CleanUp, down, mid
  <2> HIDE DEF default
  <2>3. look \in Seq(Calmly) /\ Range(look) = {Snapshot(default)}
    <3>1. Snapshot(default) \in Ops /\ Snapshot(default).do = "snapshot"
          /\ Snapshot(default).key = default
      BY <2>1, MetadataOpsTyped DEF Snapshot
    <3>2. Spares(gained, was, Snapshot(default))
      BY <1>0, <3>1, SparesFacts
    <3>3. Snapshot(default) \in Calmly
      BY <2>1, <3>1, <3>2 DEF Mends
    <3> HIDE DEF Calmly
    <3> QED BY <3>3, TupleIn DEF Range
  <2>4. reg \in Seq(Calmly)
    <3>1. ASSUME NEW f \in Overrides[default] PROVE OverlayOp(f) \in Calmly
      <4>1. OverlayOp(f) \in Ops /\ OverlayOp(f).do = "overlay" /\ Spares(gained, was, OverlayOp(f))
        BY <1>0, <2>1, SparesFacts, FileOpsTyped, FilesAssumption DEF OverlayOp
      <4> HIDE DEF Calmly
      <4> QED BY <1>3, <4>1
    <3>2. PresetOp("cover", default) \in Calmly
      <4>1. PresetOp("cover", default) \in Ops /\ PresetOp("cover", default).do = "cover"
        BY <2>1, MetadataOpsTyped DEF PresetOp
      <4>2. Spares(gained, was, PresetOp("cover", default))
        BY <1>0, <4>1, SparesFacts
      <4> HIDE DEF Calmly
      <4> QED BY <1>3, <4>1, <4>2
    <3> HIDE DEF Calmly
    <3> QED BY <2>1, <3>1, <3>2, RegisterIn
  <2>5. X \in SUBSET Files
    BY DEF Tracked
  <2>6. re \in Seq(Mends)
    <3>1. ASSUME NEW f \in X PROVE RehashOp(f) \in Mends
      <4>1. RehashOp(f) \in Ops /\ RehashOp(f).do = "rehash" /\ RehashOp(f).at = f
        BY <2>5, FileOpsTyped DEF RehashOp
      <4>2. Spares(gained, was, RehashOp(f))
        BY <1>0, <4>1, SparesFacts
      <4> QED BY <2>1, <2>5, <4>1, <4>2 DEF Mends
    <3> HIDE DEF X
    <3> QED BY <2>5, <3>1, EachFileIn DEF Resync
  <2> HIDE DEF look, reg, re, X
  <2>7. look \o reg \in Seq(Calmly) /\ Range(look \o reg) = Range(look) \cup Range(reg)
    <3> HIDE DEF Calmly
    <3> QED BY <2>3, <2>4, ConcatIn, RangeConcatenation
  <2>8. \E o \in Range(look \o reg) : o.do = "snapshot"
    BY <2>3, <2>7 DEF Snapshot
  <2>9. look \o reg \in Seq(Mends) /\ AllShielded(look \o reg, cmd.kind)
    BY <1>6, <2>7
  <2> HIDE DEF Calmly
  <2>10. look \o reg \o re \in Seq(Mends) /\ AllShielded(look \o reg \o re, cmd.kind)
    BY <2>1, <2>6, <2>8, <2>9, ConcatIn, ShieldedConcat
  <2>11. down \o mid \in Seq(Mends) /\ AllShielded(down \o mid, cmd.kind)
    BY <1>6, <1>7
  <2> DEFINE u == look \o reg \o re
             v == down \o mid
  <2> HIDE DEF u, v
  <2>12. v \o u \in Seq(Mends) /\ AllShielded(v \o u, cmd.kind)
    BY <2>10, <2>11, ConcatIn, ShieldedJoin DEF u, v
  <2> QED BY <2>2, <2>12 DEF u, v
<1> QED BY <1>8, <1>9

\* The operations of a step that changes the list of them.
LEMMA FittingKept ==
  ASSUME Typed, Routed, Revives, Newcomer, Confined, Fitting, [Next]_vars
  PROVE  Fitting'
<1> DEFINE F == Fit(was, cmd.kind, cmd.key, cmd.rel, cmd.force)
<1>a. cmd' = cmd /\ was' = was => Mends' = Mends
      /\ Fit(was', cmd'.kind, cmd'.key, cmd'.rel, cmd'.force) = F
  BY DEF Mends, Fit
<1>b. pc' = "run" => (Fitting' <=> todo' \in Seq(Fit(was', cmd'.kind, cmd'.key, cmd'.rel, cmd'.force)))
  BY DEF Fitting
<1>c. pc' = "undo" => (Fitting' <=> todo' \in Seq(Mends'))
  BY DEF Fitting
<1>d. pc' \notin {"run", "undo"} => Fitting'
  BY DEF Fitting
<1>e. (pc = "run" => todo \in Seq(F)) /\ (pc = "undo" => todo \in Seq(Mends))
  BY DEF Fitting
<1> HIDE DEF F
<1>1. CASE pc' = "idle"
  BY <1>1, <1>d
<1>2. CASE pc = "idle" /\ Begins
  <2>1. PICK kind \in Kinds \ {"none"}, k \in Keys, r \in Releases \cup {0}, force \in BOOLEAN,
             ops \in Seq(Ops) : Given(kind, k, r, force, ops) /\ Begin(kind, k, r, force, ops)
    BY <1>2 DEF Begins
  <2>2. /\ cmd' = [kind |-> kind, key |-> k, rel |-> r, force |-> force] /\ pc' = "run"
        /\ was' = proj /\ todo' = ops
    BY <2>1 DEF Begin
  <2>3. todo' \in Seq(Fit(was', cmd'.kind, cmd'.key, cmd'.rel, cmd'.force))
    BY <2>1, <2>2 DEF Given
  <2> QED BY <1>b, <2>2, <2>3
<1>3. CASE pc # "idle" /\ (Waits \/ TurnsBack)
  BY <1>3, <1>a, <1>b, <1>c, <1>d, <1>e DEF Waits, TurnsBack, Fixed
<1>4. CASE Advances
  <2>1. /\ pc = "run" => todo' \in Seq(F)
        /\ pc = "undo" => todo' \in Seq(Mends)
    BY <1>4, <1>e, FollowsIn DEF Advances
  <2> QED BY <1>4, <2>1, <1>a, <1>b, <1>c DEF Advances, Fixed
<1>5. CASE TakeSnapshot
  <2>1. todo # <<>> /\ todo' = Tail(todo) /\ pc' = pc /\ cmd' = cmd /\ was' = was
        /\ pc \in {"run", "undo"}
    BY <1>5 DEF TakeSnapshot, Busy, result
  <2>2. /\ pc = "run" => todo' \in Seq(F)
        /\ pc = "undo" => todo' \in Seq(Mends)
    BY <1>e, <2>1, TailIn
  <2> QED BY <2>1, <2>2, <1>a, <1>b, <1>c
<1>6. CASE Rehash
  <2>1. /\ todo # <<>> /\ pc' = pc /\ cmd' = cmd /\ was' = was /\ pc \in {"run", "undo"}
        /\ todo' \in {Tail(todo), Tail(todo) \o Resaves(Op.at)} /\ Busy /\ Op.do = "rehash"
    BY <1>6 DEF Rehash, Busy, result
  <2>2. ASSUME NEW k \in Keys
        PROVE  /\ Resave(k) \in Ops /\ Resave(k).do = "resave" /\ Resave(k).key = k
               /\ \A X : Spares(X, was, Resave(k))
    <3>1. Resave(k) \in Ops /\ Resave(k).do = "resave" /\ Resave(k).key = k
      BY MetadataOpsTyped DEF Resave
    <3>2. was \in Stores
      BY DEF Typed, Control
    <3> QED BY <3>1, <3>2, SparesFacts
  <2>3. CASE pc = "run"
    <3>1. Resaves(Op.at) \in {<<>>, <<Resave(cmd.key)>>} /\ cmd.key \in Keys
      BY <2>1, <2>3, ResavesTyped DEF Routed, HasKey
    <3>2. Resave(cmd.key) \in F
      BY <2>2, <3>1 DEF F, Fit, Suits
    <3>3. <<>> \in Seq(F) /\ <<Resave(cmd.key)>> \in Seq(F)
      BY <3>2, TupleIn, EmptySeq
    <3>4. Tail(todo) \in Seq(F)
      BY <1>e, <2>1, <2>3, TailIn
    <3>5. todo' \in Seq(F)
      BY <2>1, <3>1, <3>3, <3>4, ConcatIn
    <3> QED BY <1>a, <1>b, <2>1, <2>3, <3>5
  <2>4. CASE pc = "undo"
    <3>1. Resaves(Op.at) \in {<<>>, <<Resave(Fallback)>>} /\ Fallback \in Keys
      BY <2>1, <2>4, ResavesTyped
    <3>2. Resave(Fallback) \in Mends
      BY <2>2, <3>1 DEF Mends
    <3> HIDE DEF Mends
    <3>3. <<>> \in Seq(Mends) /\ <<Resave(Fallback)>> \in Seq(Mends)
      BY <3>2, TupleIn, EmptySeq
    <3>4. Tail(todo) \in Seq(Mends)
      BY <1>e, <2>1, <2>4, TailIn
    <3>5. todo' \in Seq(Mends)
      BY <2>1, <3>1, <3>3, <3>4, ConcatIn
    <3> QED BY <1>a, <1>c, <2>1, <2>4, <3>5
  <2> QED BY <2>1, <2>3, <2>4
<1>7. CASE Falls
  <2>1. cmd.key \in Keys /\ pc = "run" /\ cmd.kind \in {"install", "switch"}
        /\ cmd.key \notin Range(was.json.installed)
    BY <1>7 DEF Falls, Guarded, Routed, HasKey, Newcomer
  <2>2. CleanUp \in Seq(Mends)
    BY <2>1, CleanUpMends
  <2> QED BY <1>7, <2>2, <1>a, <1>c DEF Falls, Fixed
<1> QED BY <1>1, <1>2, <1>3, <1>4, <1>5, <1>6, <1>7, StepShape

\* What the first operation is like.
LEMMA FirstFits ==
  ASSUME Fitting, todo # <<>>
  PROVE  /\ pc = "run" => Op \in Fit(was, cmd.kind, cmd.key, cmd.rel, cmd.force)
         /\ pc = "undo" => Op \in Mends
<1>1. pc = "run" => todo \in Seq(Fit(was, cmd.kind, cmd.key, cmd.rel, cmd.force))
  BY DEF Fitting
<1>2. pc = "undo" => todo \in Seq(Mends)
  BY DEF Fitting
<1> HIDE DEF Fit, Mends
<1> QED BY <1>1, <1>2, TailIn DEF Op

LEMMA NewFilesAre == NewFiles(was, cmd.kind, cmd.key, cmd.rel) = Replaced(cmd, was)
BY DEF NewFiles, Replaced, SetsUp

\* What is before an operation stays before it, but for the first one.
LEMMA EarlierRest ==
  ASSUME NEW s \in Seq(Ops), NEW t, NEW n, Follows(t, s, n), NEW j \in 1 .. Len(t),
         NEW o \in Earlier(s, j + n), o.do \notin GivenUp
  PROVE  o = s[1] \/ o \in Earlier(t, j)
<1>0. Len(s) \in Nat /\ Len(t) = Len(s) - n /\ n \in 1 .. Len(s)
  BY LenProperties DEF Follows
<1>a. o \in {s[i] : i \in 1 .. (j + n) - 1}
  BY DEF Earlier
<1>1. PICK i \in 1 .. (j + n) - 1 : o = s[i]
  BY <1>a
<1>2. CASE i \in 2 .. n
  BY <1>1, <1>2 DEF Follows, GivenUp
<1>3. CASE i > n
  <2>1. i - n \in 1 .. Len(t) /\ i - n + n = i /\ i - n \in 1 .. j - 1
    BY <1>0, <1>1, <1>3
  <2>2. t[i - n] = o
    BY <1>1, <2>1 DEF Follows
  <2> QED BY <2>1, <2>2 DEF Earlier
<1> QED BY <1>0, <1>1, <1>2, <1>3

LEMMA RestElements ==
  ASSUME NEW s \in Seq(Ops), NEW t, NEW n, Follows(t, s, n), NEW j \in 1 .. Len(t)
  PROVE  j + n \in 1 .. Len(s) /\ t[j] = s[j + n]
<1>0. Len(s) \in Nat /\ Len(t) = Len(s) - n /\ n \in 1 .. Len(s)
  BY LenProperties DEF Follows
<1> QED BY <1>0 DEF Follows

LEMMA FirstElement ==
  ASSUME todo \in Seq(Ops), todo # <<>>
  PROVE  1 \in 1 .. Len(todo) /\ todo[1] = Op /\ Earlier(todo, 1) = {}
<1>1. Len(todo) \in Nat /\ Len(todo) # 0 /\ todo[1] = Head(todo)
  BY LenProperties, EmptySeq, HeadTailProperties
<1> QED BY <1>1 DEF Op, Earlier

\* The list after a refreshed hash: the rest, and perhaps a manifest to save.
LEMMA RehashRest ==
  ASSUME Typed, Routed, Revives, Rehash, NEW j \in 1 .. Len(todo')
  PROVE  \/ /\ j + 1 \in 1 .. Len(todo) /\ todo'[j] = todo[j + 1]
            /\ \A o \in Earlier(todo, j + 1) : o.do # "rehash" => o \in Earlier(todo', j)
         \/ todo'[j].do = "resave"
<1>0. todo \in Seq(Ops) /\ todo # <<>> /\ Op.do = "rehash" /\ Busy
      /\ todo' \in {Tail(todo), Tail(todo) \o Resaves(Op.at)}
  BY DEF Rehash, Busy, Typed, Control
<1>1. Follows(Tail(todo), todo, 1) /\ todo[1] = Op /\ Tail(todo) \in Seq(Ops)
  BY <1>0, TailFollows, FirstElement DEF Follows
<1>2. ASSUME NEW i \in 1 .. Len(Tail(todo))
      PROVE  i + 1 \in 1 .. Len(todo) /\ Tail(todo)[i] = todo[i + 1]
  BY <1>0, <1>1, RestElements
<1>3. ASSUME NEW i \in 1 .. Len(Tail(todo)), NEW o \in Earlier(todo, i + 1), o.do # "rehash"
      PROVE  o \in Earlier(Tail(todo), i)
  <2>1. PICK l \in 1 .. i : o = todo[l]
    BY <1>2 DEF Earlier
  <2>2. l # 1 /\ l - 1 \in 1 .. i - 1 /\ l - 1 \in 1 .. Len(Tail(todo)) /\ l - 1 + 1 = l
    <3>1. Len(Tail(todo)) \in Nat
      BY <1>1, LenProperties
    <3> QED BY <1>0, <1>1, <1>3, <2>1, <3>1
  <2>3. Tail(todo)[l - 1] = o
    BY <1>2, <2>1, <2>2
  <2> QED BY <2>2, <2>3 DEF Earlier
<1>4. CASE todo' = Tail(todo)
  BY <1>2, <1>3, <1>4
<1>5. CASE todo' = Tail(todo) \o Resaves(Op.at)
  <2> DEFINE t == Tail(todo)
             x == Resaves(Op.at)
  <2>1. x \in Seq(Ops) /\ \A i \in 1 .. Len(x) : x[i].do = "resave"
    <3>1. x = <<>> \/ \E k \in Keys : x = <<Resave(k)>>
      BY <1>0, ResavesTyped
    <3>2. \A k \in Keys : <<Resave(k)>> \in Seq(Ops) /\ Resave(k).do = "resave"
      BY MetadataOpsTyped, TupleIn DEF Resave
    <3> HIDE DEF x
    <3>3. CASE x = <<>>
      BY <3>3, EmptySeq
    <3>4. ASSUME NEW k \in Keys, x = <<Resave(k)>>
          PROVE  x \in Seq(Ops) /\ \A i \in 1 .. Len(x) : x[i].do = "resave"
      BY <3>2, <3>4
    <3> QED BY <3>1, <3>3, <3>4
  <2>2. Joined(todo', t, x) /\ t \in Seq(Ops)
    BY <1>1, <1>5, <2>1, ConcatElements
  <2> HIDE DEF t, x
  <2>3. CASE j \in 1 .. Len(t)
    <3>1. todo'[j] = t[j] /\ Earlier(todo', j) = Earlier(t, j)
      BY <2>1, <2>2, <2>3, EarlierConcat DEF Joined
    <3> QED BY <1>2, <1>3, <2>3, <3>1 DEF t
  <2>4. CASE ~ (j \in 1 .. Len(t))
    <3>1. j - Len(t) \in 1 .. Len(x) /\ j - Len(t) + Len(t) = j
      BY <2>2, <2>4 DEF Joined
    <3>2. todo'[j] = x[j - Len(t)]
      BY <2>2, <3>1 DEF Joined
    <3> QED BY <2>1, <3>1, <3>2
  <2> QED BY <2>3, <2>4
<1> QED BY <1>0, <1>4, <1>5

-----------------------------------------------------------------------------
(* Every action keeps a new manifest to what its release ships *)

\* The manifest in memory.
LEMMA NewShape ==
  ASSUME Typed, Routed, [Next]_vars, pc' # "idle", pc # "idle"
  PROVE  \/ new' = new
         \/ Perform /\ Op.do = "put" /\ new' = [new EXCEPT ![Op.at] = cmd.rel]
         \/ TakeSnapshot
         \/ Rehash /\ new' = [new EXCEPT ![Op.at] = proj.disk[Op.at]]
<1>1. CASE Waits \/ Falls \/ TurnsBack
  BY <1>1 DEF Waits, Falls, TurnsBack
<1>2. CASE Advances
  BY <1>2 DEF Advances, Perform
<1>3. CASE Rehash
  BY <1>3 DEF Rehash
<1> QED BY <1>1, <1>2, <1>3, StepShape

LEMMA ConfinedKept ==
  ASSUME Typed, Routed, Fitting, Confined, [Next]_vars
  PROVE  Confined'
<1>0. new \in Hashes
  BY DEF Typed, Control
<1> SUFFICES ASSUME pc' = "run", cmd'.kind \in {"install", "switch"}
             PROVE  Tracked(new') \subseteq Shipped(cmd')
  BY DEF Confined, Shipped
<1>1. CASE Begins
  BY <1>1 DEF Begins, Begin, Tracked, NoFiles
<1>2. CASE pc = "run" /\ cmd' = cmd
  <2>1. Tracked(new) \subseteq Shipped(cmd)
    BY <1>2 DEF Confined
  <2>2. ASSUME todo # <<>>, Op.do \in {"put", "rehash"} PROVE Op.at \in Shipped(cmd)
    BY <1>2, <2>2, FirstFits DEF Fit, Suits, Shipped
  <2>3. CASE Perform /\ Op.do = "put" /\ new' = [new EXCEPT ![Op.at] = cmd.rel]
    <3>1. todo # <<>>
      BY <2>3 DEF Perform, InFlight, Busy
    <3>2. Op.at \in Shipped(cmd)
      BY <2>2, <2>3, <3>1
    <3> QED BY <1>0, <1>2, <2>1, <2>3, <3>2 DEF Tracked, Hashes
  <2>4. ~ TakeSnapshot
    BY <1>2, FirstFits DEF TakeSnapshot, Busy, Fit, Suits
  <2>5. CASE Rehash /\ new' = [new EXCEPT ![Op.at] = proj.disk[Op.at]]
    <3>1. todo # <<>> /\ Op.do = "rehash"
      BY <2>5 DEF Rehash, Busy
    <3>2. Op.at \in Shipped(cmd)
      BY <2>2, <3>1
    <3> QED BY <1>0, <1>2, <2>1, <2>5, <3>2 DEF Tracked, Hashes
  <2> QED BY <1>2, <2>1, <2>3, <2>4, <2>5, NewShape
<1>3. Begins \/ (pc = "run" /\ cmd' = cmd)
  BY StepShape DEF Waits, Advances, Falls, TurnsBack, Fixed, TakeSnapshot, Rehash, Busy
<1> QED BY <1>1, <1>2, <1>3

-----------------------------------------------------------------------------
(* Every action keeps the refreshed hashes in sight *)

\* What others wrote is remembered until the next command.
LEMMA TouchedShape ==
  ASSUME Typed, [Next]_vars, pc # "idle"
  PROVE  touched \subseteq touched'
<1>1. CASE Command
  BY <1>1, CommandBegins DEF Begins, Begin
<1>2. CASE Step \/ GoesWrong
  BY <1>2 DEF Step, GoesWrong, Announce, Perform, Pass, TakeSnapshot, Rehash, Refuse, RollBack,
             Finish, Fails, Interrupted, RollBackFails, Killed, history
<1>3. CASE Others
  BY <1>3 DEF Others, Edit, EditMeanwhile
<1>4. CASE UNCHANGED vars
  BY <1>4 DEF vars, history
<1> QED BY <1>1, <1>2, <1>3, <1>4 DEF Next, Rest

\* A refreshed hash is of a file that was looked at, written or touched.
LEMMA RehashedIsSeen ==
  ASSUME Typed, Sighted, Busy, Op.do = "rehash", Rehashed(Op.at), proj.disk[Op.at] \in Written
  PROVE  Op.at \in touched
<1> SUFFICES ASSUME Op.at \notin touched PROVE FALSE
  OBVIOUS
<1>1. todo \in Seq(Ops) /\ todo # <<>> /\ pc \in {"run", "undo"}
  BY DEF Typed, Control, Busy
<1>2. 1 \in 1 .. Len(todo) /\ todo[1] = Op /\ Earlier(todo, 1) = {}
  BY <1>1, FirstElement
<1>3. ~ Shielded(todo, cmd.kind, 1)
  BY <1>2 DEF Shielded, Looked, Wrote
<1>4. Harmless(Op.at)
  BY <1>1, <1>2, <1>3 DEF Sighted, Rehashed
<1> QED BY <1>4 DEF Harmless, Rehashed

LEMMA BlindKept ==
  ASSUME Typed, Sighted, [Next]_vars
  PROVE  blind' \subseteq touched'
<1>0. blind \subseteq touched
  BY DEF Sighted
<1>1. CASE Command
  BY <1>1, CommandBegins DEF Begins, Begin
<1>2. CASE Announce \/ Perform \/ Pass \/ TakeSnapshot
  BY <1>0, <1>2 DEF Announce, Perform, Pass, TakeSnapshot, history
<1>3. CASE Rehash
  <2>1. touched' = touched /\ Busy /\ Op.do = "rehash"
    BY <1>3 DEF Rehash
  <2>2. blind' = blind \/ (blind' = blind \cup {Op.at} /\ Rehashed(Op.at)
                           /\ proj.disk[Op.at] \in Written)
    BY <1>3 DEF Rehash
  <2> QED BY <1>0, <2>1, <2>2, RehashedIsSeen
<1>4. CASE Refuse \/ RollBack \/ Finish \/ Fails \/ Interrupted \/ RollBackFails \/ Killed
  BY <1>0, <1>4 DEF Refuse, RollBack, Finish, Fails, Interrupted, RollBackFails, Killed, history
<1>5. CASE Others
  BY <1>0, <1>5 DEF Others, Edit, EditMeanwhile, history
<1>6. CASE UNCHANGED vars
  BY <1>0, <1>6 DEF vars, history
<1> QED BY <1>1, <1>2, <1>3, <1>4, <1>5, <1>6 DEF Next, Step, GoesWrong, Rest

HarmlessNext(f) ==
  proj'.disk[f] \notin Written \/ (proj'.disk[f] = new'[f] /\ cmd'.kind # "upgrade")

\* A harmless file stays harmless while nobody touches it.
LEMMA HarmlessStays ==
  ASSUME Typed, [Next]_vars, pc # "idle", pc # "rollback",
         NEW f \in Files \ touched', Harmless(f), cmd' = cmd,
         new'[f] = new[f] \/ proj'.disk[f] \notin Written
           \/ (new'[f] = proj.disk[f] /\ proj' = proj)
  PROVE  HarmlessNext(f)
<1>1. proj'.disk[f] = proj.disk[f] \/ proj'.disk[f] \notin Written
  BY DiskShape
<1> QED BY <1>1 DEF Harmless, HarmlessNext

\* The first operation writes a file: the content is the command's.
LEMMA PutContent ==
  ASSUME Typed, Perform, Op.do = "put"
  PROVE  Op.at \in Files /\ proj'.disk[Op.at] \notin Written /\ new' = [new EXCEPT ![Op.at] = cmd.rel]
<1>1. todo # <<>> /\ Touches /\ Op \in Ops
  BY HeadIsOp DEF Perform, InFlight, Busy, Typed, Control
<1>2. Op.at \in Files
  BY <1>1, OpFacts DEF FileOp, ManifestOp, StateOp, PkgOp, RecOp, CoverOp
<1> QED BY <1>1, <1>2, CompletedContent DEF Perform

LEMMA SightedAdvance ==
  ASSUME Typed, Routed, Sighted, [Next]_vars, Advances
  PROVE  \A j \in 1 .. Len(todo') : todo'[j].do = "rehash" /\ todo'[j].at \in fresh' \ touched' =>
           Shielded(todo', cmd'.kind, j) \/ HarmlessNext(todo'[j].at)
<1> SUFFICES ASSUME NEW j \in 1 .. Len(todo'), todo'[j].do = "rehash",
                    todo'[j].at \in fresh' \ touched'
             PROVE  Shielded(todo', cmd'.kind, j) \/ HarmlessNext(todo'[j].at)
  OBVIOUS
<1> DEFINE f == todo'[j].at
<1>0. /\ todo \in Seq(Ops) /\ todo # <<>> /\ cmd' = cmd /\ fresh' = fresh /\ fresh \subseteq Files
      /\ pc \in {"run", "undo"} /\ Touches /\ new \in Hashes /\ touched \subseteq touched'
  BY TouchedShape DEF Typed, Control, Advances, Fixed
<1>1. PICK n \in 1 .. Len(todo) : Follows(todo', todo, n)
  BY DEF Advances
<1>2. j + n \in 1 .. Len(todo) /\ todo'[j] = todo[j + n] /\ todo[1] = Op
  BY <1>0, <1>1, RestElements, FirstElement
<1>3. Shielded(todo, cmd.kind, j + n) \/ Harmless(f)
  BY <1>0, <1>2 DEF Sighted
<1>4. ASSUME NEW o \in Earlier(todo, j + n), o.do = "snapshot" PROVE o \in Earlier(todo', j)
  BY <1>0, <1>1, <1>2, <1>4, EarlierRest DEF GivenUp, Touches
<1>5. ASSUME NEW o \in Earlier(todo, j + n), o.do = "put", o.at = f
      PROVE  Wrote(todo', j, f) \/ HarmlessNext(f)
  <2>1. o = Op \/ o \in Earlier(todo', j)
    BY <1>0, <1>1, <1>2, <1>5, EarlierRest DEF GivenUp
  <2>2. CASE o = Op
    <3>1. Perform
      BY <1>5, <2>2 DEF Advances
    <3> QED BY <1>5, <2>2, <3>1, PutContent DEF HarmlessNext
  <2> QED BY <1>5, <2>1, <2>2 DEF Wrote
<1>6. CASE Harmless(f)
  <2>1. new'[f] = new[f] \/ proj'.disk[f] \notin Written
    <3>1. CASE Perform /\ Op.do = "put"
      <4>1. CASE Op.at = f
        BY <3>1, <4>1, PutContent
      <4>2. CASE Op.at # f
        BY <1>0, <3>1, <4>2, PutContent DEF Hashes
      <4> QED BY <4>1, <4>2
    <3>2. CASE Perform /\ Op.do # "put"
      BY <3>2 DEF Perform
    <3> QED BY <3>1, <3>2 DEF Advances
  <2> QED BY <1>0, <1>6, <2>1, HarmlessStays
<1> QED BY <1>0, <1>2, <1>3, <1>4, <1>5, <1>6 DEF Shielded, Looked, Wrote

LEMMA SightedKept ==
  ASSUME Typed, Routed, Revives, Newcomer, Fitting, Confined, Sighted, [Next]_vars
  PROVE  Sighted'
<1>0. todo \in Seq(Ops) /\ new \in Hashes /\ fresh \subseteq Files
  BY DEF Typed, Control
<1>a. blind' \subseteq touched'
  BY <1>0, BlindKept
<1> DEFINE Seen == \A j \in 1 .. Len(todo') :
                     todo'[j].do = "rehash" /\ todo'[j].at \in fresh' \ touched' =>
                       Shielded(todo', cmd'.kind, j) \/ HarmlessNext(todo'[j].at)
<1>b. pc' \notin {"run", "undo"} \/ Seen => Sighted'
  BY <1>a DEF Sighted, Shielded, Looked, Wrote, Earlier, Harmless, HarmlessNext
<1>1. CASE pc' = "idle" \/ TurnsBack
  BY <1>1, <1>b DEF TurnsBack
<1>2. CASE Begins
  <2>1. PICK kind \in Kinds \ {"none"}, k \in Keys, r \in Releases \cup {0}, force \in BOOLEAN,
             ops \in Seq(Ops) : Given(kind, k, r, force, ops) /\ Begin(kind, k, r, force, ops)
    BY <1>2 DEF Begins
  <2>2. cmd'.kind = kind /\ todo' = ops /\ AllShielded(ops, kind)
    BY <2>1 DEF Begin, Given
  <2>3. Seen
    BY <2>2 DEF AllShielded
  <2> QED BY <1>b, <2>3
<1>3. CASE Waits /\ pc # "idle" /\ pc' \in {"run", "undo"}
  <2>1. pc' = pc /\ todo' = todo /\ new' = new /\ cmd' = cmd /\ fresh' = fresh
    BY <1>3 DEF Waits, Fixed
  <2>2. touched \subseteq touched'
    BY <1>0, <1>3, TouchedShape
  <2>3. ASSUME NEW j \in 1 .. Len(todo), todo[j].do = "rehash", todo[j].at \in fresh \ touched'
        PROVE  Shielded(todo, cmd.kind, j) \/ HarmlessNext(todo[j].at)
    <3>1. Shielded(todo, cmd.kind, j) \/ Harmless(todo[j].at)
      BY <1>3, <2>1, <2>2, <2>3 DEF Sighted
    <3> QED BY <1>0, <1>3, <2>1, <2>3, <3>1, HarmlessStays
  <2>4. Seen
    BY <2>1, <2>3
  <2> QED BY <1>b, <2>4
<1>4. CASE Advances
  BY <1>0, <1>4, <1>b, SightedAdvance
<1>5. CASE TakeSnapshot
  <2>1. /\ pc' = pc /\ cmd' = cmd /\ proj' = proj /\ todo # <<>> /\ new' = proj.man[Op.key]
        /\ fresh' = Tracked(proj.man[Op.key]) \ Modified(proj, Op.key)
        /\ Op.do = "snapshot" /\ pc \in {"run", "undo"}
    BY <1>5 DEF TakeSnapshot, Busy
  <2>2. cmd.kind # "upgrade"
    BY <2>1, FirstFits DEF Fit, Suits, Newcomer
  <2>3. ASSUME NEW f \in fresh' PROVE HarmlessNext(f)
    BY <2>1, <2>2, ContentAssumption DEF HarmlessNext, Modified, Absent
  <2>4. Seen
    BY <2>3
  <2> QED BY <1>b, <2>4
<1>6. CASE Rehash
  <2>1. /\ pc' = pc /\ cmd' = cmd /\ proj' = proj /\ fresh' = fresh /\ touched' = touched
        /\ pc \in {"run", "undo"} /\ new' \in {new, [new EXCEPT ![Op.at] = proj.disk[Op.at]]}
    BY <1>6 DEF Rehash, Busy
  <2>2. ASSUME NEW j \in 1 .. Len(todo'), todo'[j].do = "rehash", todo'[j].at \in fresh \ touched
        PROVE  Shielded(todo', cmd.kind, j) \/ HarmlessNext(todo'[j].at)
    <3>1. /\ j + 1 \in 1 .. Len(todo) /\ todo'[j] = todo[j + 1]
          /\ \A o \in Earlier(todo, j + 1) : o.do # "rehash" => o \in Earlier(todo', j)
      BY <1>6, <2>2, RehashRest
    <3>2. Shielded(todo, cmd.kind, j + 1) \/ Harmless(todo'[j].at)
      BY <2>1, <2>2, <3>1 DEF Sighted
    <3>3. Shielded(todo, cmd.kind, j + 1) => Shielded(todo', cmd.kind, j)
      BY <3>1 DEF Shielded, Looked, Wrote
    <3>4. Harmless(todo'[j].at) => HarmlessNext(todo'[j].at)
      <4>1. new'[todo'[j].at] \in {new[todo'[j].at], proj.disk[todo'[j].at]}
        BY <1>0, <2>1, <2>2 DEF Hashes
      <4> QED BY <2>1, <4>1 DEF Harmless, HarmlessNext
    <3> QED BY <3>2, <3>3, <3>4
  <2>3. Seen
    BY <2>1, <2>2
  <2> QED BY <1>b, <2>3
<1>7. CASE Falls
  <2>1. /\ cmd.key \in Keys /\ pc = "run" /\ cmd.kind \in {"install", "switch"} /\ cmd' = cmd
        /\ cmd.key \notin Range(was.json.installed) /\ todo' = CleanUp
    BY <1>7 DEF Falls, Fixed, Guarded, Routed, HasKey, Newcomer
  <2>2. AllShielded(todo', cmd'.kind)
    BY <2>1, CleanUpMends
  <2>3. Seen
    BY <2>2 DEF AllShielded
  <2> QED BY <1>b, <2>3
<1> HIDE DEF Seen
<1> QED BY <1>0, <1>1, <1>2, <1>3, <1>4, <1>5, <1>6, <1>7, <1>b, StepShape

-----------------------------------------------------------------------------
(* Every action spares the modified files, and keeps them known as modified *)

LEMMA CheckedKept ==
  ASSUME Typed, Routed, Checked, [Next]_vars
  PROVE  Checked'
<1>1. CASE Command
  BY <1>1, CommandBegins DEF Begins, Begin, Checked
<1>2. CASE Announce
  <2>1. ~ Vain /\ UNCHANGED <<proj, todo>>
    BY <1>2 DEF Announce
  <2>2. Op.do = "drop" => ~ Modifies(Op)
    BY <2>1 DEF Vain
  <2>3. Op' = Op /\ (Modifies(Op)' <=> Modifies(Op))
    BY <2>1 DEF Op, Modifies
  <2> QED BY <2>2, <2>3 DEF Checked
<1>3. CASE Perform \/ Pass
  BY <1>3 DEF Perform, Pass, Proceed, Checked
<1>4. CASE TakeSnapshot \/ Rehash
  BY <1>4 DEF TakeSnapshot, Rehash, Routed, Touches, Checked
<1>5. CASE Refuse \/ Fails
  BY <1>5 DEF Refuse, Fails, Proceed, Raise, Ends, Checked
<1>6. CASE Interrupted \/ RollBack \/ Finish \/ RollBackFails \/ Killed
  BY <1>6 DEF Interrupted, RollBack, Finish, RollBackFails, Killed, Ends, Checked
<1>7. ASSUME NEW f \in Files, NEW c \in Written, Edit(f, c)
      PROVE  Checked'
  BY <1>7 DEF Edit, Routed, Checked
<1>8. ASSUME NEW f \in Files, NEW c \in Written, EditMeanwhile(f, c)
      PROVE  Checked'
  <2>1. todo' = todo /\ ready' = ready /\ Op' = Op /\ proj' = [proj EXCEPT !.disk[f] = c]
    BY <1>8 DEF EditMeanwhile, Op
  <2>2. SUFFICES ASSUME ready, Op.do = "drop", Op.at \notin blind' PROVE ~ Modifies(Op)'
    BY <2>1 DEF Checked
  <2>3. Op.at \in pending
    BY <2>2 DEF Routed
  <2>4. Op.at # f /\ Op.at \notin blind
    BY <1>8, <2>2, <2>3 DEF EditMeanwhile
  <2>5. proj'.disk[Op.at] = proj.disk[Op.at]
    <3>1. proj.disk \in Hashes /\ Op.at \in Files
      <4>1. Op \in Ops
        BY <2>2, HeadIsOp DEF Routed, Typed, Control
      <4>2. Op.at \in Files
        BY <2>2, <4>1, OpFacts DEF FileOp, ManifestOp, StateOp, PkgOp, RecOp, CoverOp
      <4> QED BY <4>2, StoreParts DEF Typed, Effects, Stores, Project
    <3> QED BY <2>1, <2>4, <3>1 DEF Typed, Effects, Stores, Project, Hashes
  <2> QED BY <2>1, <2>2, <2>4, <2>5 DEF Checked, Modifies
<1>9. CASE UNCHANGED vars
  <2>1. Op' = Op /\ (Modifies(Op)' <=> Modifies(Op)) /\ ready' = ready /\ blind' = blind
    BY <1>9 DEF vars, history, Op, Modifies
  <2> QED BY <2>1 DEF Checked
<1> QED BY <1>1, <1>2, <1>3, <1>4, <1>5, <1>6, <1>7, <1>8, <1>9 DEF Next, Step, GoesWrong, Others, Rest

\* What a step of a running command does to what others did, and how it ends.
LEMMA RunningShape ==
  ASSUME Typed, [Next]_vars, pc # "idle"
  PROVE  /\ cmd' = cmd /\ was' = was /\ owns' = owns /\ blind \subseteq blind'
         /\ scarred => scarred'
         /\ theirs' = theirs \/ \E f \in Files, c \in Written : EditMeanwhile(f, c)
         /\ pc' = "idle" => new' = NoFiles
<1>1. CASE Command
  BY <1>1, CommandBegins DEF Begins, Begin
<1>2. CASE Announce \/ Perform \/ Pass \/ TakeSnapshot
  BY <1>2 DEF Announce, Perform, Pass, Proceed, TakeSnapshot, history, journal, result
<1>3. CASE Rehash
  BY <1>3 DEF Rehash, journal, result
<1>4. CASE Refuse \/ Fails
  BY <1>4 DEF Refuse, Fails, Proceed, Raise, Ends, journal, history
<1>5. CASE Interrupted
  <2>1. UNCHANGED history /\ cmd' = cmd /\ was' = was /\ owns' = owns
    BY <1>5 DEF Interrupted, Ends, journal
  <2>2. pc' = "idle" => new' = NoFiles
    BY <1>5 DEF Interrupted, Ends
  <2> QED BY <2>1, <2>2 DEF history
<1>6. CASE Finish
  BY <1>6 DEF Finish, Ends, history
<1>7. CASE RollBack \/ RollBackFails \/ Killed
  BY <1>7 DEF RollBack, RollBackFails, Killed, Ends
<1>8. ASSUME NEW f \in Files, NEW c \in Written, Edit(f, c) \/ EditMeanwhile(f, c)
      PROVE  /\ EditMeanwhile(f, c) /\ cmd' = cmd /\ was' = was /\ owns' = owns
             /\ blind \subseteq blind' /\ pc' = pc /\ (scarred => scarred')
  BY <1>8 DEF Edit, EditMeanwhile, journal, result
<1>9. CASE UNCHANGED vars
  BY <1>9 DEF vars, history, journal, result
<1> QED BY <1>1, <1>2, <1>3, <1>4, <1>5, <1>6, <1>7, <1>8, <1>9 DEF Next, Step, GoesWrong, Others, Rest

LEMMA IdleShape ==
  ASSUME Typed, [Next]_vars, pc = "idle"
  PROVE  \/ Begins
         \/ UNCHANGED vars
         \/ pc' = "idle" /\ cmd'.kind = "none"
<1>1. CASE Command
  BY <1>1, CommandBegins
<1>2. CASE Step \/ GoesWrong
  BY <1>2 DEF Step, GoesWrong, Announce, Perform, Pass, TakeSnapshot, Rehash, Refuse, RollBack,
             Finish, Fails, Interrupted, RollBackFails, Killed, InFlight, Busy, Fault
<1>3. CASE Others
  BY <1>3 DEF Others, Edit, EditMeanwhile, Typed, Control
<1>4. CASE UNCHANGED vars
  BY <1>4
<1> QED BY <1>1, <1>2, <1>3, <1>4 DEF Next, Rest

\* An operation that may change a modified file finds it as it was recorded.
LEMMA WorkSpares ==
  ASSUME Typed, Fitting, Checked, Spared, InFlight, ~ cmd.force,
         NEW q \in Halfway, NEW f \in Precious(was) \ (Replaced(cmd, was) \cup blind)
  PROVE  q.disk[f] = theirs[f] \/ \E k \in Keys : theirs[f] = was.man[k][f]
<1>0. /\ todo # <<>> /\ Touches /\ Op \in Ops /\ pc \in {"run", "undo"} /\ was \in Stores
  BY HeadIsOp DEF InFlight, Busy, Typed, Control
<1>1. f \in Files /\ Stands(f)
  BY <1>0 DEF Spared, Precious, Edited
<1>2. CASE f # Op.at
  BY <1>0, <1>1, <1>2, HalfwayContent DEF Stands
<1>3. CASE f = Op.at
  <2>1. Op.do \in {"put", "overlay", "clear", "drop"}
    BY <1>0, <1>1, <1>3, OpFacts, FilesApart
       DEF FileOp, ManifestOp, StateOp, PkgOp, RecOp, CoverOp, Touches
  <2>2. Spares(Replaced(cmd, was), was, Op)
    BY <1>0, FirstFits, NewFilesAre DEF Fit, Mends
  <2>3. Op.do = "drop" /\ ~ Op.force /\ \E k \in Keys : Op.hash = was.man[k][f]
    BY <1>3, <2>1, <2>2 DEF Spares
  <2>4. ~ Modifies(Op)
    BY <1>3, <2>3 DEF InFlight, Checked, Vain
  <2>5. \E k \in Keys : proj.disk[f] = was.man[k][f]
    BY <1>3, <2>3, <2>4 DEF Modifies
  <2> QED BY <1>1, <2>5 DEF Stands
<1> QED BY <1>2, <1>3

LEMMA SparedKept ==
  ASSUME Typed, Routed, Traced, Fitting, Checked, Spared, [Next]_vars
  PROVE  Spared'
<1>1. CASE pc = "idle"
  <2>1. CASE Begins
    <3>1. was' = proj /\ theirs' = proj.disk /\ proj' = proj
      BY <2>1 DEF Begins, Begin
    <3> QED BY <3>1 DEF Spared, Stands
  <2>2. CASE UNCHANGED vars
    BY <2>2 DEF vars, history, result, Spared, Ended, Stands
  <2>3. CASE pc' = "idle" /\ cmd'.kind = "none"
    BY <2>3 DEF Spared, Ended
  <2> QED BY <1>1, <2>1, <2>2, <2>3, IdleShape
<1>2. CASE pc # "idle"
  <2>0. cmd' = cmd /\ was' = was /\ blind \subseteq blind'
    BY <1>2, RunningShape
  <2>1. SUFFICES ASSUME ~ cmd.force, NEW f \in Precious(was) \ (Replaced(cmd, was) \cup blind')
                 PROVE  proj'.disk[f] = theirs'[f] \/ \E k \in Keys : theirs'[f] = was.man[k][f]
    BY <2>0 DEF Spared, Stands
  <2>2. /\ f \in Files /\ f \in Precious(was) \ (Replaced(cmd, was) \cup blind)
        /\ Stands(f)
    BY <1>2, <2>0, <2>1 DEF Spared, Precious, Edited
  <2>3. ASSUME NEW g \in Files, NEW c \in Written, EditMeanwhile(g, c)
        PROVE  proj'.disk[f] = theirs'[f] \/ \E k \in Keys : theirs'[f] = was.man[k][f]
    <3>1. /\ proj' = [proj EXCEPT !.disk[g] = c] /\ proj.disk \in Hashes /\ theirs \in Hashes
          /\ proj \in Project
      BY <2>3, StoreParts DEF EditMeanwhile, Typed, Effects, Stores, Project
    <3>2. CASE f = g
      <4>1. theirs' = [theirs EXCEPT ![g] = c]
        BY <2>1, <2>3, <3>2 DEF EditMeanwhile
      <4> QED BY <2>2, <3>1, <3>2, <4>1 DEF Hashes, Project
    <3>3. CASE f # g
      <4>1. theirs'[f] = theirs[f]
        BY <2>2, <2>3, <3>1, <3>3 DEF EditMeanwhile, Hashes
      <4>2. proj'.disk[f] = proj.disk[f]
        BY <2>2, <3>1, <3>3 DEF Hashes, Project
      <4> QED BY <2>2, <4>1, <4>2 DEF Stands
    <3> QED BY <3>2, <3>3
  <2>4. CASE theirs' = theirs
    <3>1. CASE proj' = proj
      BY <2>2, <2>4, <3>1 DEF Stands
    <3>2. CASE InFlight /\ proj' \in Halfway
      BY <2>1, <2>2, <2>4, <3>2, WorkSpares
    <3>3. ASSUME NEW g \in Files, NEW c \in Written, Edit(g, c) \/ EditMeanwhile(g, c)
          PROVE  proj'.disk[f] = theirs'[f] \/ \E k \in Keys : theirs'[f] = was.man[k][f]
      BY <1>2, <2>3, <3>3 DEF Edit
    <3>4. ASSUME pc = "rollback", NEW ps \in SUBSET Journaled, proj' = Restored(ps)
          PROVE  proj'.disk[f] = theirs'[f] \/ \E k \in Keys : theirs'[f] = was.man[k][f]
      <4>1. Known4(f)
        BY <2>2, <3>4 DEF Traced, Routed
      <4>2. proj'.disk[f] = IF f \in ps /\ ~ LeftAlone(f) THEN saved[f] ELSE proj.disk[f]
        BY <2>2, <3>4, RestoredPaths
      <4>3. CASE f \in ps /\ ~ LeftAlone(f)
        <5>1. f \in Journaled \ pending /\ proj.disk[f] = written[f]
          BY <2>2, <3>4, <4>3 DEF LeftAlone, Foreign
        <5> QED BY <2>4, <4>1, <4>2, <4>3, <5>1 DEF Known4
      <4>4. CASE ~ (f \in ps /\ ~ LeftAlone(f))
        BY <2>2, <2>4, <4>2, <4>4 DEF Stands
      <4> QED BY <4>3, <4>4
    <3> QED BY <3>1, <3>2, <3>3, <3>4, ProjShape
  <2> QED BY <1>2, <2>3, <2>4, RunningShape
<1> QED BY <1>1, <1>2

\* Which contents nobody else writes.
LEMMA NotWritten ==
  Typed => Absent \notin Written /\ cmd.rel \notin Written
BY ContentAssumption DEF Typed, Control, Absent

LEMMA VisibleKept ==
  ASSUME Typed, Routed, Sighted, Visible, [Next]_vars
  PROVE  Visible'
<1>0. proj \in Stores /\ new \in Hashes
  BY DEF Typed, Control, Effects
<1>1. CASE pc = "idle"
  <2>1. CASE Begins
    <3>1. was' = proj /\ new' = NoFiles /\ proj' = proj
      BY <2>1 DEF Begins, Begin
    <3>2. \A f \in Files : NoFiles[f] = Absent
      BY DEF NoFiles
    <3> QED BY <3>1, <3>2, NotWritten DEF Visible, Edited
  <2>2. CASE UNCHANGED vars
    BY <2>2 DEF vars, history, result, Visible, Ended
  <2>3. CASE pc' = "idle" /\ cmd'.kind = "none"
    BY <2>3 DEF Visible, Ended
  <2> QED BY <1>1, <2>1, <2>2, <2>3, IdleShape
<1>2. CASE pc # "idle"
  <2>0. was' = was /\ touched \subseteq touched'
    BY <1>2, RunningShape, TouchedShape
  <2>1. SUFFICES ASSUME NEW f \in Edited(was) \ touched', was.disk[f] \in Written
                 PROVE  /\ new'[f] # was.disk[f]
                        /\ \A k \in Keys : proj'.man[k][f] # was.disk[f]
    BY <2>0 DEF Visible
  <2>2. f \in Files /\ f \notin touched
    BY <2>0, <2>1 DEF Edited
  <2>3. new[f] # was.disk[f] /\ \A k \in Keys : proj.man[k][f] # was.disk[f]
    BY <1>2, <2>0, <2>1 DEF Visible
  <2>4. NoFiles[f] # was.disk[f]
    BY <2>1, <2>2, NotWritten DEF NoFiles
  <2>5. ASSUME NEW k \in Keys PROVE proj'.man[k][f] # was.disk[f]
    <3>1. was.man[k][f] # was.disk[f]
      BY <2>1 DEF Edited
    <3> QED BY <2>3, <2>4, <3>1, ManifestShape
  <2>6. CASE new' = new
    BY <2>3, <2>5, <2>6
  <2>7. CASE Op.do = "put" /\ new' = [new EXCEPT ![Op.at] = cmd.rel]
    <3>1. new'[f] \in {new[f], cmd.rel}
      BY <1>0, <2>2, <2>7 DEF Hashes
    <3> QED BY <2>1, <2>3, <2>5, <3>1, NotWritten
  <2>8. CASE TakeSnapshot
    <3>1. new' = proj.man[Op.key] /\ Op.do = "snapshot" /\ todo # <<>>
      BY <2>8 DEF TakeSnapshot, Busy
    <3>2. Op.key \in Keys
      <4>1. Op \in Ops
        BY <3>1, HeadIsOp DEF Typed, Control
      <4> QED BY <3>1, <4>1, OpFacts DEF FileOp, ManifestOp, StateOp, PkgOp, RecOp, CoverOp
    <3> QED BY <2>3, <2>5, <3>1, <3>2
  <2>9. CASE Rehash /\ new' # new
    <3>1. Busy /\ Op.do = "rehash" /\ Rehashed(Op.at) /\ new' = [new EXCEPT ![Op.at] = proj.disk[Op.at]]
      BY <2>9 DEF Rehash
    <3>2. CASE f = Op.at
      <4>1. proj.disk[f] \notin Written
        BY <2>2, <3>1, <3>2, RehashedIsSeen
      <4> QED BY <1>0, <2>1, <2>2, <2>5, <3>1, <3>2, <4>1 DEF Hashes
    <3>3. CASE f # Op.at
      BY <1>0, <2>2, <2>3, <2>5, <3>1, <3>3 DEF Hashes
    <3> QED BY <3>2, <3>3
  <2>10. CASE pc' = "idle"
    BY <1>2, <2>4, <2>5, <2>10, RunningShape
  <2> QED BY <1>2, <2>6, <2>7, <2>8, <2>9, <2>10, NewShape
<1> QED BY <1>1, <1>2

-----------------------------------------------------------------------------
(* Packages, records and integration.json *)

\* Packages in A come and those in D go; integration.json never names a key
\* outside Y.
Plan(s, A, D, Y) ==
  /\ s \in Seq(Ops)
  /\ Coming(s, "package") = A /\ Coming(s, "record") = A
  /\ Coming(s, "unpackage") = D /\ Coming(s, "unrecord") = D
  /\ \A o \in Range(s) : o.do = "state" => Range(o.value.installed) \subseteq Y

QuietOps == {o \in Ops : o.do \notin PackageDos \cup {"state"}}

LEMMA PlanConcat ==
  ASSUME NEW s, NEW t, NEW A, NEW B, NEW D, NEW E, NEW Y, Plan(s, A, D, Y), Plan(t, B, E, Y)
  PROVE  /\ Plan(s \o t, A \cup B, D \cup E, Y)
         /\ Unnamed(s) /\ Unnamed(t) => Unnamed(s \o t)
         /\ \A X : Aims(t, X) \/ (Aims(s, X) /\ Unnamed(t)) => Aims(s \o t, X)
<1> DEFINE u == s \o t
<1>0. s \in Seq(Ops) /\ t \in Seq(Ops) /\ u \in Seq(Ops) /\ Joined(u, s, t)
      /\ Range(u) = Range(s) \cup Range(t)
  BY ConcatElements, RangeConcatenation DEF Plan
<1> HIDE DEF u
<1>1. \A d : Coming(u, d) = Coming(s, d) \cup Coming(t, d)
  BY <1>0 DEF Coming
<1>2. \A o \in Range(u) : o.do = "state" => Range(o.value.installed) \subseteq Y
  BY <1>0 DEF Plan
<1>3. Plan(u, A \cup B, D \cup E, Y)
  BY <1>0, <1>1, <1>2 DEF Plan
<1>4. ASSUME Unnamed(t) PROVE \A i \in 1 .. Len(u) : u[i].do = "state" => i \in 1 .. Len(s)
  BY <1>0, <1>4 DEF Joined, Unnamed
<1>5. Unnamed(s) /\ Unnamed(t) => Unnamed(u)
  BY <1>0, <1>4 DEF Joined, Unnamed
<1>6. ASSUME NEW X, Aims(t, X) PROVE Aims(u, X)
  <2>1. PICK i \in 1 .. Len(t) : /\ t[i].do = "state" /\ Range(t[i].value.installed) = X
                                 /\ \A j \in 1 .. Len(t) : t[j].do = "state" => j <= i
    BY <1>6 DEF Aims
  <2>2. i + Len(s) \in 1 .. Len(u) /\ u[i + Len(s)] = t[i] /\ Len(s) \in Nat /\ i \in Nat
    BY <1>0 DEF Joined
  <2>3. ASSUME NEW j \in 1 .. Len(u), u[j].do = "state" PROVE j <= i + Len(s)
    <3>1. CASE j \in 1 .. Len(s)
      BY <2>2, <3>1
    <3>2. CASE j - Len(s) \in 1 .. Len(t) /\ j - Len(s) + Len(s) = j
      <4>1. u[j] = t[j - Len(s)]
        BY <1>0, <3>2 DEF Joined
      <4>2. j - Len(s) <= i
        BY <2>1, <2>3, <3>2, <4>1
      <4> QED BY <2>2, <4>2
    <3> QED BY <1>0, <3>1, <3>2 DEF Joined
  <2> QED BY <2>1, <2>2, <2>3 DEF Aims
<1>7. ASSUME NEW X, Aims(s, X), Unnamed(t) PROVE Aims(u, X)
  <2>1. PICK i \in 1 .. Len(s) : /\ s[i].do = "state" /\ Range(s[i].value.installed) = X
                                 /\ \A j \in 1 .. Len(s) : s[j].do = "state" => j <= i
    BY <1>7 DEF Aims
  <2>2. i \in 1 .. Len(u) /\ u[i] = s[i]
    BY <1>0 DEF Joined
  <2>3. ASSUME NEW j \in 1 .. Len(u), u[j].do = "state" PROVE j <= i
    <3>1. j \in 1 .. Len(s)
      BY <1>4, <1>7, <2>3
    <3> QED BY <1>0, <2>1, <2>3, <3>1 DEF Joined
  <2> QED BY <2>1, <2>2, <2>3 DEF Aims
<1> QED BY <1>3, <1>5, <1>6, <1>7 DEF u

LEMMA QuietPlan ==
  ASSUME NEW s \in Seq(QuietOps), NEW Y
  PROVE  Plan(s, {}, {}, Y) /\ Unnamed(s)
<1>1. QuietOps \subseteq Ops /\ \A o \in QuietOps : o.do \notin PackageDos \cup {"state"}
  BY DEF QuietOps
<1> HIDE DEF QuietOps
<1>2. s \in Seq(Ops) /\ \A o \in Range(s) : o \in QuietOps
  BY <1>1, SeqMonotonic, RangeOfSeq
<1>3. \A d \in PackageDos : Coming(s, d) = {}
  BY <1>1, <1>2 DEF Coming
<1>4. Unnamed(s)
  BY <1>1, ElementOfSeq DEF Unnamed
<1> QED BY <1>1, <1>2, <1>3, <1>4 DEF Plan, PackageDos

LEMMA QuietLists ==
  ASSUME Typed, NEW k \in Keys
  PROVE  LET Q == Seq(QuietOps)
         IN  /\ \A force \in BOOLEAN : TearDown(k, proj.man[k], force) \in Q
             /\ Register(k) \in Q /\ Unregister(k) \in Q
             /\ \A r \in Releases : SetUp(k, r) \in Q /\ Stale(k, r) \in Q
             /\ <<Snapshot(k)>> \in Q
             /\ \A X \in SUBSET Files : Resync(X) \in Q
             /\ <<>> \in Q
<1>0. CoveredFor(proj, k) \subseteq Files /\ proj.man \in [Keys -> Hashes]
  BY StoreParts DEF Typed, Effects, CoveredFor
<1>1. \A o \in Ops : o.do \notin PackageDos \cup {"state"} => o \in QuietOps
  BY DEF QuietOps
<1>2. /\ SaveManifest(k) \in QuietOps /\ DropManifest(k) \in QuietOps
      /\ Snapshot(k) \in QuietOps
      /\ PresetOp("cover", k) \in QuietOps /\ PresetOp("uncover", k) \in QuietOps
  BY <1>1, MetadataOpsTyped DEF SaveManifest, DropManifest, Snapshot, PresetOp, PackageDos
<1>3. \A f \in Files : /\ PutOp(f) \in QuietOps /\ OverlayOp(f) \in QuietOps
                       /\ ClearOp(f) \in QuietOps /\ RehashOp(f) \in QuietOps
  BY <1>1, FileOpsTyped DEF PutOp, OverlayOp, ClearOp, RehashOp, PackageDos
<1>4. \A f \in Files, h \in Contents, b \in BOOLEAN : DropOp(f, h, b) \in QuietOps
  BY <1>1, FileOpsTyped DEF DropOp, PackageDos
<1> HIDE DEF QuietOps
<1>5. \A f \in Files : proj.man[k][f] \in Contents
  BY <1>0 DEF Hashes
<1>6. ASSUME NEW force \in BOOLEAN PROVE TearDown(k, proj.man[k], force) \in Seq(QuietOps)
  BY <1>2, <1>4, <1>5, TearDownIn DEF Tracked
<1>7. Register(k) \in Seq(QuietOps) /\ Unregister(k) \in Seq(QuietOps)
  BY <1>0, <1>2, <1>3, RegisterIn, UnregisterIn, FilesAssumption
<1>8. ASSUME NEW r \in Releases
      PROVE  SetUp(k, r) \in Seq(QuietOps) /\ Stale(k, r) \in Seq(QuietOps)
  BY <1>2, <1>3, <1>4, <1>5, SetUpIn, StaleIn, FilesAssumption DEF Tracked
<1>9. ASSUME NEW X \in SUBSET Files PROVE Resync(X) \in Seq(QuietOps)
  BY <1>3, EachFileIn DEF Resync
<1> QED BY <1>2, <1>6, <1>7, <1>8, <1>9, TupleIn, EmptySeq

LEMMA SavePlan ==
  ASSUME NEW x \in Seq(Keys), IsInjective(x), NEW d \in Keys \cup {None}, NEW b \in BOOLEAN,
         NEW Y, Range(x) \subseteq Y
  PROVE  LET s == <<SaveState(x, d, b)>> IN Plan(s, {}, {}, Y) /\ Aims(s, Range(x))
<1> DEFINE o == SaveState(x, d, b)
           s == <<o>>
<1>1. o \in Ops /\ o.do = "state" /\ o.value.installed = x
  BY StateOpTyped DEF SaveState
<1> HIDE DEF o
<1>2. s \in Seq(Ops) /\ Len(s) = 1 /\ s[1] = o /\ Range(s) = {o}
  BY <1>1 DEF Range
<1>3. \A e : e # "state" => Coming(s, e) = {}
  BY <1>1, <1>2 DEF Coming
<1> HIDE DEF s
<1>4. Aims(s, Range(x))
  BY <1>1, <1>2 DEF Aims
<1>5. Plan(s, {}, {}, Y)
  BY <1>1, <1>2, <1>3 DEF Plan
<1> QED BY <1>4, <1>5 DEF s, o

LEMMA PackagePlans ==
  ASSUME Typed, NEW k \in Keys, NEW Y
  PROVE  /\ \A d : /\ Plan(Fetched(d, k), IF Downloads(d, k) THEN {k} ELSE {}, {}, Y)
                   /\ Unnamed(Fetched(d, k))
         /\ Plan(Forget(k), {}, {k} \cap proj.recs, Y) /\ Unnamed(Forget(k))
         /\ Plan(<<>>, {}, {}, Y) /\ Unnamed(<<>>)
<1>0. proj.recs \subseteq External
  BY StoreParts DEF Typed, Effects
<1>1. Plan(<<>>, {}, {}, Y) /\ Unnamed(<<>>)
  BY QuietPlan, EmptySeq
<1>2. ASSUME NEW o1 \in Ops, NEW o2 \in Ops, o1.key = k, o2.key = k,
             \/ o1.do = "package" /\ o2.do = "record"
             \/ o1.do = "unpackage" /\ o2.do = "unrecord"
      PROVE  LET s == <<o1, o2>>
             IN  /\ Unnamed(s)
                 /\ o1.do = "package" => Plan(s, {k}, {}, Y)
                 /\ o1.do = "unpackage" => Plan(s, {}, {k}, Y)
  <2> DEFINE s == <<o1, o2>>
  <2>1. s \in Seq(Ops) /\ Len(s) = 2 /\ s[1] = o1 /\ s[2] = o2 /\ Range(s) = {o1, o2}
    BY DEF Range
  <2> HIDE DEF s
  <2>2. Unnamed(s)
    BY <1>2, <2>1 DEF Unnamed
  <2>3. Coming(s, o1.do) = {k} /\ Coming(s, o2.do) = {k}
        /\ \A e : e # o1.do /\ e # o2.do => Coming(s, e) = {}
    BY <1>2, <2>1 DEF Coming
  <2>4. \A o \in Range(s) : o.do # "state"
    BY <1>2, <2>1
  <2>5. o1.do = "package" => Plan(s, {k}, {}, Y)
    BY <1>2, <2>1, <2>3, <2>4 DEF Plan
  <2>6. o1.do = "unpackage" => Plan(s, {}, {k}, Y)
    BY <1>2, <2>1, <2>3, <2>4 DEF Plan
  <2> QED BY <2>2, <2>5, <2>6 DEF s
<1>3. ASSUME NEW d PROVE /\ Plan(Fetched(d, k), IF Downloads(d, k) THEN {k} ELSE {}, {}, Y)
                         /\ Unnamed(Fetched(d, k))
  <2>1. CASE Downloads(d, k)
    <3>1. Fetched(d, k) = <<PackageOp("package", k), RecordOp("record", k)>> /\ k \in External
      BY <2>1 DEF Fetched, Persist, Downloads
    <3>2. /\ PackageOp("package", k).key = k /\ RecordOp("record", k).key = k
          /\ PackageOp("package", k).do = "package" /\ RecordOp("record", k).do = "record"
      BY DEF PackageOp, RecordOp
    <3>3. PackageOp("package", k) \in Ops /\ RecordOp("record", k) \in Ops
      BY <3>1, MetadataOpsTyped
    <3> QED BY <1>2, <2>1, <3>1, <3>2, <3>3
  <2>2. CASE ~ Downloads(d, k)
    BY <1>1, <2>2 DEF Fetched
  <2> QED BY <2>1, <2>2
<1>4. Plan(Forget(k), {}, {k} \cap proj.recs, Y) /\ Unnamed(Forget(k))
  <2>1. CASE k \in proj.recs
    <3>1. Forget(k) = <<PackageOp("unpackage", k), RecordOp("unrecord", k)>> /\ k \in External
          /\ {k} \cap proj.recs = {k}
      BY <1>0, <2>1 DEF Forget
    <3>2. /\ PackageOp("unpackage", k).key = k /\ RecordOp("unrecord", k).key = k
          /\ PackageOp("unpackage", k).do = "unpackage" /\ RecordOp("unrecord", k).do = "unrecord"
      BY DEF PackageOp, RecordOp
    <3>3. PackageOp("unpackage", k) \in Ops /\ RecordOp("unrecord", k) \in Ops
      BY <3>1, MetadataOpsTyped
    <3> QED BY <1>2, <2>1, <3>1, <3>2, <3>3
  <2>2. CASE k \notin proj.recs
    <3>1. Forget(k) = <<>> /\ {k} \cap proj.recs = {}
      BY <2>2 DEF Forget
    <3> QED BY <1>1, <3>1
  <2> QED BY <2>1, <2>2
<1> QED BY <1>1, <1>3, <1>4


LEMMA PlanJoin ==
  ASSUME NEW s, NEW t, NEW A, NEW D, NEW Y, Plan(s, {}, {}, Y), Plan(t, A, D, Y)
  PROVE  /\ Plan(s \o t, A, D, Y)
         /\ Unnamed(s) /\ Unnamed(t) => Unnamed(s \o t)
         /\ \A X : Aims(t, X) \/ (Aims(s, X) /\ Unnamed(t)) => Aims(s \o t, X)
<1>1. {} \cup A = A /\ {} \cup D = D
  OBVIOUS
<1>2. Plan(s \o t, {} \cup A, {} \cup D, Y)
  BY PlanConcat
<1>3. Unnamed(s) /\ Unnamed(t) => Unnamed(s \o t)
  BY PlanConcat
<1>4. \A X : Aims(t, X) \/ (Aims(s, X) /\ Unnamed(t)) => Aims(s \o t, X)
  BY PlanConcat
<1> QED BY <1>1, <1>2, <1>3, <1>4

\* What a command makes of the packages fits what it makes of integration.json.
Charted(s) ==
  \E A \in SUBSET External, D \in SUBSET External, X \in SUBSET Keys, Y \in SUBSET Keys :
    /\ Plan(s, A, D, Y) /\ A \cap D = {} /\ D \subseteq proj.recs
    /\ Aims(s, X) \/ (Unnamed(s) /\ X = Installed)
    /\ (proj.recs \ D) \cup A = X \cap External
    /\ A = {} /\ proj.recs = {} => Y \cap External = {}
Plotted ==
  \E kind, k, r, force, ops : Charted(ops) /\ Begin(kind, k, r, force, ops)

LEMMA ChartedBy ==
  ASSUME NEW s, NEW A \in SUBSET External, NEW D \in SUBSET External, NEW X \in SUBSET Keys,
         NEW Y \in SUBSET Keys, Plan(s, A, D, Y), A \cap D = {}, D \subseteq proj.recs,
         Aims(s, X) \/ (Unnamed(s) /\ X = Installed),
         (proj.recs \ D) \cup A = X \cap External,
         A = {} /\ proj.recs = {} => Y \cap External = {}
  PROVE  Charted(s)
BY DEF Charted

\* Where the packages agree with integration.json.
LEMMA AgreedFacts ==
  ASSUME Typed, Agreed(proj), NEW k \in Keys
  PROVE  /\ proj.recs = Installed \cap External /\ Installed \subseteq Keys
         /\ \A d : Downloads(d, k) => k \in External
         /\ \A d \in {"install", "switch"} :
              k \notin Installed => (Downloads(d, k) <=> k \in External)
         /\ \A d \in {"install", "switch"} : k \in Installed => ~ Downloads(d, k)
         /\ k \in Installed => \A d : Downloads(d, k) => k \in proj.recs
BY StateTyped DEF Agreed, Installed, Downloads

LEMMA InstallPlots ==
  ASSUME Typed, Agreed(proj), NEW k \in Keys, NEW r \in Releases, NEW force \in BOOLEAN,
         Install(k, r, force)
  PROVE  Plotted
<1> DEFINE installed == proj.json.installed
           first == IF Default = None THEN k ELSE Default
           save == <<SaveState(Append(installed, k), first, TRUE)>>
           up == SetUp(k, r)
           got == Fetched("install", k)
           X == Installed \cup {k}
           A == IF Downloads("install", k) THEN {k} ELSE {}
<1>1. ~ (k \in Installed /\ Downloads("install", k))
  BY AgreedFacts
<1>2. k \notin Installed /\ Begin("install", k, r, force, up \o save \o got)
  BY <1>1 DEF Install, MayInstall
<1>3. /\ Append(installed, k) \in Seq(Keys) /\ IsInjective(Append(installed, k))
      /\ Range(Append(installed, k)) = X /\ first \in Keys \cup {None} /\ X \in SUBSET Keys
  BY <1>2, StateTyped, AppendIn DEF Installed
<1> HIDE DEF first, installed
<1>4. Plan(save, {}, {}, X) /\ Aims(save, X)
  BY <1>3, SavePlan
<1>5. Plan(up, {}, {}, X) /\ Unnamed(up)
  BY QuietLists, QuietPlan
<1>6. Plan(got, A, {}, X) /\ Unnamed(got)
  BY PackagePlans
<1> HIDE DEF up, save, got
<1>7. Plan(up \o save, {}, {}, X) /\ Aims(up \o save, X)
  BY <1>4, <1>5, PlanJoin
<1>8. Plan(up \o save \o got, A, {}, X) /\ Aims(up \o save \o got, X)
  <2>1. Plan(up \o save, {}, {}, X)
    BY <1>7
  <2>2. Plan(up \o save \o got, A, {}, X)
    BY <1>6, <2>1, PlanJoin
  <2>3. Aims(up \o save \o got, X)
    BY <1>6, <1>7, <2>1, PlanJoin
  <2> QED BY <2>2, <2>3
<1>9. proj.recs \cup A = X \cap External /\ A \in SUBSET External
      /\ (A = {} /\ proj.recs = {} => X \cap External = {})
  BY <1>2, AgreedFacts
<1> HIDE DEF X, A
<1>10. {} \subseteq proj.recs /\ {} \in SUBSET External /\ A \cap {} = {} /\ proj.recs \ {} = proj.recs
  OBVIOUS
<1>11. Charted(up \o save \o got)
  BY <1>3, <1>8, <1>9, <1>10, ChartedBy
<1> QED BY <1>2, <1>11 DEF Plotted

LEMMA UninstallPlots ==
  ASSUME Typed, Agreed(proj), NEW k \in Keys, NEW force \in BOOLEAN, Uninstall(k, force)
  PROVE  Plotted
<1> DEFINE rest == Without(k)
           next == IF Default = k THEN First(rest) ELSE Default
           down == IF proj.man[k] = NoFiles THEN <<>> ELSE TearDown(k, proj.man[k], force)
           off == Unregister(k)
           save == <<SaveState(rest, next, FALSE)>>
           up == IF Default = k /\ next # None /\ Known(next) THEN Register(next) ELSE <<>>
           gone == Forget(k)
           X == Installed \ {k}
           D == {k} \cap proj.recs
<1>1. k \in Installed /\ Begin("uninstall", k, 0, force, down \o off \o save \o up \o gone)
  BY DEF Uninstall
<1>2. /\ rest \in Seq(Keys) /\ IsInjective(rest) /\ Range(rest) = X /\ X \subseteq Installed
      /\ next \in Keys \cup {None} /\ Installed \in SUBSET Keys
  BY StateTyped, RemoveFirstIn, FirstIn DEF Without, Installed
<1> HIDE DEF rest, next
<1>3. Plan(save, {}, {}, Installed) /\ Aims(save, X)
  BY <1>2, SavePlan
<1>4. Plan(down, {}, {}, Installed) /\ Unnamed(down) /\ Plan(off, {}, {}, Installed) /\ Unnamed(off)
  BY QuietLists, QuietPlan
<1>5. Plan(up, {}, {}, Installed) /\ Unnamed(up)
  <2>1. CASE next \in Keys
    BY <2>1, QuietLists, QuietPlan
  <2>2. CASE next = None
    BY <2>2, QuietLists, QuietPlan
  <2> QED BY <1>2, <2>1, <2>2
<1>6. Plan(gone, {}, D, Installed) /\ Unnamed(gone)
  BY PackagePlans
<1> HIDE DEF down, off, save, up, gone
<1>7. Plan(down \o off, {}, {}, Installed)
  BY <1>4, PlanJoin
<1>8. Plan(down \o off \o save, {}, {}, Installed) /\ Aims(down \o off \o save, X)
  BY <1>3, <1>7, PlanJoin
<1>9. Plan(down \o off \o save \o up, {}, {}, Installed) /\ Aims(down \o off \o save \o up, X)
  BY <1>5, <1>8, PlanJoin
<1>10. /\ Plan(down \o off \o save \o up \o gone, {}, D, Installed)
       /\ Aims(down \o off \o save \o up \o gone, X)
  <2>1. Plan(down \o off \o save \o up \o gone, {}, D, Installed)
    BY <1>6, <1>9, PlanJoin
  <2>2. Aims(down \o off \o save \o up \o gone, X)
    BY <1>6, <1>9, PlanJoin
  <2> QED BY <2>1, <2>2
<1>11. proj.recs \ D = X \cap External /\ D \in SUBSET External /\ D \subseteq proj.recs
       /\ (proj.recs = {} => Installed \cap External = {}) /\ X \in SUBSET Keys
  BY <1>1, <1>2, AgreedFacts
<1> HIDE DEF X, D
<1>12. {} \cap D = {} /\ {} \in SUBSET External /\ (proj.recs \ D) \cup {} = proj.recs \ D
  OBVIOUS
<1>13. Charted(down \o off \o save \o up \o gone)
  BY <1>2, <1>10, <1>11, <1>12, ChartedBy
<1> QED BY <1>1, <1>13 DEF Plotted

LEMMA ActivatePlan ==
  ASSUME Typed, NEW k \in Keys
  PROVE  Plan(Activate(k), {}, {}, Installed) /\ Aims(Activate(k), Installed)
<1> DEFINE save == <<SaveState(proj.json.installed, k, FALSE)>>
           look == <<Snapshot(k)>>
           reg == Register(k)
           re == Resync(Tracked(proj.man[k]))
           Y == Installed
<1>1. Plan(save, {}, {}, Y) /\ Aims(save, Y)
  BY StateTyped, SavePlan DEF Installed
<1>2. Tracked(proj.man[k]) \in SUBSET Files
  BY DEF Tracked
<1>3. /\ Plan(reg, {}, {}, Y) /\ Unnamed(reg) /\ Plan(re, {}, {}, Y) /\ Unnamed(re)
      /\ Plan(look, {}, {}, Y) /\ Unnamed(look)
  BY <1>2, QuietLists, QuietPlan
<1>4. Activate(k) = save \o look \o reg \o re
  <2>1. ASSUME NEW a, NEW b PROVE <<a>> \o <<b>> = <<a, b>>
    <3> DEFINE s == <<a>>
               t == <<b>>
               u == s \o t
    <3>1. s \in Seq({a, b}) /\ t \in Seq({a, b}) /\ Len(s) = 1 /\ Len(t) = 1 /\ s[1] = a /\ t[1] = b
      OBVIOUS
    <3> HIDE DEF s, t
    <3>2. u \in Seq({a, b}) /\ Len(u) = 2 /\ u[1] = a /\ u[2] = b
      BY <3>1, ConcatProperties
    <3> HIDE DEF u
    <3>3. u = <<a, b>>
      BY <3>2
    <3> QED BY <3>3 DEF u, s, t
  <2>2. save \o look = <<SaveState(proj.json.installed, k, FALSE), Snapshot(k)>>
    BY <2>1
  <2> HIDE DEF save, look
  <2> QED BY <2>2 DEF Activate
<1> HIDE DEF save, look, reg, re, Y
<1>5. Plan(save \o look, {}, {}, Y) /\ Aims(save \o look, Y)
  BY <1>1, <1>3, PlanJoin
<1>6. Plan(save \o look \o reg, {}, {}, Y) /\ Aims(save \o look \o reg, Y)
  BY <1>3, <1>5, PlanJoin
<1>7. Plan(save \o look \o reg \o re, {}, {}, Y) /\ Aims(save \o look \o reg \o re, Y)
  BY <1>3, <1>6, PlanJoin
<1> QED BY <1>4, <1>7 DEF Y

LEMMA UsePlots ==
  ASSUME Typed, Agreed(proj), NEW k \in Keys, Use(k) \/ SwitchToInstalled(k)
  PROVE  Plotted
<1> DEFINE act == Activate(k)
           got == Fetched("switch", k)
<1>1. /\ k \in Installed
      /\ Begin("use", k, 0, FALSE, act) \/ Begin("use", k, 0, FALSE, act \o got)
  BY DEF Use, SwitchToInstalled
<1>2. Plan(act, {}, {}, Installed) /\ Aims(act, Installed)
  BY ActivatePlan
<1>3. Plan(got, {}, {}, Installed) /\ Unnamed(got)
  <2>1. ~ Downloads("switch", k)
    BY <1>1, AgreedFacts
  <2> QED BY <2>1, PackagePlans
<1> HIDE DEF act, got
<1>4. Plan(act \o got, {}, {}, Installed) /\ Aims(act \o got, Installed)
  BY <1>2, <1>3, PlanJoin
<1>5. proj.recs = Installed \cap External /\ Installed \in SUBSET Keys
  BY AgreedFacts
<1>6. Charted(act) /\ Charted(act \o got)
  <2>1. (proj.recs \ {}) \cup {} = Installed \cap External /\ {} \subseteq proj.recs
        /\ {} \in SUBSET External /\ {} \cap {} = {}
    BY <1>5
  <2> QED BY <1>2, <1>4, <1>5, <2>1, ChartedBy
<1> QED BY <1>1, <1>6 DEF Plotted

LEMMA SwitchPlots ==
  ASSUME Typed, Agreed(proj), NEW k \in Keys, NEW r \in Releases, NEW force \in BOOLEAN,
         Switch(k, r, force)
  PROVE  Plotted
<1> DEFINE rest == Without(Default)
           down == TearDown(Default, proj.man[Default], force)
           off == Unregister(Default)
           less == <<SaveState(rest, First(rest), FALSE)>>
           gone == IF Default = None THEN <<>> ELSE down \o off \o less
           up == SetUp(k, r)
           save == <<SaveState(Append(rest, k), k, TRUE)>>
           reg == Register(k)
           re == Resync(Ships[k][r])
           got == Fetched("switch", k)
           left == IF Default = None THEN <<>> ELSE Forget(Default)
           ops == gone \o up \o save \o reg \o re \o got \o left
           X == (Installed \ {Default}) \cup {k}
           Y == Installed \cup {k}
           A == IF Downloads("switch", k) THEN {k} ELSE {}
           D == {Default} \cap proj.recs
<1>1. k \notin Installed /\ Begin("switch", k, r, force, ops)
  BY DEF Switch
<1>2. /\ rest \in Seq(Keys) /\ IsInjective(rest) /\ Range(rest) = Installed \ {Default}
      /\ First(rest) \in Keys \cup {None} /\ Default \in Keys \cup {None}
      /\ Installed \in SUBSET Keys
  BY StateTyped, RemoveFirstIn, FirstIn DEF Without, Installed
<1>3. /\ Append(rest, k) \in Seq(Keys) /\ IsInjective(Append(rest, k))
      /\ Range(Append(rest, k)) = X
  BY <1>1, <1>2, AppendIn
<1>4. Range(rest) \subseteq Y /\ X \subseteq Y /\ X \in SUBSET Keys /\ Y \in SUBSET Keys
  BY <1>2
<1> HIDE DEF rest
<1>5. Plan(save, {}, {}, Y) /\ Aims(save, X)
  BY <1>3, <1>4, SavePlan
<1>6. Plan(gone, {}, {}, Y)
  <2>1. CASE Default = None
    BY <2>1, PackagePlans
  <2>2. CASE Default \in Keys
    <3>1. Plan(down, {}, {}, Y) /\ Plan(off, {}, {}, Y)
      BY <2>2, QuietLists, QuietPlan
    <3>2. Plan(less, {}, {}, Y)
      BY <1>2, <1>4, SavePlan
    <3> HIDE DEF down, off, less, Y
    <3>3. Plan(down \o off, {}, {}, Y)
      BY <3>1, PlanJoin
    <3>4. Plan(down \o off \o less, {}, {}, Y)
      BY <3>2, <3>3, PlanJoin
    <3>5. gone = down \o off \o less
      BY <2>2, KeysAssumption
    <3> QED BY <3>4, <3>5
  <2> QED BY <1>2, <2>1, <2>2
<1>7. /\ Plan(up, {}, {}, Y) /\ Plan(reg, {}, {}, Y) /\ Unnamed(reg)
      /\ Plan(re, {}, {}, Y) /\ Unnamed(re)
  BY QuietLists, QuietPlan, FilesAssumption
<1>8. Plan(got, A, {}, Y) /\ Unnamed(got)
  BY PackagePlans
<1>9. Plan(left, {}, D, Y) /\ Unnamed(left)
  <2>1. CASE Default = None
    <3>1. D = {}
      BY <1>2, <2>1, KeysAssumption, AgreedFacts
    <3> QED BY <2>1, <3>1, PackagePlans
  <2>2. CASE Default \in Keys
    BY <2>2, PackagePlans, KeysAssumption
  <2> QED BY <1>2, <2>1, <2>2
<1> HIDE DEF gone, up, save, reg, re, got, left
<1>10. Plan(gone \o up, {}, {}, Y)
  BY <1>6, <1>7, PlanJoin
<1>11. Plan(gone \o up \o save, {}, {}, Y) /\ Aims(gone \o up \o save, X)
  BY <1>5, <1>10, PlanJoin
<1>12. Plan(gone \o up \o save \o reg, {}, {}, Y) /\ Aims(gone \o up \o save \o reg, X)
  BY <1>7, <1>11, PlanJoin
<1>13. Plan(gone \o up \o save \o reg \o re, {}, {}, Y) /\ Aims(gone \o up \o save \o reg \o re, X)
  BY <1>7, <1>12, PlanJoin
<1> DEFINE front == gone \o up \o save \o reg \o re
<1> HIDE DEF front
<1>14. Plan(front, {}, {}, Y) /\ Aims(front, X)
  BY <1>13 DEF front
<1>15. Plan(front \o got, A, {}, Y) /\ Aims(front \o got, X)
  <2>1. Plan(front \o got, A, {}, Y)
    BY <1>8, <1>14, PlanJoin
  <2>2. Aims(front \o got, X)
    BY <1>8, <1>14, PlanJoin
  <2> QED BY <2>1, <2>2
<1>16. Plan(front \o got \o left, A, D, Y) /\ Aims(front \o got \o left, X)
  <2>1. Plan(front \o got \o left, A \cup {}, {} \cup D, Y)
    BY <1>9, <1>15, PlanConcat
  <2>2. Aims(front \o got \o left, X)
    BY <1>9, <1>15, PlanConcat
  <2>3. A \cup {} = A /\ {} \cup D = D
    OBVIOUS
  <2> QED BY <2>1, <2>2, <2>3
<1>17. /\ (proj.recs \ D) \cup A = X \cap External /\ A \in SUBSET External
       /\ D \in SUBSET External /\ D \subseteq proj.recs /\ A \cap D = {}
       /\ A = {} /\ proj.recs = {} => Y \cap External = {}
  BY <1>1, AgreedFacts
<1> HIDE DEF X, A, D, Y
<1>18. Charted(ops)
  BY <1>4, <1>16, <1>17, ChartedBy DEF front
<1> HIDE DEF ops
<1> QED BY <1>1, <1>18 DEF Plotted

LEMMA UpgradePlots ==
  ASSUME Typed, Agreed(proj), NEW k \in Keys, NEW r \in Releases, NEW force \in BOOLEAN,
         Upgrade(k, r, force)
  PROVE  Plotted
<1> DEFINE up == SetUp(k, r)
           save == <<SaveState(proj.json.installed, Default, TRUE)>>
           old == Stale(k, r)
           reg == Register(k)
           re == Resync(Ships[k][r])
           on == IF k = Default THEN reg \o re ELSE <<>>
           got == Fetched("upgrade", k)
           X == Installed
           A == IF Downloads("upgrade", k) THEN {k} ELSE {}
<1>1. k \in Installed /\ Begin("upgrade", k, r, force, up \o save \o old \o on \o got)
  BY DEF Upgrade, MayUpgrade
<1>2. Plan(save, {}, {}, X) /\ Aims(save, X) /\ X \in SUBSET Keys
  BY StateTyped, SavePlan DEF Installed
<1>3. /\ Plan(up, {}, {}, X) /\ Plan(old, {}, {}, X) /\ Unnamed(old)
      /\ Plan(reg, {}, {}, X) /\ Unnamed(reg) /\ Plan(re, {}, {}, X) /\ Unnamed(re)
  BY QuietLists, QuietPlan, FilesAssumption
<1>4. Plan(got, A, {}, X) /\ Unnamed(got) /\ Plan(<<>>, {}, {}, X) /\ Unnamed(<<>>)
  BY PackagePlans
<1> HIDE DEF up, save, old, reg, re, got
<1>5. Plan(on, {}, {}, X) /\ Unnamed(on)
  <2>1. Plan(reg \o re, {}, {}, X) /\ Unnamed(reg \o re)
    BY <1>3, PlanJoin
  <2> QED BY <1>4, <2>1
<1> HIDE DEF on
<1>6. Plan(up \o save, {}, {}, X) /\ Aims(up \o save, X)
  BY <1>2, <1>3, PlanJoin
<1>7. Plan(up \o save \o old, {}, {}, X) /\ Aims(up \o save \o old, X)
  BY <1>3, <1>6, PlanJoin
<1>8. Plan(up \o save \o old \o on, {}, {}, X) /\ Aims(up \o save \o old \o on, X)
  BY <1>5, <1>7, PlanJoin
<1>9. Plan(up \o save \o old \o on \o got, A, {}, X) /\ Aims(up \o save \o old \o on \o got, X)
  <2>1. Plan(up \o save \o old \o on \o got, A, {}, X)
    BY <1>4, <1>8, PlanJoin
  <2>2. Aims(up \o save \o old \o on \o got, X)
    BY <1>4, <1>8, PlanJoin
  <2> QED BY <2>1, <2>2
<1>10. proj.recs \cup A = X \cap External /\ A \in SUBSET External
       /\ (A = {} /\ proj.recs = {} => X \cap External = {})
  BY <1>1, AgreedFacts
<1> HIDE DEF X, A
<1>11. {} \subseteq proj.recs /\ {} \in SUBSET External /\ A \cap {} = {} /\ proj.recs \ {} = proj.recs
  OBVIOUS
<1>12. Charted(up \o save \o old \o on \o got)
  BY <1>2, <1>9, <1>10, <1>11, ChartedBy
<1> QED BY <1>1, <1>12 DEF Plotted

LEMMA CommandPlots == Typed /\ Agreed(proj) /\ Command => Plotted
BY InstallPlots, UninstallPlots, UsePlots, SwitchPlots, UpgradePlots DEF Command

\* A command begins on its way to agreement.
LEMMA PlottedMatches ==
  ASSUME Typed, Agreed(proj), Plotted
  PROVE  /\ pc' = "run" /\ was' = proj /\ proj' = proj /\ scarred' = scarred
         /\ owns' => Destined(proj, todo')
         /\ ~ owns' => proj.recs = {} /\ \A i \in 1 .. Len(todo') : Local(todo'[i])
<1>1. PICK kind, k, r, force, ops : Charted(ops) /\ Begin(kind, k, r, force, ops)
  BY DEF Plotted
<1>2. /\ pc' = "run" /\ was' = proj /\ proj' = proj /\ scarred' = scarred /\ todo' = ops
      /\ owns' = (proj.recs # {} \/ \E i \in DOMAIN ops : ops[i].do = "package")
  BY <1>1 DEF Begin
<1>3. PICK A \in SUBSET External, D \in SUBSET External, X \in SUBSET Keys, Y \in SUBSET Keys :
        /\ Plan(ops, A, D, Y) /\ A \cap D = {} /\ D \subseteq proj.recs
        /\ Aims(ops, X) \/ (Unnamed(ops) /\ X = Installed)
        /\ (proj.recs \ D) \cup A = X \cap External
        /\ A = {} /\ proj.recs = {} => Y \cap External = {}
  BY <1>1 DEF Charted
<1>4. Destined(proj, ops)
  BY <1>3 DEF Destined, Plan, Agreed, Installed
<1>5. ASSUME ~ owns', NEW i \in 1 .. Len(ops)
      PROVE  Local(ops[i])
  <2>1. DOMAIN ops = 1 .. Len(ops) /\ ops[i] \in Range(ops)
    BY <1>3, LenProperties DEF Plan, Range
  <2>2. proj.recs = {} /\ \A o \in Range(ops) : o.do # "package"
    BY <1>2, <1>5 DEF Range
  <2>3. A = {} /\ D = {} /\ Y \cap External = {}
    BY <1>3, <2>2 DEF Plan, Coming
  <2>4. ops[i].do \notin PackageDos
    <3>1. \A d \in PackageDos : Coming(ops, d) = {}
      BY <1>3, <2>3 DEF Plan, PackageDos
    <3>2. \A d \in PackageDos : ops[i].do = d => ops[i].key \in Coming(ops, d)
      BY <2>1 DEF Coming
    <3> QED BY <3>1, <3>2
  <2>5. ops[i].do = "state" => Range(ops[i].value.installed) \subseteq Y
    BY <1>3, <2>1 DEF Plan
  <2> QED BY <2>3, <2>4, <2>5 DEF Local
<1> QED BY <1>2, <1>4, <1>5

\* The operations t are those of s without the first, but for operations that
\* have to do with neither packages nor integration.json.
Sheds(t, s) ==
  /\ \A d \in PackageDos :
       Coming(s, d) = Coming(t, d) \cup (IF s[1].do = d THEN {s[1].key} ELSE {})
  /\ \A X : Aims(s, X) =>
       Aims(t, X) \/ (Unnamed(t) /\ s[1].do = "state" /\ Range(s[1].value.installed) = X)
  /\ Unnamed(s) => Unnamed(t) /\ s[1].do # "state"

LEMMA ShedsFollows ==
  ASSUME NEW s \in Seq(Ops), NEW t, NEW n, Follows(t, s, n)
  PROVE  Sheds(t, s)
<1>0. /\ Len(s) \in Nat /\ Len(t) = Len(s) - n /\ n \in 1 .. Len(s)
      /\ DOMAIN s = 1 .. Len(s) /\ DOMAIN t = 1 .. Len(t) /\ 1 \in 1 .. Len(s)
  BY LenProperties DEF Follows
<1>1. ASSUME NEW i \in 1 .. Len(t)
      PROVE  i + n \in 1 .. Len(s) /\ s[i + n] = t[i]
  BY <1>0 DEF Follows
<1>2. ASSUME NEW i \in 1 .. Len(s)
      PROVE  i = 1 \/ s[i].do \in GivenUp
             \/ (i - n \in 1 .. Len(t) /\ i - n + n = i /\ t[i - n] = s[i])
  BY <1>0 DEF Follows, GivenUp
<1>3. ASSUME NEW d \in PackageDos
      PROVE  Coming(s, d) = Coming(t, d) \cup (IF s[1].do = d THEN {s[1].key} ELSE {})
  <2>1. \A o \in Range(t) : o \in Range(s)
    BY <1>0, <1>1 DEF Range
  <2>2. \A o \in Range(s) : o = s[1] \/ o.do \in GivenUp \/ o \in Range(t)
    BY <1>0, <1>2 DEF Range
  <2>3. s[1] \in Range(s) /\ d \notin GivenUp
    BY <1>0 DEF Range, PackageDos, GivenUp
  <2> QED BY <2>1, <2>2, <2>3 DEF Coming
<1>4. ASSUME NEW X, Aims(s, X)
      PROVE  Aims(t, X) \/ (Unnamed(t) /\ s[1].do = "state" /\ Range(s[1].value.installed) = X)
  <2>1. PICK i \in 1 .. Len(s) : /\ s[i].do = "state" /\ Range(s[i].value.installed) = X
                                 /\ \A j \in 1 .. Len(s) : s[j].do = "state" => j <= i
    BY <1>4 DEF Aims
  <2>2. ASSUME NEW j \in 1 .. Len(t), t[j].do = "state" PROVE j + n <= i
    BY <1>1, <2>1, <2>2
  <2>3. CASE i = 1
    <3>1. Unnamed(t)
      BY <1>0, <2>2, <2>3 DEF Unnamed
    <3> QED BY <2>1, <2>3, <3>1
  <2>4. CASE i # 1
    <3>1. i - n \in 1 .. Len(t) /\ i - n + n = i /\ t[i - n] = s[i]
      BY <1>2, <2>1, <2>4 DEF GivenUp
    <3>2. \A j \in 1 .. Len(t) : t[j].do = "state" => j <= i - n
      BY <1>0, <2>2, <3>1
    <3> QED BY <2>1, <3>1, <3>2 DEF Aims
  <2> QED BY <2>3, <2>4
<1>5. Unnamed(s) => Unnamed(t) /\ s[1].do # "state"
  BY <1>0, <1>1 DEF Unnamed
<1> QED BY <1>3, <1>4, <1>5 DEF Sheds

\* Nothing changes when only a manifest is still to be saved.
LEMMA ShedsMore ==
  ASSUME NEW s, NEW t \in Seq(Ops), NEW k \in Keys, Sheds(t, s)
  PROVE  Sheds(t \o <<Resave(k)>>, s)
<1> DEFINE x == <<Resave(k)>>
           u == t \o x
           d(e) == Coming(t, e)
<1>1. Resave(k) \in QuietOps
  BY MetadataOpsTyped DEF QuietOps, Resave, PackageDos
<1>2. x \in Seq(QuietOps)
  BY <1>1
<1> HIDE DEF x
<1>3. x \in Seq(Ops) /\ Unnamed(x) /\ Plan(x, {}, {}, {})
  BY <1>2, QuietPlan DEF Plan
<1>4. Joined(u, t, x) /\ Range(u) = Range(t) \cup Range(x)
  BY <1>3, ConcatElements, RangeConcatenation
<1>5. \A e \in PackageDos : Coming(u, e) = Coming(t, e)
  <2>1. \A e \in PackageDos : Coming(x, e) = {}
    BY <1>3 DEF Plan, PackageDos
  <2> QED BY <1>4, <2>1 DEF Coming
<1> HIDE DEF u
<1>6. Unnamed(t) => Unnamed(u)
  BY <1>3, <1>4 DEF Joined, Unnamed
<1>7. ASSUME NEW X, Aims(t, X) PROVE Aims(u, X)
  <2>1. PICK i \in 1 .. Len(t) : /\ t[i].do = "state" /\ Range(t[i].value.installed) = X
                                 /\ \A j \in 1 .. Len(t) : t[j].do = "state" => j <= i
    BY <1>7 DEF Aims
  <2>2. i \in 1 .. Len(u) /\ u[i] = t[i]
    BY <1>4 DEF Joined
  <2>3. ASSUME NEW j \in 1 .. Len(u), u[j].do = "state" PROVE j <= i
    <3>1. j \in 1 .. Len(t)
      BY <1>3, <1>4, <2>3 DEF Joined, Unnamed
    <3> QED BY <1>4, <2>1, <2>3, <3>1 DEF Joined
  <2> QED BY <2>1, <2>2, <2>3 DEF Aims
<1>8. Sheds(u, s)
  BY <1>5, <1>6, <1>7 DEF Sheds
<1> QED BY <1>8 DEF u, x

\* What an operation does to packages, records and integration.json.
Does(p, q, o) ==
  /\ q.pkgs = (p.pkgs \ IF o.do = "unpackage" THEN {o.key} ELSE {})
                \cup IF o.do = "package" THEN {o.key} ELSE {}
  /\ q.recs = (p.recs \ IF o.do = "unrecord" THEN {o.key} ELSE {})
                \cup IF o.do = "record" THEN {o.key} ELSE {}
  /\ q.json = IF o.do = "state" THEN o.value ELSE p.json

LEMMA DestinedOnward ==
  ASSUME NEW p, NEW q, NEW s, NEW t, Sheds(t, s), Does(p, q, s[1]), Destined(p, s)
  PROVE  Destined(q, t)
<1> DEFINE o == s[1]
           C(d) == Coming(t, d)
<1>1. PICK X \in SUBSET Keys :
        /\ Aims(s, X) \/ (Unnamed(s) /\ X = Range(p.json.installed))
        /\ (p.pkgs \ Coming(s, "unpackage")) \cup Coming(s, "package") = X \cap External
        /\ (p.recs \ Coming(s, "unrecord")) \cup Coming(s, "record") = X \cap External
  BY DEF Destined
<1>2. /\ Coming(s, "package") \cap Coming(s, "unpackage") = {}
      /\ Coming(s, "record") \cap Coming(s, "unrecord") = {}
  BY DEF Destined
<1>3. /\ Coming(s, "package") = C("package") \cup (IF o.do = "package" THEN {o.key} ELSE {})
      /\ Coming(s, "unpackage") = C("unpackage") \cup (IF o.do = "unpackage" THEN {o.key} ELSE {})
      /\ Coming(s, "record") = C("record") \cup (IF o.do = "record" THEN {o.key} ELSE {})
      /\ Coming(s, "unrecord") = C("unrecord") \cup (IF o.do = "unrecord" THEN {o.key} ELSE {})
  BY DEF Sheds, PackageDos
<1>4. Aims(t, X) \/ (Unnamed(t) /\ X = Range(q.json.installed))
  BY <1>1 DEF Sheds, Does
<1>5. (q.pkgs \ C("unpackage")) \cup C("package") = X \cap External
  <2> HIDE DEF C
  <2> QED BY <1>1, <1>2, <1>3 DEF Does
<1>6. (q.recs \ C("unrecord")) \cup C("record") = X \cap External
  <2> HIDE DEF C
  <2> QED BY <1>1, <1>2, <1>3 DEF Does
<1>7. C("package") \cap C("unpackage") = {} /\ C("record") \cap C("unrecord") = {}
  BY <1>2, <1>3
<1> QED BY <1>4, <1>5, <1>6, <1>7 DEF Destined

\* An operation stopped half way changes packages and integration.json only if
\* it is about them.
LEMMA HalfwayKeepsStore ==
  ASSUME Typed, todo # <<>>, Touches, NEW q \in Halfway, Op.do \notin PackageDos \cup {"state"}
  PROVE  q.pkgs = proj.pkgs /\ q.recs = proj.recs /\ q.json = proj.json
<1>0. Op \in Ops /\ SameBut(q, proj, {Op.at}) /\ q \in Stores /\ proj \in Stores
  BY HeadIsOp, HalfwayIsLimited DEF Typed, Control, Effects, Limited
<1>1. /\ Op.at # StateFile /\ Op.at # RecordFile /\ \A k \in External : Op.at # PackageDir(k)
  BY <1>0, OpFacts, FilesApart, MetadataApart
     DEF FileOp, ManifestOp, StateOp, PkgOp, RecOp, CoverOp, PackageDos
<1>2. \A k \in External : k \in q.pkgs <=> k \in proj.pkgs
  BY <1>0, <1>1 DEF SameBut
<1> QED BY <1>0, <1>1, <1>2, StoreParts DEF SameBut

LEMMA CompletedDoes ==
  ASSUME Typed, todo # <<>>, Touches
  PROVE  Does(proj, Completed, Op)
<1>0. Op \in Ops /\ proj \in Stores
  BY HeadIsOp DEF Typed, Control, Effects
<1>1. CASE Op.do \notin PackageDos \cup {"state"}
  <2>1. Completed.pkgs = proj.pkgs /\ Completed.recs = proj.recs /\ Completed.json = proj.json
    BY <1>1, CompletedIsHalfway, HalfwayKeepsStore
  <2> QED BY <1>1, <2>1 DEF Does, PackageDos
<1>2. CASE Op.do = "state"
  BY <1>0, <1>2 DEF Does, Completed, Stores, Project
<1>3. CASE Op.do \in {"package", "unpackage"}
  BY <1>0, <1>3 DEF Does, Completed, Stores, Project
<1>4. CASE Op.do \in {"record", "unrecord"}
  BY <1>0, <1>4 DEF Does, Completed, Stores, Project
<1> QED BY <1>1, <1>2, <1>3, <1>4 DEF PackageDos

SameStore(p, q) == q.pkgs = p.pkgs /\ q.recs = p.recs /\ q.json = p.json

\* A step of a transaction does the next operation, or does without it, or
\* changes nothing that matters here.
LEMMA TransactionMoves ==
  ASSUME Typed, Routed, Revives, [Next]_vars, owns, pc = "run", pc' = "run"
  PROVE  \/ todo' = todo /\ SameStore(proj, proj')
         \/ todo # <<>> /\ Sheds(todo', todo) /\ Does(proj, proj', todo[1])
<1>0. todo \in Seq(Ops) /\ proj \in Stores
  BY DEF Typed, Control, Effects
<1>1. ASSUME todo # <<>>
      PROVE  /\ todo[1] = Op /\ Sheds(Tail(todo), todo) /\ Sheds(AfterFailure, todo)
             /\ Tail(todo) \in Seq(Ops)
  <2>1. todo[1] = Op /\ Follows(Tail(todo), todo, 1) /\ Tail(todo) \in Seq(Ops)
    BY <1>0, <1>1, TailFollows, FirstElement, HeadIsOp
  <2>2. PICK n \in 1 .. Len(todo) : Follows(AfterFailure, todo, n)
    BY <1>0, <1>1, AfterFailureFollows
  <2>3. Sheds(AfterFailure, todo)
    BY <1>0, <2>2, ShedsFollows
  <2> QED BY <1>0, <2>1, <2>3, ShedsFollows
<1>2. ASSUME SameStore(proj, proj'), Op.do \notin PackageDos \cup {"state"}
      PROVE  Does(proj, proj', Op)
  <2>1. /\ Op.do # "package" /\ Op.do # "unpackage" /\ Op.do # "record" /\ Op.do # "unrecord"
        /\ Op.do # "state"
    BY <1>2 DEF PackageDos
  <2> QED BY <1>2, <2>1 DEF SameStore, Does
<1>3. CASE Command
  BY <1>3, CommandBegins DEF Begins, Begin
<1>4. CASE Announce
  BY <1>4 DEF Announce, SameStore
<1>5. CASE Perform
  <2>1. todo # <<>> /\ Touches /\ proj' = Completed /\ todo' = Tail(todo)
    BY <1>5 DEF Perform, InFlight, Busy, Proceed
  <2> QED BY <1>1, <2>1, CompletedDoes
<1>6. CASE Pass
  <2>1. todo # <<>> /\ Vain /\ SameStore(proj, proj') /\ todo' = Tail(todo)
    BY <1>6 DEF Pass, Busy, Proceed, SameStore
  <2>2. Op.do \notin PackageDos \cup {"state"}
    BY <2>1 DEF Vain, PackageDos
  <2> QED BY <1>1, <1>2, <2>1, <2>2
<1>7. CASE TakeSnapshot
  <2>1. todo # <<>> /\ Op.do = "snapshot" /\ SameStore(proj, proj') /\ todo' = Tail(todo)
    BY <1>7 DEF TakeSnapshot, Busy, SameStore
  <2> QED BY <1>1, <1>2, <2>1 DEF PackageDos
<1>8. CASE Rehash
  <2>1. Busy /\ todo # <<>> /\ Op.do = "rehash" /\ SameStore(proj, proj')
        /\ (todo' = Tail(todo) \/ todo' = Tail(todo) \o Resaves(Op.at))
    BY <1>8 DEF Rehash, Busy, SameStore
  <2>2. Tail(todo) \o <<>> = Tail(todo)
    BY <1>1, <2>1, ConcatEmptySeq
  <2>3. Sheds(todo', todo)
    BY <1>1, <2>1, <2>2, ResavesTyped, ShedsMore
  <2> QED BY <1>1, <1>2, <2>1, <2>3 DEF PackageDos
<1>9. CASE Refuse \/ Fails
  <2>1. todo # <<>> /\ Touches
    BY <1>9 DEF Refuse, Fails, InFlight, Busy
  <2>2. BestEffort
    BY <1>9 DEF Refuse, Fails, Raise
  <2>3. Op.do \notin PackageDos \cup {"state"} /\ todo' = AfterFailure
    BY <1>9, <2>2 DEF Refuse, Fails, Proceed, BestEffort, PackageDos
  <2>4. proj' \in Halfway
    BY <1>9, <2>2, CompletedIsHalfway DEF Refuse, Fails
  <2>5. SameStore(proj, proj')
    BY <2>1, <2>3, <2>4, HalfwayKeepsStore DEF SameStore
  <2> QED BY <1>1, <1>2, <2>1, <2>3, <2>5
<1>10. CASE Interrupted
  BY <1>10 DEF Interrupted
<1>11. CASE RollBack \/ Finish \/ RollBackFails \/ Killed
  BY <1>11 DEF RollBack, Finish, RollBackFails, Killed, Ends
<1>12. ASSUME NEW f \in Files, NEW c \in Written, Edit(f, c) \/ EditMeanwhile(f, c)
       PROVE  todo' = todo /\ SameStore(proj, proj')
  <2>1. todo' = todo /\ proj' = [proj EXCEPT !.disk[f] = c]
    BY <1>12 DEF Edit, EditMeanwhile
  <2> QED BY <1>0, <2>1 DEF SameStore, Stores, Project
<1>13. CASE UNCHANGED vars
  BY <1>13 DEF vars, SameStore
<1> QED BY <1>3, <1>4, <1>5, <1>6, <1>7, <1>8, <1>9, <1>10, <1>11, <1>12, <1>13
        DEF Next, Step, GoesWrong, Others, Rest

AllLocal(s) == \A i \in 1 .. Len(s) : Local(s[i])

\* Without a transaction a command leaves the packages and their records alone.
LEMMA LocalStore ==
  ASSUME Typed, Routed, [Next]_vars, ~ owns, pc # "idle", AllLocal(todo),
         Agreed(proj), proj.recs = {}
  PROVE  Agreed(proj') /\ proj'.recs = {}
<1>0. todo \in Seq(Ops) /\ proj \in Stores
  BY DEF Typed, Control, Effects
<1>1. CASE InFlight /\ proj' \in Halfway
  <2>1. todo # <<>> /\ Touches /\ Op \in Ops /\ Local(Op)
    BY <1>0, <1>1, HeadIsOp, FirstElement DEF InFlight, Busy, AllLocal
  <2>2. CASE Op.do # "state"
    <3>1. SameStore(proj, proj')
      BY <1>1, <2>1, <2>2, HalfwayKeepsStore DEF SameStore, Local
    <3> QED BY <3>1 DEF SameStore, Agreed
  <2>3. CASE Op.do = "state"
    <3>1. Range(Nothing.installed) = {}
      BY DEF Nothing, Range
    <3>2. /\ proj'.pkgs = proj.pkgs /\ proj'.recs = proj.recs
          /\ proj'.json \in {proj.json, Op.value, Nothing}
      <4>1. proj' \in {proj, [proj EXCEPT !.json = Op.value, !.readable = TRUE],
                       [proj EXCEPT !.json = Nothing, !.readable = FALSE]}
        BY <1>1, <2>3 DEF Halfway, Completed
      <4> QED BY <1>0, <4>1 DEF Stores, Project
    <3>3. Range(Op.value.installed) \cap External = {}
      BY <2>1, <2>3 DEF Local
    <3> QED BY <3>1, <3>2, <3>3 DEF Agreed
  <2> QED BY <2>2, <2>3
<1>2. ASSUME NEW f \in Files, NEW c \in Written, proj' = [proj EXCEPT !.disk[f] = c]
      PROVE  Agreed(proj') /\ proj'.recs = {}
  BY <1>0, <1>2 DEF Agreed, Stores, Project
<1>3. pc # "rollback"
  BY DEF Routed
<1> QED BY <1>1, <1>2, <1>3, ProjShape

LEMMA CleanUpLocal ==
  ASSUME Typed, cmd.key \in Keys, was.recs = {}, Agreed(was)
  PROVE  AllLocal(CleanUp)
<1> DEFINE C == {o \in Ops : Local(o)}
           installed == IF cmd.kind = "install" THEN was.json.installed
                        ELSE RemoveFirst(was.json.installed, was.json.default)
           default == IF cmd.kind = "install" THEN was.json.default ELSE First(installed)
           down == TearDown(cmd.key, new, TRUE)
           save == <<SaveState(installed, default, FALSE)>>
           look == <<Snapshot(default)>>
           reg == Register(default)
           re == Resync(Tracked(proj.man[default]))
           back == IF cmd.kind = "install" \/ default = None THEN <<>> ELSE look \o reg \o re
<1>0. was.json \in Proper /\ new \in Hashes
      /\ proj.man \in [Keys -> Hashes]
  BY StoreParts DEF Typed, Control, Effects
<1>1. /\ installed \in Seq(Keys) /\ IsInjective(installed) /\ default \in Keys \cup {None}
      /\ Range(installed) \subseteq Range(was.json.installed)
  BY <1>0, RemoveFirstIn, FirstIn DEF Proper, State
<1>2. Range(installed) \cap External = {}
  BY <1>1 DEF Agreed
<1> HIDE DEF installed, default
<1>3. QuietOps \subseteq C
  BY DEF QuietOps, Local
<1>4. SaveState(installed, default, FALSE) \in C
  <2>1. SaveState(installed, default, FALSE) \in Ops
    BY <1>1, StateOpTyped
  <2>2. /\ SaveState(installed, default, FALSE).do = "state"
        /\ SaveState(installed, default, FALSE).value.installed = installed
    BY DEF SaveState
  <2> QED BY <1>2, <2>1, <2>2 DEF Local, PackageDos
<1>5. down \in Seq(C)
  <2>1. \A o \in Ops : o.do \notin PackageDos \cup {"state"} => o \in C
    BY DEF Local
  <2>2. DropManifest(cmd.key) \in C
    BY <2>1, MetadataOpsTyped DEF DropManifest, PackageDos
  <2>3. \A f \in Tracked(new) : new[f] \in Contents /\ f \in Files
    BY <1>0 DEF Tracked, Hashes
  <2>4. \A f \in Tracked(new) : DropOp(f, new[f], TRUE) \in C
    BY <2>1, <2>3, FileOpsTyped DEF DropOp, PackageDos
  <2> HIDE DEF C
  <2> QED BY <2>2, <2>4, TearDownIn
<1> HIDE DEF C
<1>6. save \in Seq(C)
  BY <1>4, TupleIn
<1>7. back \in Seq(C)
  <2>1. CASE default \in Keys
    <3>1. Tracked(proj.man[default]) \in SUBSET Files
      BY DEF Tracked
    <3>2. look \in Seq(QuietOps) /\ reg \in Seq(QuietOps) /\ re \in Seq(QuietOps)
      BY <2>1, <3>1, QuietLists
    <3> HIDE DEF look, reg, re
    <3>3. look \o reg \o re \in Seq(QuietOps)
      BY <3>2, ConcatIn
    <3> QED BY <1>3, <3>3, SeqMonotonic, EmptySeq
  <2>2. CASE default = None
    BY <2>2, EmptySeq
  <2> QED BY <1>1, <2>1, <2>2
<1> HIDE DEF down, save, back
<1>8. down \o save \o back \in Seq(C)
  BY <1>5, <1>6, <1>7, ConcatIn
<1>9. CleanUp = down \o save \o back
  BY DEF CleanUp, down, save, back, installed, default
<1>10. \A i \in 1 .. Len(CleanUp) : CleanUp[i] \in C
  BY <1>8, <1>9, ElementsIn
<1> QED BY <1>10 DEF C, AllLocal

LEMMA LocalKept ==
  ASSUME Typed, Routed, Revives, [Next]_vars, ~ owns, pc # "idle", pc' # "idle",
         AllLocal(todo), was.recs = {}, Agreed(was)
  PROVE  AllLocal(todo')
<1>0. todo \in Seq(Ops)
  BY DEF Typed, Control
<1>1. CASE Waits
  BY <1>1 DEF Waits
<1>2. CASE Advances
  <2>1. PICK n \in 1 .. Len(todo) : Follows(todo', todo, n)
    BY <1>2 DEF Advances
  <2> QED BY <1>0, <2>1, RestElements DEF AllLocal
<1>3. CASE TakeSnapshot
  <2>1. todo # <<>> /\ todo' = Tail(todo)
    BY <1>3 DEF TakeSnapshot, Busy
  <2> QED BY <1>0, <2>1, TailFollows, RestElements DEF AllLocal
<1>4. CASE Rehash
  <2>1. \A j \in 1 .. Len(todo') : todo'[j].do = "resave" => Local(todo'[j])
    BY DEF Local, PackageDos
  <2> QED BY <1>4, <2>1, RehashRest DEF AllLocal
<1>5. CASE Falls
  <2>1. todo' = CleanUp /\ cmd.key \in Keys
    BY <1>5 DEF Falls, Routed, HasKey
  <2>2. AllLocal(CleanUp)
    BY <2>1, CleanUpLocal
  <2> QED BY <2>1, <2>2 DEF AllLocal
<1>6. ~ TurnsBack
  BY RoutedKept DEF TurnsBack, Fixed, Routed
<1> QED BY <1>1, <1>2, <1>3, <1>4, <1>5, <1>6, StepShape

\* A transaction that ends agrees with itself, unless it is scarred.
LEMMA TransactionEnds ==
  ASSUME Typed, Routed, Traced, [Next]_vars, owns, pc # "idle", pc' = "idle", ~ scarred',
         Agreed(was), pc = "run" => Destined(proj, todo)
  PROVE  Agreed(proj')
<1>1. CASE Command
  BY <1>1, CommandBegins DEF Begins, Begin
<1>2. CASE Finish
  <2>1. pc = "run" /\ todo = <<>> /\ proj' = proj
    BY <1>2 DEF Finish, Routed
  <2>2. Destined(proj, <<>>)
    BY <2>1
  <2>3. /\ \A d : Coming(<<>>, d) = {}
        /\ \A X : ~ Aims(<<>>, X)
    BY DEF Coming, Aims, Range
  <2>4. /\ proj.pkgs = Range(proj.json.installed) \cap External
        /\ proj.recs = Range(proj.json.installed) \cap External
    BY <2>2, <2>3 DEF Destined
  <2> QED BY <2>1, <2>4 DEF Agreed
<1>3. CASE RollBack
  <2>1. \A p \in Conflicts : p \in Files
    BY <1>3 DEF RollBack, Metadata
  <2>2. /\ StateFile \notin Conflicts /\ RecordFile \notin Conflicts
        /\ \A k \in External : PackageDir(k) \notin Conflicts
    BY <2>1, FilesApart
  <2>3. /\ proj'.json = was.json /\ proj'.recs = was.recs
        /\ \A k \in External : k \in proj'.pkgs <=> k \in was.pkgs
    BY <1>3, <2>2, RolledBackMetadata
  <2>4. was.pkgs \subseteq External /\ proj'.pkgs \subseteq External
    <3>1. proj' = Restored(Journaled)
      BY <1>3 DEF RollBack
    <3>2. Restored(Journaled) \in Stores
      BY RestoredTyped
    <3> QED BY <3>1, <3>2, StoreParts DEF Typed, Control
  <2>5. proj'.pkgs = was.pkgs
    BY <2>3, <2>4
  <2> QED BY <2>3, <2>5 DEF Agreed
<1>4. CASE RollBackFails \/ Killed
  BY <1>4 DEF RollBackFails, Killed
<1>5. CASE Refuse \/ Fails \/ Interrupted
  <2>1. owns => pc' = pc \/ pc' = "rollback"
    BY <1>5 DEF Refuse, Fails, Interrupted, Raise, Proceed
  <2> QED BY <2>1
<1>6. CASE Announce \/ Perform \/ Pass \/ TakeSnapshot \/ Rehash
  BY <1>6 DEF Announce, Perform, Pass, TakeSnapshot, Rehash, Proceed
<1>7. CASE Others
  BY <1>7 DEF Others, Edit, EditMeanwhile
<1>8. CASE UNCHANGED vars
  BY <1>8 DEF vars
<1> QED BY <1>1, <1>2, <1>3, <1>4, <1>5, <1>6, <1>7, <1>8 DEF Next, Step, GoesWrong, Rest

LEMMA MatchingKept ==
  ASSUME Typed, Routed, Revives, Traced, Matching, [Next]_vars
  PROVE  Matching'
<1>1. CASE pc = "idle"
  <2>1. CASE Command
    <3>1. CASE scarred
      <4>1. scarred'
        BY <2>1, <3>1, CommandBegins DEF Begins, Begin
      <4> QED BY <4>1 DEF Matching
    <3>2. CASE ~ scarred
      <4>1. Agreed(proj)
        BY <1>1, <3>2 DEF Matching
      <4>2. /\ pc' = "run" /\ was' = proj /\ proj' = proj
            /\ owns' => Destined(proj, todo')
            /\ ~ owns' => proj.recs = {} /\ \A i \in 1 .. Len(todo') : Local(todo'[i])
        BY <2>1, <4>1, CommandPlots, PlottedMatches
      <4> QED BY <4>1, <4>2 DEF Matching
    <3> QED BY <3>1, <3>2
  <2>2. ASSUME NEW f \in Files, NEW c \in Written, Edit(f, c)
        PROVE  Matching'
    <3>1. pc' = "idle" /\ scarred' = scarred /\ proj' = [proj EXCEPT !.disk[f] = c]
      BY <2>2 DEF Edit, history
    <3>2. Agreed(proj) => Agreed(proj')
      BY <3>1 DEF Agreed, Typed, Effects, Stores, Project
    <3> QED BY <1>1, <3>1, <3>2 DEF Matching
  <2>3. CASE UNCHANGED vars
    <3>1. pc' = pc /\ scarred' = scarred /\ proj' = proj
      BY <2>3 DEF vars, history
    <3> QED BY <1>1, <3>1 DEF Matching
  <2>4. CASE Step \/ GoesWrong
    BY <1>1, <2>4 DEF Step, GoesWrong, Announce, Perform, Pass, TakeSnapshot, Rehash, Refuse, RollBack,
               Finish, Fails, Interrupted, RollBackFails, Killed, InFlight, Busy, Fault
  <2> QED BY <1>1, <2>1, <2>2, <2>3, <2>4 DEF Next, Rest, Others, EditMeanwhile
<1>2. CASE pc # "idle"
  <2>0. was' = was /\ owns' = owns /\ (scarred => scarred')
    BY <1>2, RunningShape
  <2>1. SUFFICES ASSUME ~ scarred'
                 PROVE  /\ pc' = "idle" => Agreed(proj')
                        /\ pc' # "idle" => Agreed(was)
                        /\ pc' # "idle" /\ ~ owns =>
                             Agreed(proj') /\ proj'.recs = {} /\ was.recs = {} /\ AllLocal(todo')
                        /\ pc' = "run" /\ owns => Destined(proj', todo')
    BY <2>0 DEF Matching, AllLocal
  <2>2. /\ Agreed(was)
        /\ ~ owns => Agreed(proj) /\ proj.recs = {} /\ was.recs = {} /\ AllLocal(todo)
        /\ pc = "run" /\ owns => Destined(proj, todo)
    BY <1>2, <2>0, <2>1 DEF Matching, AllLocal
  <2>3. CASE ~ owns
    <3>1. Agreed(proj') /\ proj'.recs = {}
      BY <1>2, <2>2, <2>3, LocalStore
    <3>2. pc' # "idle" => AllLocal(todo')
      BY <1>2, <2>2, <2>3, LocalKept
    <3> QED BY <2>2, <2>3, <3>1, <3>2
  <2>4. CASE owns
    <3>1. pc' = "idle" => Agreed(proj')
      BY <1>2, <2>1, <2>2, <2>4, TransactionEnds
    <3>2. ASSUME pc' = "run" PROVE Destined(proj', todo')
      <4>1. pc = "run"
        <5>1. pc \in {"run", "rollback"}
          BY <1>2, <2>4 DEF Routed, Typed, Control
        <5>2. ~ TurnsBack /\ (Waits \/ Advances \/ TakeSnapshot \/ Rehash \/ Falls)
          BY <1>2, <3>2, StepShape DEF TurnsBack
        <5> QED BY <3>2, <5>1, <5>2 DEF Waits, Advances, TakeSnapshot, Rehash, Falls, Busy
      <4>2. CASE todo' = todo /\ SameStore(proj, proj')
        BY <2>2, <2>4, <4>1, <4>2 DEF SameStore, Destined
      <4>3. CASE todo # <<>> /\ Sheds(todo', todo) /\ Does(proj, proj', todo[1])
        BY <2>2, <2>4, <4>1, <4>3, DestinedOnward
      <4> QED BY <2>4, <3>2, <4>1, <4>2, <4>3, TransactionMoves
    <3> QED BY <2>2, <2>4, <3>1, <3>2
  <2> QED BY <2>3, <2>4
<1> QED BY <1>1, <1>2

-----------------------------------------------------------------------------
(* Theorems *)

LEMMA TypedKept ==
  ASSUME Typed, Routed, Revives, [Next]_vars
  PROVE  Typed'
<1>1. CASE Command
  BY <1>1, CommandBegins, BeginsTyped
<1>2. CASE Step
  BY <1>2, AnnounceTyped, PerformTyped, PassTyped, TakeSnapshotTyped, RehashTyped, RefuseTyped,
     EndingsTyped DEF Step
<1>3. CASE GoesWrong
  BY <1>3, FailsTyped, InterruptedTyped, EndingsTyped DEF GoesWrong
<1>4. CASE Others
  BY <1>4, EditsTyped DEF Others
<1>5. CASE UNCHANGED vars
  <2>1. Control'
    BY <1>5 DEF vars, journal, result, Typed, Control, Journaled
  <2>2. Effects'
    BY <1>5 DEF vars, result, history, Typed, Effects
  <2> QED BY <2>1, <2>2 DEF Typed
<1> QED BY <1>1, <1>2, <1>3, <1>4, <1>5 DEF Next, Rest

IInv ==
  /\ Typed /\ Routed /\ Revives /\ Newcomer /\ Confined /\ Fitting
  /\ Sighted /\ Checked /\ Witnessed /\ Traced
  /\ FailedIsUndone /\ Spared /\ Visible /\ Matching

LEMMA InitIInv == Init => IInv
<1> SUFFICES ASSUME Init PROVE IInv
  OBVIOUS
<1>1. <<>> \in Seq(Paths) /\ <<>> \in Seq(Keys) /\ <<>> \in Seq(Ops) /\ NoFiles \in Hashes
  BY EmptySeq, ContentFacts DEF ContainsMore
<1>2. IsInjective(<<>>) /\ Range(<<>>) = {}
  BY DEF IsInjective, ContainsMore, Range
<1>3. proj \in Stores
  <2>1. Nothing \in State
    BY <1>1 DEF Nothing, State
  <2>2. proj \in Project
    BY <1>1, <2>1 DEF Init, Project
  <2> QED BY <1>2, <2>2 DEF Init, Stores, Nothing
<1>4. Control
  BY <1>1, <1>2, <1>3 DEF Init, Control, Kinds, Journaled
<1>5. Effects
  BY <1>1, <1>3 DEF Init, Effects
<1>6. Typed
  BY <1>4, <1>5 DEF Typed
<1>7. Routed /\ Revives /\ Newcomer /\ Fitting /\ Checked /\ Witnessed /\ Traced
  BY DEF Init, Routed, HasKey, Revives, Newcomer, Fitting, Checked, Witnessed, Traced
<1>8. Confined
  BY DEF Init, Confined
<1>9. Sighted /\ FailedIsUndone /\ Spared /\ Visible
  BY DEF Init, Sighted, FailedIsUndone, Spared, Visible, Ended
<1>10. Matching
  <2>1. Agreed(proj) /\ pc = "idle"
    BY <1>2 DEF Init, Agreed, Nothing
  <2> QED BY <2>1 DEF Matching
<1> QED BY <1>6, <1>7, <1>8, <1>9, <1>10 DEF IInv

LEMMA NextIInv == IInv /\ [Next]_vars => IInv'
<1> SUFFICES ASSUME IInv, [Next]_vars PROVE IInv'
  OBVIOUS
<1>1. /\ Typed /\ Routed /\ Revives /\ Newcomer /\ Confined /\ Fitting
      /\ Sighted /\ Checked /\ Witnessed /\ Traced
      /\ FailedIsUndone /\ Spared /\ Visible /\ Matching
  BY DEF IInv
<1>3. Typed' /\ Routed' /\ Revives' /\ Newcomer'
  BY <1>1, TypedKept, RoutedKept, RevivesKept, NewcomerKept
<1>4. Confined' /\ Fitting' /\ Sighted'
  BY <1>1, ConfinedKept, FittingKept, SightedKept
<1>5. Checked' /\ Witnessed' /\ Traced' /\ FailedIsUndone'
  BY <1>1, CheckedKept, WitnessedKept, TracedKept, UndoneKept
<1>6. Spared' /\ Visible' /\ Matching'
  BY <1>1, SparedKept, VisibleKept, MatchingKept
<1> QED BY <1>3, <1>4, <1>5, <1>6 DEF IInv

\* The inductive invariant.
THEOREM IInvHolds == Spec => []IInv
BY InitIInv, NextIInv, PTL DEF Spec

\* A transaction that fails has undone everything but what others wrote.
THEOREM FailuresAreUndone == Spec => []FailedIsUndone
<1>1. IInv => FailedIsUndone
  BY DEF IInv
<1> QED BY <1>1, IInvHolds, PTL

\* Types; an integration is installed once and a path journaled once.
THEOREM TypesHold == Spec => []TypeOK
<1>1. IInv => TypeOK
  <2> SUFFICES ASSUME IInv PROVE TypeOK
    OBVIOUS
  <2>1. Typed /\ blind \subseteq touched
    BY DEF IInv, Sighted
  <2>2. \A i \in DOMAIN todo : todo[i].at \in Paths
    <3>1. todo \in Seq(Ops) /\ DOMAIN todo = 1 .. Len(todo)
      BY <2>1, LenProperties DEF Typed, Control
    <3> QED BY <3>1, ElementOfSeq, OpFacts
  <2>3. Journaled \subseteq Paths
    BY <2>1, JournaledPaths
  <2>4. proj \in Project /\ was \in Project
        /\ IsInjective(proj.json.installed)
    BY <2>1 DEF Typed, Control, Effects, Stores
  <2> QED BY <2>1, <2>2, <2>3, <2>4 DEF TypeOK, Typed, Control, Effects
<1> QED BY <1>1, IInvHolds, PTL

\* A command without --force leaves the files that the user modified.
THEOREM EditsSurviveHolds == Spec => []EditsSurvive
<1>1. IInv => EditsSurvive
  BY DEF IInv, Spared, EditsSurvive, Precious, Stands
<1> QED BY <1>1, IInvHolds, PTL

\* A modified file that is left as it was stays known to be modified.
THEOREM EditsStayVisibleHolds == Spec => []EditsStayVisible
<1>1. IInv => EditsStayVisible
  BY DEF IInv, Visible, EditsStayVisible
<1> QED BY <1>1, IInvHolds, PTL

\* Between commands the packages, their records and integration.json agree.
THEOREM PackagesMatchHolds == Spec => []PackagesMatch
<1>1. IInv => PackagesMatch
  BY DEF IInv, Matching, Agreed, PackagesMatch, Installed
<1> QED BY <1>1, IInvHolds, PTL

-----------------------------------------------------------------------------
(* What a command that succeeds works towards *)

\* A state of integration.json whose default integration is one of those installed.
Sane(v) ==
  IF Range(v.installed) = {} THEN v.default = None ELSE v.default \in Range(v.installed)

\* The integration for which the command c registers the overrides of presets.
Heir(c, p) ==
  IF c.kind # "uninstall" THEN c.key
  ELSE IF p.json.default = c.key THEN First(RemoveFirst(p.json.installed, c.key))
  ELSE p.json.default

\* The state that the command c on project p is to end with.
Names(c, p, v) ==
  /\ c.kind \in {"use", "switch", "uninstall"} => v.default = Heir(c, p)
  /\ \A k \in Leavers(c, p) : k \notin Range(v.installed)
  /\ SetsUp(c, p) => c.key \in Range(v.installed)

\* The files that go with a command.
Doomed(c, p) ==
  {f \in Files : \/ /\ \E k \in Leavers(c, p) : f \in Tracked(p.man[k])
                    /\ SetsUp(c, p) => f \notin Shipped(c)
                 \/ /\ c.kind = "upgrade" /\ f \in Tracked(p.man[c.key])
                    /\ f \notin Ships[c.key][c.rel]}

\* Operations that neither bring back what goes nor undo what is set up.
Apt(c, p, o) ==
  /\ o.do = "put" => o.at \notin Doomed(c, p)
  /\ o.do = "overlay" /\ o.at \in Doomed(c, p) =>
       Heir(c, p) # None /\ o.at \in Overrides[Heir(c, p)]
  /\ c.kind = "uninstall" => o.do \notin {"put", "manifest", "resave", "rehash"}
  /\ o.do = "state" => Sane(o.value)
  /\ SetsUp(c, p) =>
       /\ o.do \in {"put", "rehash"} => o.at \in Shipped(c)
       /\ o.do = "dropManifest" => o.key # c.key
       /\ o.do # "snapshot"

\* An operation of B is in the list s; one follows each operation of A.
Has(s, B) == \E i \in 1 .. Len(s) : s[i] \in B
Led(s, A, B) ==
  \A i \in 1 .. Len(s) : s[i] \in A => \E j \in 1 .. Len(s) : i < j /\ s[j] \in B

Doing(d) == {o \in Ops : o.do = d}
OnFile(d, f) == {o \in Ops : o.do = d /\ o.at = f}
OnKey(d, k) == {o \in Ops : o.do = d /\ o.key = k}
Removing(f) == {o \in Ops : o.do \in {"drop", "clear"} /\ o.at = f}
Misnaming(c, p) == {o \in Ops : o.do = "state" /\ ~ Names(c, p, o.value)}

\* integration.json always makes sense, and so does what is to be written to it.
Sensible ==
  /\ Sane(proj.json) /\ Sane(was.json)
  /\ pc = "undo" => \A i \in 1 .. Len(todo) : todo[i].do = "state" => Sane(todo[i].value)

\* The last state that is written is the one the command is to end with.
Naming ==
  pc = "run" =>
    /\ Names(cmd, was, proj.json) \/ Has(todo, Doing("state"))
    /\ Led(todo, Misnaming(cmd, was), Doing("state"))

\* What goes is gone, or its removal is still to come.
Overlaid(f) ==
  Heir(cmd, was) # None /\ f \in Overrides[Heir(cmd, was)] /\ proj.disk[f] = Preset
Removed(f) == Has(todo, OnFile("drop", f)) \/ Gone(f) \/ Overlaid(f)
Untracked(k) ==
  Has(todo, OnKey("dropManifest", k)) \/ proj.man[k] = NoFiles \/ Manifest(k) \in reported
Clearing ==
  pc = "run" =>
    /\ \A i \in 1 .. Len(todo) : Apt(cmd, was, todo[i])
    /\ \A f \in Doomed(cmd, was) : Removed(f)
    /\ \A k \in Leavers(cmd, was) : k \in Keys /\ (cmd.kind = "switch" => k # cmd.key)
                                  /\ Untracked(k)

\* A file is set up when it is in memory with the content it has, or with the one
\* it has until its hash is refreshed; the manifest on disk follows that in memory.
SetDown(f) ==
  /\ new[f] # Absent /\ proj.disk[f] # Absent /\ (owns => f \in Journaled)
  /\ proj.disk[f] = new[f] \/ Disturbed(f) \/ Has(todo, OnFile("rehash", f))
Recorded ==
  /\ Tracked(proj.man[cmd.key]) = Shipped(cmd)
  /\ proj.man[cmd.key] = new \/ Manifest(cmd.key) \in reported \/ Has(todo, Doing("resave"))
Building ==
  pc = "run" /\ SetsUp(cmd, was) =>
    /\ cmd.rel \in Releases /\ fresh = Files /\ Tracked(new) \subseteq Shipped(cmd)
    /\ Led(todo, Doing("put"), Doing("manifest"))
    /\ \A f \in Shipped(cmd) : Led(todo, OnFile("overlay", f), OnFile("rehash", f))
    /\ \A f \in Shipped(cmd) : Led(todo, Removing(f), OnFile("put", f))
    /\ \A f \in Shipped(cmd) : Has(todo, OnFile("put", f)) \/ SetDown(f)
    /\ Has(todo, Doing("manifest")) \/ Recorded

-----------------------------------------------------------------------------
(* Lists of operations that are joined, and shortened *)

LEMMA HasConcat ==
  ASSUME NEW s \in Seq(Ops), NEW t \in Seq(Ops), NEW B
  PROVE  Has(s \o t, B) <=> Has(s, B) \/ Has(t, B)
<1> DEFINE u == s \o t
<1>0. Joined(u, s, t)
  BY ConcatElements
<1> HIDE DEF u
<1>1. ASSUME Has(s, B) PROVE Has(u, B)
  <2>1. PICK i \in 1 .. Len(s) : s[i] \in B
    BY <1>1 DEF Has
  <2>2. i \in 1 .. Len(u) /\ u[i] = s[i]
    BY <1>0 DEF Joined
  <2> QED BY <2>1, <2>2 DEF Has
<1>2. ASSUME Has(t, B) PROVE Has(u, B)
  <2>1. PICK i \in 1 .. Len(t) : t[i] \in B
    BY <1>2 DEF Has
  <2>2. i + Len(s) \in 1 .. Len(u) /\ u[i + Len(s)] = t[i]
    BY <1>0 DEF Joined
  <2> QED BY <2>1, <2>2 DEF Has
<1>3. ASSUME Has(u, B) PROVE Has(s, B) \/ Has(t, B)
  <2>1. PICK i \in 1 .. Len(u) : u[i] \in B
    BY <1>3 DEF Has
  <2>2. CASE i \in 1 .. Len(s)
    BY <1>0, <2>1, <2>2 DEF Joined, Has
  <2>3. CASE i - Len(s) \in 1 .. Len(t) /\ i - Len(s) + Len(s) = i
    <3>1. PICK j \in 1 .. Len(t) : j + Len(s) = i
      BY <2>3
    <3>2. t[j] = u[i]
      BY <1>0, <3>1 DEF Joined
    <3> QED BY <2>1, <3>2 DEF Has
  <2> QED BY <1>0, <2>2, <2>3 DEF Joined
<1> QED BY <1>1, <1>2, <1>3 DEF u

LEMMA LedConcat ==
  ASSUME NEW s \in Seq(Ops), NEW t \in Seq(Ops), NEW A, NEW B, Led(t, A, B),
         Led(s, A, B) \/ Has(t, B)
  PROVE  Led(s \o t, A, B)
<1> DEFINE u == s \o t
<1>0. Joined(u, s, t)
  BY ConcatElements
<1> HIDE DEF u
<1>1. SUFFICES ASSUME NEW i \in 1 .. Len(u), u[i] \in A
               PROVE  \E j \in 1 .. Len(u) : i < j /\ u[j] \in B
  BY DEF Led, u
<1>2. Len(s) \in Nat /\ Len(t) \in Nat /\ Len(u) = Len(s) + Len(t)
  BY <1>0 DEF Joined
<1>3. ASSUME NEW j \in 1 .. Len(t), t[j] \in B, i < j + Len(s)
      PROVE  \E l \in 1 .. Len(u) : i < l /\ u[l] \in B
  <2>1. j + Len(s) \in 1 .. Len(u) /\ u[j + Len(s)] = t[j]
    BY <1>0, <1>2 DEF Joined
  <2> QED BY <1>3, <2>1
<1>4. CASE i \in 1 .. Len(s)
  <2>1. s[i] \in A
    BY <1>0, <1>1, <1>4 DEF Joined
  <2>2. CASE Led(s, A, B)
    <3>1. PICK j \in 1 .. Len(s) : i < j /\ s[j] \in B
      BY <1>4, <2>1, <2>2 DEF Led
    <3>2. j \in 1 .. Len(u) /\ u[j] = s[j]
      BY <1>0, <1>2 DEF Joined
    <3> QED BY <3>1, <3>2
  <2>3. CASE Has(t, B)
    <3>1. PICK j \in 1 .. Len(t) : t[j] \in B
      BY <2>3 DEF Has
    <3>2. i < j + Len(s)
      BY <1>2, <1>4
    <3> QED BY <1>3, <3>1, <3>2
  <2> QED BY <2>2, <2>3
<1>5. CASE i - Len(s) \in 1 .. Len(t) /\ i - Len(s) + Len(s) = i
  <2>1. PICK n \in 1 .. Len(t) : n + Len(s) = i
    BY <1>5
  <2>2. t[n] \in A
    BY <1>0, <1>1, <2>1 DEF Joined
  <2>3. PICK j \in 1 .. Len(t) : n < j /\ t[j] \in B
    BY <2>2 DEF Led
  <2>4. i < j + Len(s)
    BY <1>2, <2>1, <2>3
  <2> QED BY <1>3, <2>3, <2>4
<1> QED BY <1>0, <1>4, <1>5 DEF Joined

\* The operations t are those of s without the first, but for what a failed
\* registration gives up; after a refreshed hash, perhaps with the manifest of k to
\* save once more.
Lasting(B) == \A o \in B : o.do \notin GivenUp
Onward(t, s, k) ==
  /\ \A B : Has(s, B) /\ Lasting(B) => s[1] \in B \/ Has(t, B)
  /\ \A A, B : Led(s, A, B) /\ Lasting(B) /\ s[1] \in A => Has(t, B)
  /\ \A A, B : Led(s, A, B) /\ Resave(k) \notin A => Led(t, A, B)
  /\ \A i \in 1 .. Len(t) : \/ t[i] = Resave(k) /\ s[1].do = "rehash"
                            \/ \E j \in 1 .. Len(s) : t[i] = s[j]

LEMMA RestOnward ==
  ASSUME NEW s \in Seq(Ops), NEW t, NEW n, Follows(t, s, n), NEW k
  PROVE  Onward(t, s, k)
<1>0. Len(s) \in Nat /\ Len(t) = Len(s) - n /\ n \in 1 .. Len(s)
  BY LenProperties DEF Follows
<1>a. ASSUME NEW i \in n + 1 .. Len(s) PROVE i - n \in 1 .. Len(t) /\ t[i - n] = s[i]
  <2>1. i - n \in 1 .. Len(t) /\ i - n + n = i
    BY <1>0
  <2> QED BY <2>1 DEF Follows
<1>1. ASSUME NEW B, NEW i \in 1 .. Len(s), s[i] \in B, i # 1, Lasting(B)
      PROVE  Has(t, B)
  <2>1. i \notin 2 .. n
    BY <1>1 DEF Follows, Lasting, GivenUp
  <2>2. i \in n + 1 .. Len(s)
    BY <1>0, <1>1, <2>1
  <2> QED BY <1>a, <1>1, <2>2 DEF Has
<1>2. ASSUME NEW B, Has(s, B), Lasting(B)
      PROVE  s[1] \in B \/ Has(t, B)
  BY <1>1, <1>2 DEF Has
<1>3. ASSUME NEW A, NEW B, Led(s, A, B), Lasting(B), s[1] \in A
      PROVE  Has(t, B)
  <2>1. 1 \in 1 .. Len(s)
    BY <1>0
  <2>2. PICK j \in 1 .. Len(s) : 1 < j /\ s[j] \in B
    BY <1>3, <2>1 DEF Led
  <2> QED BY <1>1, <1>3, <2>2
<1>4. ASSUME NEW A, NEW B, Led(s, A, B) PROVE Led(t, A, B)
  <2>1. SUFFICES ASSUME NEW i \in 1 .. Len(t), t[i] \in A
                 PROVE  \E j \in 1 .. Len(t) : i < j /\ t[j] \in B
    BY DEF Led
  <2>2. i + n \in 1 .. Len(s) /\ t[i] = s[i + n]
    BY RestElements
  <2>3. PICK j \in 1 .. Len(s) : i + n < j /\ s[j] \in B
    BY <1>4, <2>1, <2>2 DEF Led
  <2>4. j \in n + 1 .. Len(s) /\ i < j - n
    BY <1>0, <2>3
  <2> QED BY <1>a, <2>3, <2>4
<1>5. \A i \in 1 .. Len(t) : \E j \in 1 .. Len(s) : t[i] = s[j]
  BY RestElements
<1> QED BY <1>2, <1>3, <1>4, <1>5 DEF Onward

\* With the manifest to save once more.
LEMMA AppendOnward ==
  ASSUME NEW s, NEW t \in Seq(Ops), NEW k \in Keys, Onward(t, s, k), s[1].do = "rehash"
  PROVE  Onward(t \o <<Resave(k)>>, s, k)
<1> DEFINE x == <<Resave(k)>>
           u == t \o x
<1>0. x \in Seq(Ops) /\ Len(x) = 1 /\ x[1] = Resave(k)
  BY MetadataOpsTyped, TupleIn
<1> HIDE DEF x
<1>a. Joined(u, t, x)
  BY <1>0, ConcatElements
<1>b. \A B : Has(t, B) => Has(u, B)
  BY <1>0, HasConcat
<1>c. ASSUME NEW A, NEW B, Led(t, A, B), Resave(k) \notin A PROVE Led(u, A, B)
  <2>1. Led(x, A, B)
    BY <1>0, <1>c DEF Led
  <2> QED BY <1>0, <1>c, <2>1, LedConcat
<1> HIDE DEF u
<1>1. ASSUME NEW B, Has(s, B), Lasting(B) PROVE s[1] \in B \/ Has(u, B)
  BY <1>b, <1>1 DEF Onward
<1>2. ASSUME NEW A, NEW B, Led(s, A, B), Lasting(B), s[1] \in A PROVE Has(u, B)
  BY <1>b, <1>2 DEF Onward
<1>3. ASSUME NEW A, NEW B, Led(s, A, B), Resave(k) \notin A PROVE Led(u, A, B)
  <2>1. Led(t, A, B)
    BY <1>3 DEF Onward
  <2> QED BY <1>c, <1>3, <2>1
<1>4. ASSUME NEW i \in 1 .. Len(u) PROVE u[i] = Resave(k) \/ \E j \in 1 .. Len(s) : u[i] = s[j]
  <2>1. CASE i \in 1 .. Len(t)
    BY <1>a, <2>1 DEF Joined, Onward
  <2>2. CASE i - Len(t) \in 1 .. Len(x) /\ i - Len(t) + Len(t) = i
    <3>1. u[i] = x[1] /\ i - Len(t) = 1
      BY <1>0, <1>a, <2>2 DEF Joined
    <3> QED BY <1>0, <3>1
  <2> QED BY <1>a, <2>1, <2>2 DEF Joined
<1> QED BY <1>1, <1>2, <1>3, <1>4 DEF Onward, u, x

-----------------------------------------------------------------------------
(* The steps of a running command *)

\* Nothing happens to the command, or others write a file.
Idling ==
  /\ UNCHANGED <<todo, new, fresh>> /\ proj'.man = proj.man /\ proj'.json = proj.json
  /\ \A f \in Files : proj'.disk[f] = proj.disk[f] \/ (f \in touched' /\ proj'.disk[f] \in Written)

\* The first operation is given up, or has nothing to do.
Waiving ==
  /\ UNCHANGED <<new, fresh>> /\ BestEffort /\ proj'.man = proj.man /\ proj'.json = proj.json
  /\ \A f \in Files :
       \/ proj'.disk[f] = proj.disk[f]
       \/ Op.do = "overlay" /\ f \in reported' /\ proj'.disk[f] \in {Preset, Torn}
  /\ Op.do = "drop" => proj.disk[Op.at] = Absent \/ Op.at \in reported'
  /\ Op.do = "dropManifest" => proj.man[Op.key] = NoFiles \/ Op.at \in reported'
  /\ Op.do = "resave" => Op.at \in reported'

Working ==
  /\ todo # <<>> /\ todo \in Seq(Ops) /\ Op \in Ops /\ 1 \in 1 .. Len(todo) /\ todo[1] = Op
  /\ Onward(todo', todo, cmd.key)
  /\ Perform \/ Waiving \/ TakeSnapshot \/ Rehash

LEMMA PassWaives ==
  ASSUME Typed, Pass
  PROVE  Waiving
<1>1. Op.do \in {"drop", "clear", "dropManifest", "cover"} /\ Vain
  BY DEF Pass, Vain
<1>2. BestEffort
  BY <1>1 DEF BestEffort
<1>3. UNCHANGED <<new, fresh, proj>>
  BY DEF Pass, Proceed
<1>4. Op.do = "drop" => proj.disk[Op.at] = Absent \/ Op.at \in reported'
  BY DEF Pass
<1>5. Op.do = "dropManifest" => proj.man[Op.key] = NoFiles
  BY <1>1 DEF Vain
<1> QED BY <1>1, <1>2, <1>3, <1>4, <1>5 DEF Waiving

LEMMA RefuseWaives ==
  ASSUME Typed, Refuse, BestEffort
  PROVE  Waiving
<1>1. Op \in Ops /\ Op.at \in Files
  BY HeadIsOp DEF Refuse, Refused, Foreign, Busy, Typed, Control
<1>2. Op.do \notin {"dropManifest", "resave"}
  BY <1>1, OpFacts, FilesApart DEF FileOp, ManifestOp, StateOp, PkgOp, RecOp, CoverOp
<1>3. UNCHANGED <<new, fresh, proj>>
  BY DEF Refuse, Proceed
<1>4. Op.do = "drop" => Op.at \in reported'
  BY DEF Refuse
<1> QED BY <1>2, <1>3, <1>4 DEF Waiving

LEMMA FailsWaives ==
  ASSUME Typed, Fails, BestEffort
  PROVE  Waiving
<1>0. /\ todo # <<>> /\ Touches /\ Op \in Ops /\ Op.at \in reported' /\ proj \in Stores
  BY HeadIsOp DEF Fails, InFlight, Busy, Typed, Control, Effects
<1>1. UNCHANGED <<new, fresh>>
  BY DEF Fails, Proceed
<1>2. proj' = proj \/ (Op.do \in {"overlay", "cover", "uncover"} /\ proj' \in Halfway)
  BY DEF Fails, InPlace, BestEffort
<1>3. CASE proj' = proj
  BY <1>0, <1>1, <1>3 DEF Waiving
<1>4. CASE Op.do = "overlay" /\ proj' \in Halfway
  <2>1. FileOp(Op)
    BY <1>0, <1>4, OpFacts DEF ManifestOp, StateOp, PkgOp, RecOp, CoverOp
  <2>2. proj' = proj \/ \E c \in {Preset, Torn} : proj' = [proj EXCEPT !.disk[Op.at] = c]
    BY <1>4 DEF Halfway, Completed
  <2>3. ASSUME NEW c \in {Preset, Torn}, proj' = [proj EXCEPT !.disk[Op.at] = c]
        PROVE  /\ proj'.man = proj.man /\ proj'.json = proj.json
               /\ proj'.disk[Op.at] = c /\ \A f \in Files : f # Op.at => proj'.disk[f] = proj.disk[f]
    <3>1. proj'.man = proj.man /\ proj'.json = proj.json
      BY <1>0, <2>3 DEF Stores, Project
    <3>2. c \in Contents
      BY ContentFacts DEF ContainsMore
    <3> QED BY <1>0, <2>1, <2>3, <3>1, <3>2, DiskChange DEF FileOp
  <2> QED BY <1>0, <1>1, <1>3, <1>4, <2>2, <2>3 DEF Waiving
<1>5. CASE Op.do \in {"cover", "uncover"} /\ proj' \in Halfway
  <2>1. CoverOp(Op)
    BY <1>0, <1>5, OpFacts DEF FileOp, ManifestOp, StateOp, PkgOp, RecOp
  <2>2. Limited(proj')
    BY <1>0, <1>5, HalfwayIsLimited
  <2>3. SameBut(proj', proj, {PresetFile}) /\ \A f \in Files : proj'.disk[f] = proj.disk[f]
    BY <2>1, <2>2, FilesApart DEF Limited, CoverOp
  <2>4. proj'.man = proj.man
    <3>1. \A k \in Keys : proj'.man[k] = proj.man[k]
      BY <2>3, MetadataApart DEF SameBut
    <3>2. proj'.man \in [Keys -> Hashes] /\ proj.man \in [Keys -> Hashes]
      BY <1>0, <2>2, StoreParts DEF Limited
    <3> QED BY <3>1, <3>2
  <2>5. proj'.json = proj.json
    BY <2>3, MetadataApart DEF SameBut
  <2> QED BY <1>1, <1>5, <2>3, <2>4, <2>5 DEF Waiving
<1> QED BY <1>2, <1>3, <1>4, <1>5

\* What a step that completes the first operation does.
LEMMA PerformDoes ==
  ASSUME Typed, Routed, Perform
  PROVE  /\ new' = (IF Op.do = "put" THEN [new EXCEPT ![Op.at] = cmd.rel] ELSE new)
         /\ fresh' = fresh
         /\ Op.do \in {"put", "drop", "clear", "overlay"} => FileOp(Op)
         /\ Op.do = "put" => proj'.disk[Op.at] = cmd.rel /\ (owns => Op.at \in Journaled)
         /\ Op.do \in {"drop", "clear"} => proj'.disk[Op.at] = Absent
         /\ Op.do = "overlay" => proj'.disk[Op.at] = Preset
         /\ \A f \in Files : proj'.disk[f] # proj.disk[f] =>
              f = Op.at /\ Op.do \in {"put", "drop", "clear", "overlay"}
         /\ Op.do \in {"manifest", "resave", "dropManifest"} => ManifestOp(Op)
         /\ Op.do \in {"manifest", "resave"} => proj'.man[Op.key] = new
         /\ Op.do = "dropManifest" => proj'.man[Op.key] = NoFiles
         /\ \A k \in Keys : proj'.man[k] # proj.man[k] =>
              k = Op.key /\ Op.do \in {"manifest", "resave", "dropManifest"}
         /\ proj'.json = (IF Op.do = "state" THEN Op.value ELSE proj.json)
<1>0. /\ todo # <<>> /\ Touches /\ Op \in Ops /\ proj \in Stores /\ proj' = Completed
  BY HeadIsOp DEF Perform, InFlight, Busy, Typed, Control, Effects
<1>1. /\ new' = (IF Op.do = "put" THEN [new EXCEPT ![Op.at] = cmd.rel] ELSE new)
      /\ fresh' = fresh
  BY DEF Perform, Proceed
<1>2. Limited(proj')
  BY <1>0, CompletedIsHalfway, HalfwayIsLimited
<1>3. /\ proj.disk \in Hashes /\ proj.man \in [Keys -> Hashes]
  BY <1>0, StoreParts
<1>4. CASE FileOp(Op)
  <2>1. /\ Op.at \in Files /\ Op.do \in {"put", "drop", "clear", "overlay"}
    BY <1>0, <1>4 DEF FileOp, Touches
  <2>2. PICK c \in Contents :
          /\ proj' = [proj EXCEPT !.disk[Op.at] = c]
          /\ c = CASE Op.do = "put" -> cmd.rel [] Op.do \in {"drop", "clear"} -> Absent
                   [] Op.do = "overlay" -> Preset
    <3>1. cmd.rel \in Contents /\ Absent \in Contents /\ Preset \in Contents
      BY ContentFacts DEF ContainsMore, Typed, Control, Absent
    <3> QED BY <1>0, <2>1, <3>1 DEF Completed
  <2>3. proj'.disk[Op.at] = c /\ \A f \in Files : f # Op.at => proj'.disk[f] = proj.disk[f]
    BY <1>0, <2>1, <2>2, DiskChange
  <2>4. proj'.man = proj.man /\ proj'.json = proj.json
    BY <1>0, <2>2 DEF Stores, Project
  <2>5. Op.do = "put" /\ owns => Op.at \in Journaled
    BY DEF Perform, InFlight, Routed, Typed, Control
  <2> QED BY <1>1, <1>4, <2>1, <2>2, <2>3, <2>4, <2>5
<1>5. CASE ManifestOp(Op)
  <2>1. Op.key \in Keys /\ Op.do \in {"manifest", "resave", "dropManifest"}
    BY <1>0, <1>5 DEF ManifestOp, Touches
  <2>2. PICK m \in Hashes :
          /\ proj' = [proj EXCEPT !.man[Op.key] = m]
          /\ m = IF Op.do = "dropManifest" THEN NoFiles ELSE new
    <3>1. NoFiles \in Hashes /\ new \in Hashes
      BY ContentFacts DEF ContainsMore, Typed, Control
    <3> QED BY <1>0, <2>1, <3>1 DEF Completed
  <2>3. proj'.disk = proj.disk /\ proj'.json = proj.json /\ proj'.man = [proj.man EXCEPT ![Op.key] = m]
    BY <1>0, <2>2 DEF Stores, Project
  <2>4. proj'.man[Op.key] = m /\ \A k \in Keys : k # Op.key => proj'.man[k] = proj.man[k]
    BY <1>3, <2>1, <2>3
  <2> QED BY <1>1, <1>5, <2>1, <2>2, <2>3, <2>4
<1>6. CASE StateOp(Op)
  <2>1. proj' = [proj EXCEPT !.json = Op.value, !.readable = TRUE] /\ Op.do = "state"
    BY <1>0, <1>6 DEF StateOp, Completed
  <2>2. proj'.disk = proj.disk /\ proj'.man = proj.man /\ proj'.json = Op.value
    BY <1>0, <2>1 DEF Stores, Project
  <2> QED BY <1>1, <2>1, <2>2
<1>7. CASE PkgOp(Op) \/ RecOp(Op) \/ CoverOp(Op)
  <2>1. Op.do \in {"package", "unpackage", "record", "unrecord", "cover", "uncover"}
    BY <1>7 DEF PkgOp, RecOp, CoverOp
  <2>2. /\ \A f \in Files : f # Op.at
        /\ \A k \in Keys : Manifest(k) # Op.at
        /\ StateFile # Op.at
    BY <1>7, FilesApart, MetadataApart DEF PkgOp, RecOp, CoverOp
  <2>3. /\ \A f \in Files : proj'.disk[f] = proj.disk[f]
        /\ \A k \in Keys : proj'.man[k] = proj.man[k]
        /\ proj'.json = proj.json
    BY <1>2, <2>2 DEF Limited, SameBut
  <2> QED BY <1>1, <2>1, <2>3
<1> QED BY <1>0, <1>4, <1>5, <1>6, <1>7, OpFacts

\* A command that goes on running waits or works.
LEMMA RunStep ==
  ASSUME Typed, Routed, Revives, [Next]_vars, pc = "run", pc' = "run"
  PROVE  /\ Fixed /\ reported \subseteq reported' /\ touched \subseteq touched'
         /\ Journaled \subseteq Journaled'
         /\ Idling \/ Working
<1>0. todo \in Seq(Ops) /\ cmd.key \in Keys /\ proj \in Stores
  BY DEF Typed, Control, Effects, Routed, HasKey
<1>a. ASSUME todo # <<>>, NEW n, Follows(todo', todo, n), Perform \/ Waiving \/ TakeSnapshot
      PROVE  Working
  <2>1. Op \in Ops /\ 1 \in 1 .. Len(todo) /\ todo[1] = Op
    BY <1>0, <1>a, HeadIsOp, FirstElement
  <2>2. Onward(todo', todo, cmd.key)
    BY <1>0, <1>a, RestOnward
  <2> QED BY <1>0, <1>a, <2>1, <2>2 DEF Working
<1>b. todo # <<>> => Follows(Tail(todo), todo, 1)
  BY <1>0, TailFollows
<1>1. CASE Announce
  <2>1. /\ UNCHANGED <<todo, new, fresh, proj, reported, touched>> /\ Fixed
    BY <1>1 DEF Announce, result, history, Fixed
  <2>2. Journaled \subseteq Journaled'
    <3>1. jour' = jour \/ jour' = Append(jour, Op.at)
      BY <1>1 DEF Announce, Remember
    <3>2. jour \in Seq(Paths) /\ Op.at \in Paths
      BY <1>0, <1>1, HeadIsOp, OpFacts DEF Announce, Busy, Typed, Control
    <3>3. Range(Append(jour, Op.at)) = Range(jour) \cup {Op.at}
      BY <3>2, AppendIn
    <3> QED BY <3>1, <3>3 DEF Journaled
  <2> QED BY <2>1, <2>2 DEF Idling
<1>2. CASE Perform
  <2>1. todo # <<>> /\ todo' = Tail(todo) /\ Fixed /\ UNCHANGED <<jour, reported, touched>>
    BY <1>2 DEF Perform, Proceed, InFlight, Busy, Fixed, result, history
  <2> QED BY <1>2, <1>a, <1>b, <2>1 DEF Journaled
<1>3. CASE Pass
  <2>1. todo # <<>> /\ todo' = Tail(todo) /\ Fixed /\ UNCHANGED <<jour, touched>>
        /\ reported \subseteq reported'
    BY <1>3 DEF Pass, Proceed, Busy, Fixed, history
  <2> QED BY <1>3, <1>a, <1>b, <2>1, PassWaives DEF Journaled
<1>4. CASE Refuse \/ Fails
  <2>1. todo # <<>> /\ BestEffort
    <3>1. ~ BestEffort => Raise
      BY <1>4 DEF Refuse, Fails
    <3>2. Raise => pc' # "run"
      BY <1>4 DEF Raise, Ends
    <3> QED BY <1>4, <3>1, <3>2 DEF Refuse, Fails, InFlight, Busy
  <2>2. todo' = AfterFailure /\ Fixed /\ UNCHANGED <<jour, touched>> /\ reported \subseteq reported'
    BY <1>4, <2>1 DEF Refuse, Fails, Proceed, Fixed, history
  <2>3. Waiving
    BY <1>4, <2>1, RefuseWaives, FailsWaives
  <2>4. PICK n \in 1 .. Len(todo) : Follows(AfterFailure, todo, n)
    BY <1>0, <2>1, AfterFailureFollows
  <2> QED BY <1>a, <2>1, <2>2, <2>3, <2>4 DEF Journaled
<1>5. CASE TakeSnapshot
  <2>1. todo # <<>> /\ todo' = Tail(todo) /\ Fixed /\ UNCHANGED <<jour, reported, touched>>
    BY <1>5 DEF TakeSnapshot, Busy, Fixed, journal, result, history
  <2> QED BY <1>5, <1>a, <1>b, <2>1 DEF Journaled
<1>6. CASE Rehash
  <2>1. /\ todo # <<>> /\ Busy /\ Op.do = "rehash" /\ Fixed /\ UNCHANGED <<reported, touched>>
        /\ todo' \in {Tail(todo), Tail(todo) \o Resaves(Op.at)}
        /\ jour' = jour \/ jour' = Append(jour, Op.at)
    BY <1>6 DEF Rehash, Busy, Fixed, journal, result
  <2>2. Op \in Ops /\ 1 \in 1 .. Len(todo) /\ todo[1] = Op /\ Op.at \in Paths
    BY <1>0, <2>1, HeadIsOp, FirstElement, OpFacts
  <2>3. Journaled \subseteq Journaled'
    <3>1. jour \in Seq(Paths)
      BY DEF Typed, Control
    <3>2. Range(Append(jour, Op.at)) = Range(jour) \cup {Op.at}
      BY <2>2, <3>1, AppendIn
    <3> QED BY <2>1, <3>2 DEF Journaled
  <2>4. Tail(todo) \in Seq(Ops) /\ Onward(Tail(todo), todo, cmd.key)
    BY <1>0, <1>b, <2>1, RestOnward, HeadIsOp
  <2>5. Onward(Tail(todo) \o <<Resave(cmd.key)>>, todo, cmd.key)
    BY <1>0, <2>1, <2>2, <2>4, AppendOnward
  <2>6. Resaves(Op.at) \in {<<>>, <<Resave(cmd.key)>>} /\ Tail(todo) \o <<>> = Tail(todo)
    BY <2>1, <2>4, ResavesTyped, ConcatEmptySeq
  <2>7. Onward(todo', todo, cmd.key)
    BY <2>1, <2>4, <2>5, <2>6
  <2> QED BY <1>0, <1>6, <2>1, <2>2, <2>3, <2>7 DEF Working
<1>7. CASE Interrupted \/ RollBack \/ Finish \/ RollBackFails \/ Killed \/ Command
  BY <1>7, CommandBegins DEF Interrupted, RollBack, Finish, RollBackFails, Killed, Ends, Begins, Begin
<1>8. ASSUME NEW f \in Files, NEW c \in Written, Edit(f, c) \/ EditMeanwhile(f, c)
      PROVE  /\ Fixed /\ reported \subseteq reported' /\ touched \subseteq touched'
             /\ Journaled \subseteq Journaled' /\ Idling
  <2>1. /\ UNCHANGED <<todo, new, fresh, jour, reported>> /\ Fixed /\ touched' = touched \cup {f}
        /\ proj' = [proj EXCEPT !.disk[f] = c]
    BY <1>8 DEF Edit, EditMeanwhile, result, journal, Fixed
  <2>2. proj'.man = proj.man /\ proj'.json = proj.json
    BY <1>0, <2>1 DEF Stores, Project
  <2>3. proj'.disk[f] = c /\ \A g \in Files : g # f => proj'.disk[g] = proj.disk[g]
    <3>1. c \in Contents
      BY DEF Contents
    <3> QED BY <1>0, <2>1, <3>1, DiskChange
  <2> QED BY <2>1, <2>2, <2>3 DEF Idling, Journaled
<1>9. CASE UNCHANGED vars
  BY <1>9 DEF vars, journal, result, history, Fixed, Idling, Journaled
<1> QED BY <1>1, <1>2, <1>3, <1>4, <1>5, <1>6, <1>7, <1>8, <1>9 DEF Next, Step, GoesWrong, Others, Rest

-----------------------------------------------------------------------------
(* A running command works towards what it is to end with *)

LEMMA DosLast ==
  /\ \A d : d \notin GivenUp => Lasting(Doing(d))
  /\ \A d, f : d \notin GivenUp => Lasting(OnFile(d, f))
  /\ \A d, k : d \notin GivenUp => Lasting(OnKey(d, k))
  /\ \A d \in {"drop", "dropManifest", "put", "manifest", "rehash", "resave", "state"} :
       d \notin GivenUp
BY DEF Lasting, Doing, OnFile, OnKey, GivenUp

\* An operation that is still to come is the first, or stays to come.
LEMMA WorkHas ==
  ASSUME Working, NEW d \in {"drop", "dropManifest", "put", "manifest", "rehash", "resave", "state"}
  PROVE  /\ Has(todo, Doing(d)) => Op.do = d \/ Has(todo', Doing(d))
         /\ \A f : Has(todo, OnFile(d, f)) => (Op.do = d /\ Op.at = f) \/ Has(todo', OnFile(d, f))
         /\ \A k : Has(todo, OnKey(d, k)) => (Op.do = d /\ Op.key = k) \/ Has(todo', OnKey(d, k))
<1>0. todo[1] = Op /\ Onward(todo', todo, cmd.key) /\ d \notin GivenUp
  BY DosLast DEF Working
<1>1. Has(todo, Doing(d)) => Op.do = d \/ Has(todo', Doing(d))
  <2>1. Lasting(Doing(d)) /\ (Op \in Doing(d) => Op.do = d)
    BY <1>0, DosLast DEF Doing
  <2> QED BY <1>0, <2>1 DEF Onward
<1>2. ASSUME NEW f PROVE Has(todo, OnFile(d, f)) =>
                           (Op.do = d /\ Op.at = f) \/ Has(todo', OnFile(d, f))
  <2>1. Lasting(OnFile(d, f)) /\ (Op \in OnFile(d, f) => Op.do = d /\ Op.at = f)
    BY <1>0, DosLast DEF OnFile
  <2> QED BY <1>0, <2>1 DEF Onward
<1>3. ASSUME NEW k PROVE Has(todo, OnKey(d, k)) =>
                           (Op.do = d /\ Op.key = k) \/ Has(todo', OnKey(d, k))
  <2>1. Lasting(OnKey(d, k)) /\ (Op \in OnKey(d, k) => Op.do = d /\ Op.key = k)
    BY <1>0, DosLast DEF OnKey
  <2> QED BY <1>0, <2>1 DEF Onward
<1> QED BY <1>1, <1>2, <1>3

\* What is to follow an operation still is to, and does when that one is the first.
LEMMA WorkLed ==
  ASSUME Working, NEW A, NEW B, Led(todo, A, B), Lasting(B), \A o \in A : o.do # "resave"
  PROVE  Led(todo', A, B) /\ (Op \in A => Has(todo', B))
<1>1. todo[1] = Op /\ Onward(todo', todo, cmd.key)
  BY DEF Working
<1>2. Resave(cmd.key) \notin A
  BY DEF Resave
<1>3. Led(todo', A, B)
  BY <1>1, <1>2 DEF Onward
<1>4. Op \in A => Has(todo', B)
  BY <1>1 DEF Onward
<1> QED BY <1>3, <1>4

\* What work does to integration.json.
LEMMA WorkJson ==
  ASSUME Typed, Routed, Working
  PROVE  IF Op.do = "state" THEN proj'.json = Op.value ELSE proj'.json = proj.json
<1>1. CASE Perform
  BY <1>1, PerformDoes
<1>2. CASE Waiving
  BY <1>2 DEF Waiving, BestEffort
<1>3. CASE TakeSnapshot \/ Rehash
  BY <1>3 DEF TakeSnapshot, Rehash
<1> QED BY <1>1, <1>2, <1>3 DEF Working

LEMMA NamingRuns ==
  ASSUME Typed, Routed, Revives, Naming, [Next]_vars, pc = "run", pc' = "run"
  PROVE  Naming'
<1>1. cmd' = cmd /\ was' = was /\ (Idling \/ Working)
  BY RunStep DEF Fixed
<1> DEFINE M == Misnaming(cmd, was)
           S == Doing("state")
<1>2. /\ Names(cmd, was, proj.json) \/ Has(todo, S)
      /\ Led(todo, M, S)
  BY DEF Naming
<1>3. SUFFICES /\ Names(cmd, was, proj'.json) \/ Has(todo', S)
               /\ Led(todo', M, S)
  <2>1. Misnaming(cmd, was)' = M
    BY <1>1 DEF Misnaming, Names, Leavers, SetsUp, Heir
  <2>2. Names(cmd, was, proj.json)' <=> Names(cmd, was, proj'.json)
    BY <1>1 DEF Names, Leavers, SetsUp, Heir
  <2> QED BY <2>1, <2>2 DEF Naming, Has, Led, Doing
<1>4. CASE Idling
  BY <1>2, <1>4 DEF Idling
<1>5. CASE Working
  <2>1. Lasting(S) /\ \A o \in M : o.do # "resave"
    BY DosLast DEF Misnaming
  <2>2. Led(todo', M, S) /\ (Op \in M => Has(todo', S))
    BY <1>2, <1>5, <2>1, WorkLed
  <2>3. CASE Op.do = "state"
    <3>1. proj'.json = Op.value /\ Op \in Ops
      BY <1>5, <2>3, WorkJson DEF Working
    <3>2. Names(cmd, was, Op.value) \/ Op \in M
      BY <2>3, <3>1 DEF Misnaming
    <3> QED BY <2>2, <3>1, <3>2
  <2>4. CASE Op.do # "state"
    <3>1. proj'.json = proj.json
      BY <1>5, <2>4, WorkJson
    <3>2. Has(todo, S) => Has(todo', S)
      BY <1>5, <2>4, WorkHas
    <3> QED BY <1>2, <2>2, <3>1, <3>2
  <2> QED BY <2>3, <2>4
<1> QED BY <1>1, <1>4, <1>5

\* What work does to a file.
LEMMA WorkFile ==
  ASSUME Typed, Routed, Working, NEW f \in Files
  PROVE  \/ proj'.disk[f] = proj.disk[f]
         \/ Perform /\ f = Op.at /\ Op.do \in {"put", "drop", "clear", "overlay"}
         \/ Waiving /\ Op.do = "overlay" /\ f \in reported' /\ proj'.disk[f] \in {Preset, Torn}
<1>1. CASE Perform
  BY <1>1, PerformDoes
<1>2. CASE Waiving
  BY <1>2 DEF Waiving
<1>3. CASE TakeSnapshot \/ Rehash
  BY <1>3 DEF TakeSnapshot, Rehash
<1> QED BY <1>1, <1>2, <1>3 DEF Working

\* What work does to a manifest.
LEMMA WorkManifest ==
  ASSUME Typed, Routed, Working, NEW k \in Keys
  PROVE  \/ proj'.man[k] = proj.man[k]
         \/ /\ Perform /\ ManifestOp(Op) /\ Op.key = k
            /\ \/ Op.do \in {"manifest", "resave"} /\ proj'.man[k] = new /\ new' = new
               \/ Op.do = "dropManifest" /\ proj'.man[k] = NoFiles
<1>1. CASE Perform
  BY <1>1, PerformDoes
<1>2. CASE Waiving
  BY <1>2 DEF Waiving
<1>3. CASE TakeSnapshot \/ Rehash
  BY <1>3 DEF TakeSnapshot, Rehash
<1> QED BY <1>1, <1>2, <1>3 DEF Working

\* A file that goes is gone, or still goes.
LEMMA RemovedRuns ==
  ASSUME Typed, Routed, Revives, [Next]_vars, pc = "run", pc' = "run", Clearing,
         NEW f \in Doomed(cmd, was), Removed(f)
  PROVE  Removed(f)'
<1>0. /\ cmd' = cmd /\ was' = was /\ reported \subseteq reported' /\ touched \subseteq touched'
      /\ f \in Files /\ (Idling \/ Working)
  BY RunStep DEF Fixed, Doomed
<1> DEFINE h == Heir(cmd, was)
<1>1. SUFFICES \/ Has(todo', OnFile("drop", f)) \/ proj'.disk[f] = Absent
               \/ f \in touched' \cup reported'
               \/ h # None /\ f \in Overrides[h] /\ proj'.disk[f] = Preset
  BY <1>0 DEF Removed, Gone, Disturbed, Overlaid, Has, OnFile, Heir
<1> HIDE DEF h
<1>2. \/ Has(todo, OnFile("drop", f)) \/ proj.disk[f] = Absent \/ f \in touched \cup reported
      \/ h # None /\ f \in Overrides[h] /\ proj.disk[f] = Preset
  BY DEF Removed, Gone, Disturbed, Overlaid, h
<1>3. CASE f \in touched' \cup reported'
  BY <1>3
<1>4. CASE Idling
  BY <1>0, <1>2, <1>4 DEF Idling
<1>5. CASE Working /\ f \notin touched' \cup reported'
  <2>1. Apt(cmd, was, Op) /\ Working
    BY <1>5 DEF Clearing, Working
  <2>2. CASE Op.do = "drop" /\ Op.at = f
    <3>1. Perform => proj'.disk[f] = Absent
      BY <2>2, PerformDoes
    <3>2. Waiving => proj.disk[f] = Absent /\ proj'.disk[f] = proj.disk[f]
      BY <1>0, <1>5, <2>2 DEF Waiving
    <3>3. ~ TakeSnapshot /\ ~ Rehash
      BY <2>2 DEF TakeSnapshot, Rehash
    <3> QED BY <2>1, <3>1, <3>2, <3>3 DEF Working
  <2>3. CASE Has(todo, OnFile("drop", f)) /\ ~ (Op.do = "drop" /\ Op.at = f)
    BY <2>1, <2>3, WorkHas
  <2>4. CASE ~ Has(todo, OnFile("drop", f)) /\ ~ (Op.do = "drop" /\ Op.at = f)
    <3>1. \/ proj'.disk[f] = proj.disk[f]
          \/ Perform /\ f = Op.at /\ Op.do \in {"put", "clear", "overlay"}
      BY <1>0, <1>5, <2>1, <2>4, WorkFile
    <3>2. CASE Perform /\ f = Op.at /\ Op.do = "clear"
      BY <3>2, PerformDoes
    <3>3. CASE Perform /\ f = Op.at /\ Op.do = "overlay"
      <4>1. h # None /\ f \in Overrides[h]
        BY <2>1, <3>3 DEF Apt, h
      <4>2. proj'.disk[f] = Preset
        BY <3>3, PerformDoes
      <4> QED BY <4>1, <4>2
    <3>4. ~ (f = Op.at /\ Op.do = "put")
      BY <2>1 DEF Apt
    <3> QED BY <1>0, <1>2, <1>5, <2>4, <3>1, <3>2, <3>3, <3>4
  <2> QED BY <2>2, <2>3, <2>4
<1> QED BY <1>0, <1>3, <1>4, <1>5

\* A manifest that goes is gone, or still goes.
LEMMA UntrackedRuns ==
  ASSUME Typed, Routed, Revives, Fitting, [Next]_vars, pc = "run", pc' = "run",
         Clearing, NEW k \in Keys, k \in Leavers(cmd, was), cmd.kind = "switch" => k # cmd.key,
         Untracked(k)
  PROVE  Untracked(k)'
<1>0. /\ reported \subseteq reported' /\ (Idling \/ Working)
  BY RunStep
<1>1. SUFFICES \/ Has(todo', OnKey("dropManifest", k)) \/ proj'.man[k] = NoFiles
               \/ Manifest(k) \in reported'
  BY DEF Untracked, Has, OnKey
<1>2. Has(todo, OnKey("dropManifest", k)) \/ proj.man[k] = NoFiles \/ Manifest(k) \in reported
  BY DEF Untracked
<1>3. CASE Idling
  BY <1>0, <1>2, <1>3 DEF Idling
<1>4. CASE Working
  <2>0. Apt(cmd, was, Op) /\ Op \in Fit(was, cmd.kind, cmd.key, cmd.rel, cmd.force) /\ Op \in Ops
    BY <1>4, FirstFits DEF Clearing, Working
  <2>1. CASE Op.do = "dropManifest" /\ Op.key = k
    <3>1. Op.at = Manifest(k)
      BY <2>0, <2>1, OpFacts DEF FileOp, ManifestOp, StateOp, PkgOp, RecOp, CoverOp
    <3>2. Perform => proj'.man[k] = NoFiles
      BY <2>1, PerformDoes
    <3>3. Waiving => proj'.man[k] = NoFiles \/ Manifest(k) \in reported'
      BY <2>1, <3>1 DEF Waiving
    <3>4. ~ TakeSnapshot /\ ~ Rehash
      BY <2>1 DEF TakeSnapshot, Rehash
    <3> QED BY <1>4, <3>2, <3>3, <3>4 DEF Working
  <2>2. CASE Has(todo, OnKey("dropManifest", k)) /\ ~ (Op.do = "dropManifest" /\ Op.key = k)
    BY <1>4, <2>2, WorkHas
  <2>3. CASE ~ Has(todo, OnKey("dropManifest", k)) /\ ~ (Op.do = "dropManifest" /\ Op.key = k)
    <3>1. proj'.man[k] = proj.man[k] \/ (Op.do \in {"manifest", "resave"} /\ Op.key = k)
      BY <1>4, <2>3, WorkManifest
    <3>2. ~ (Op.do \in {"manifest", "resave"} /\ Op.key = k)
      <4>1. Op.do \in {"manifest", "resave"} => Op.key = cmd.key /\ cmd.kind # "uninstall"
        BY <2>0 DEF Fit, Suits, Apt
      <4>2. cmd.kind \in {"uninstall", "switch"}
        BY DEF Leavers
      <4> QED BY <4>1, <4>2
    <3> QED BY <1>0, <1>2, <2>3, <3>1, <3>2
  <2> QED BY <2>1, <2>2, <2>3
<1> QED BY <1>0, <1>3, <1>4

LEMMA ClearingRuns ==
  ASSUME Typed, Routed, Revives, Fitting, [Next]_vars, pc = "run", pc' = "run",
         Clearing
  PROVE  Clearing'
<1>0. cmd' = cmd /\ was' = was /\ (Idling \/ Working)
  BY RunStep DEF Fixed
<1>1. ASSUME NEW i \in 1 .. Len(todo') PROVE Apt(cmd, was, todo'[i])
  <2>1. CASE Idling
    BY <1>1, <2>1 DEF Idling, Clearing
  <2>2. CASE Working
    <3>1. Apt(cmd, was, Op) /\ todo[1] = Op /\ Onward(todo', todo, cmd.key)
      BY <2>2 DEF Clearing, Working
    <3>2. CASE todo'[i] = Resave(cmd.key) /\ Op.do = "rehash"
      BY <3>1, <3>2 DEF Apt, Resave
    <3>3. ASSUME NEW j \in 1 .. Len(todo), todo'[i] = todo[j] PROVE Apt(cmd, was, todo'[i])
      BY <3>3 DEF Clearing
    <3> QED BY <1>1, <3>1, <3>2, <3>3 DEF Onward
  <2> QED BY <1>0, <2>1, <2>2
<1>2. \A f \in Doomed(cmd, was) : Removed(f)'
  BY RemovedRuns DEF Clearing
<1>3. \A k \in Leavers(cmd, was) : k \in Keys /\ (cmd.kind = "switch" => k # cmd.key)
                                   /\ Untracked(k)'
  BY UntrackedRuns DEF Clearing
<1>4. /\ Doomed(cmd, was)' = Doomed(cmd, was) /\ Leavers(cmd, was)' = Leavers(cmd, was)
      /\ \A o : Apt(cmd', was', o) <=> Apt(cmd, was, o)
  BY <1>0 DEF Doomed, Leavers, Tracked, SetsUp, Shipped, Apt, Heir
<1> QED BY <1>0, <1>1, <1>2, <1>3, <1>4 DEF Clearing

\* A file that is set up stays so.
LEMMA SetDownRuns ==
  ASSUME Typed, Routed, Revives, Fitting, [Next]_vars, pc = "run", pc' = "run",
         Clearing, Building, SetsUp(cmd, was), NEW f \in Shipped(cmd)
  PROVE  Has(todo', OnFile("put", f)) \/ SetDown(f)'
<1>0. /\ Fixed /\ reported \subseteq reported' /\ touched \subseteq touched'
      /\ Journaled \subseteq Journaled' /\ (Idling \/ Working)
  BY RunStep
<1>1. /\ cmd.rel \in Releases /\ fresh = Files
      /\ Led(todo, OnFile("overlay", f), OnFile("rehash", f))
      /\ Led(todo, Removing(f), OnFile("put", f))
      /\ Has(todo, OnFile("put", f)) \/ SetDown(f)
  BY DEF Building
<1>2. f \in Files /\ cmd.rel # Absent /\ Preset # Absent /\ Torn # Absent /\ Absent \notin Written
  <2>1. cmd.key \in Keys
    BY DEF Routed, HasKey
  <2> QED BY <1>1, <2>1, FilesAssumption, ReleasesAssumption, ContentAssumption DEF Shipped, Absent
<1>3. SUFFICES \/ Has(todo', OnFile("put", f))
               \/ /\ new'[f] # Absent /\ proj'.disk[f] # Absent /\ (owns => f \in Journaled')
                  /\ \/ proj'.disk[f] = new'[f] \/ f \in touched' \cup reported'
                     \/ Has(todo', OnFile("rehash", f))
  <2>1. owns' = owns
    BY <1>0 DEF Fixed
  <2> QED BY <2>1 DEF SetDown, Disturbed, Has, OnFile
<1>4. SetDown(f) <=> /\ new[f] # Absent /\ proj.disk[f] # Absent /\ (owns => f \in Journaled)
                     /\ \/ proj.disk[f] = new[f] \/ f \in touched \cup reported
                        \/ Has(todo, OnFile("rehash", f))
  BY DEF SetDown, Disturbed
<1>5. CASE Idling
  <2>1. /\ UNCHANGED <<todo, new>>
        /\ proj'.disk[f] = proj.disk[f] \/ (f \in touched' /\ proj'.disk[f] \in Written)
    BY <1>2, <1>5 DEF Idling
  <2> QED BY <1>0, <1>1, <1>2, <1>4, <2>1
<1>6. CASE Working
  <2>1. Apt(cmd, was, Op) /\ new \in Hashes
    BY <1>6 DEF Clearing, Working, Typed, Control
  <2>2. CASE Op.do = "put" /\ Op.at = f
    <3>1. Perform
      BY <1>6, <2>2 DEF Working, Waiving, BestEffort, TakeSnapshot, Rehash
    <3>2. new'[f] = cmd.rel /\ proj'.disk[f] = cmd.rel /\ (owns => f \in Journaled)
      <4>1. /\ new' = [new EXCEPT ![f] = cmd.rel] /\ proj'.disk[f] = cmd.rel
            /\ (owns => f \in Journaled)
        BY <2>2, <3>1, PerformDoes
      <4> QED BY <1>2, <2>1, <4>1 DEF Hashes
    <3> QED BY <1>0, <1>2, <3>2
  <2>3. CASE Has(todo, OnFile("put", f)) /\ ~ (Op.do = "put" /\ Op.at = f)
    BY <1>6, <2>3, WorkHas
  <2>4. CASE SetDown(f) /\ ~ (Op.do = "put" /\ Op.at = f) /\ Op.do = "rehash" /\ Op.at = f
    <3>1. Rehash
      BY <1>6, <2>4 DEF Working, Waiving, BestEffort, TakeSnapshot, Perform, InFlight, Touches
    <3>2. proj'.disk[f] = proj.disk[f]
      BY <3>1 DEF Rehash
    <3>3. CASE Rehashed(f)
      <4>1. new' = [new EXCEPT ![f] = proj.disk[f]]
        BY <2>4, <3>1, <3>3 DEF Rehash
      <4>2. new'[f] = proj.disk[f]
        BY <1>2, <2>1, <4>1 DEF Hashes
      <4> QED BY <1>0, <1>4, <2>4, <3>2, <4>2
    <3>4. CASE ~ Rehashed(f)
      <4>1. new' = new /\ proj.disk[f] = new[f]
        BY <1>1, <1>2, <1>4, <2>4, <3>1, <3>4 DEF Rehash, Rehashed
      <4> QED BY <1>0, <1>4, <2>4, <3>2, <4>1
    <3> QED BY <3>3, <3>4
  <2>5. CASE SetDown(f) /\ ~ (Op.do = "put" /\ Op.at = f) /\ ~ (Op.do = "rehash" /\ Op.at = f)
    <3>1. new'[f] = new[f]
      <4>1. CASE Perform
        BY <1>2, <2>1, <2>5, <4>1, PerformDoes DEF Hashes
      <4>2. CASE Waiving
        BY <4>2 DEF Waiving
      <4>3. CASE Rehash
        BY <1>2, <2>1, <2>5, <4>3 DEF Hashes, Rehash
      <4>4. ~ TakeSnapshot
        BY <2>1 DEF Apt, TakeSnapshot
      <4> QED BY <1>6, <4>1, <4>2, <4>3, <4>4 DEF Working
    <3>2. Has(todo, OnFile("rehash", f)) => Has(todo', OnFile("rehash", f))
      BY <1>6, <2>5, WorkHas
    <3>3. \/ proj'.disk[f] = proj.disk[f]
          \/ Perform /\ f = Op.at /\ Op.do \in {"put", "drop", "clear", "overlay"}
          \/ Waiving /\ Op.do = "overlay" /\ f \in reported' /\ proj'.disk[f] \in {Preset, Torn}
      BY <1>2, <1>6, WorkFile
    <3>4. CASE proj'.disk[f] = proj.disk[f]
      BY <1>0, <1>4, <2>5, <3>1, <3>2, <3>4
    <3>7. CASE Perform /\ f = Op.at /\ Op.do \in {"drop", "clear"}
      <4>1. Op \in Removing(f)
        BY <1>6, <3>7 DEF Working, Removing
      <4>2. Lasting(OnFile("put", f)) /\ \A o \in Removing(f) : o.do # "resave"
        BY DosLast DEF Removing
      <4>3. Has(todo', OnFile("put", f))
        BY <1>1, <1>6, <4>1, <4>2, WorkLed
      <4> QED BY <4>3
    <3>5. CASE Perform /\ f = Op.at /\ Op.do \in {"put", "overlay"}
      <4>1. Op.do = "overlay"
        BY <2>5, <3>5
      <4>2. proj'.disk[f] = Preset
        BY <3>5, <4>1, PerformDoes
      <4>3. Op \in OnFile("overlay", f)
        BY <1>6, <3>5, <4>1 DEF Working, OnFile
      <4>4. Lasting(OnFile("rehash", f)) /\ \A o \in OnFile("overlay", f) : o.do # "resave"
        BY DosLast DEF OnFile
      <4>5. Has(todo', OnFile("rehash", f))
        BY <1>1, <1>6, <4>3, <4>4, WorkLed
      <4> QED BY <1>0, <1>2, <1>4, <2>5, <3>1, <4>2, <4>5
    <3>6. CASE f \in reported' /\ proj'.disk[f] \in {Preset, Torn}
      BY <1>0, <1>2, <1>4, <2>5, <3>1, <3>6
    <3> QED BY <3>3, <3>4, <3>5, <3>6, <3>7
  <2> QED BY <1>1, <2>2, <2>3, <2>4, <2>5
<1> QED BY <1>0, <1>5, <1>6

\* The manifest stays recorded, or is still to be saved.
LEMMA RecordedRuns ==
  ASSUME Typed, Routed, Revives, Fitting, [Next]_vars, pc = "run", pc' = "run",
         Clearing, Building, SetsUp(cmd, was), ~ Has(todo', Doing("manifest")),
         Tracked(new') = Shipped(cmd)
  PROVE  Recorded'
<1>0. /\ cmd' = cmd /\ reported \subseteq reported' /\ (Idling \/ Working) /\ cmd.key \in Keys
  BY RunStep DEF Fixed, Routed, HasKey
<1>1. SUFFICES /\ Tracked(proj'.man[cmd.key]) = Shipped(cmd)
               /\ \/ proj'.man[cmd.key] = new' \/ Manifest(cmd.key) \in reported'
                  \/ Has(todo', Doing("resave"))
  BY <1>0 DEF Recorded, Has, Doing, Shipped, Tracked
<1>2. /\ Led(todo, Doing("put"), Doing("manifest"))
      /\ Has(todo, Doing("manifest")) \/ Recorded
      /\ \A f \in Shipped(cmd) : Has(todo, OnFile("put", f)) \/ SetDown(f)
  BY DEF Building
<1>3. CASE Idling
  <2>1. UNCHANGED <<todo, new>> /\ proj'.man = proj.man
    BY <1>3 DEF Idling
  <2> QED BY <1>0, <1>2, <2>1 DEF Recorded
<1>4. CASE Working
  <2>1. /\ Apt(cmd, was, Op) /\ Op \in Fit(was, cmd.kind, cmd.key, cmd.rel, cmd.force) /\ Op \in Ops
    BY <1>4, FirstFits DEF Clearing, Working
  <2>2. Op.do \in {"manifest", "resave"} => Op.key = cmd.key /\ Op.at = Manifest(cmd.key)
    <3>1. Op.do \in {"manifest", "resave"} => Op.key = cmd.key
      BY <2>1 DEF Fit, Suits
    <3>2. Op.do \in {"manifest", "resave"} => Op.at = Manifest(Op.key)
      BY <2>1, OpFacts DEF FileOp, ManifestOp, StateOp, PkgOp, RecOp, CoverOp
    <3> QED BY <3>1, <3>2
  <2>3. CASE Perform /\ Op.do \in {"manifest", "resave"}
    BY <1>1, <2>2, <2>3, PerformDoes
  <2>4. CASE ~ (Perform /\ Op.do \in {"manifest", "resave"})
    <3>1. Op.do # "manifest"
      BY <1>4, <2>4 DEF Working, Waiving, BestEffort, TakeSnapshot, Rehash
    <3>2. ~ Has(todo, Doing("manifest"))
      BY <1>4, <3>1, WorkHas
    <3>3. proj'.man[cmd.key] = proj.man[cmd.key]
      BY <1>0, <1>4, <2>1, <2>4, WorkManifest DEF Apt
    <3>4. Recorded
      BY <1>2, <3>2
    <3>5. CASE Op.do = "resave"
      <4>1. Waiving
        BY <1>4, <2>4, <3>5 DEF Working, TakeSnapshot, Rehash
      <4>2. Manifest(cmd.key) \in reported'
        BY <2>2, <3>5, <4>1 DEF Waiving
      <4> QED BY <3>3, <3>4, <4>2 DEF Recorded
    <3>6. CASE Op.do # "resave" /\ new' = new
      <4>1. Has(todo, Doing("resave")) => Has(todo', Doing("resave"))
        BY <1>4, <3>6, WorkHas
      <4> QED BY <1>0, <3>3, <3>4, <3>6, <4>1 DEF Recorded
    <3>7. CASE Op.do # "resave" /\ new' # new
      <4>1. \A i \in 1 .. Len(todo) : todo[i].do = "put" => todo[i] \notin Ops
        BY <1>2, <3>2 DEF Led, Has, Doing
      <4>2. Op.do # "put"
        BY <1>4, <4>1 DEF Working
      <4>3. Rehash /\ Op.do = "rehash"
        <5>1. ~ Perform
          BY <3>7, <4>2, PerformDoes
        <5>2. ~ Waiving
          BY <3>7 DEF Waiving
        <5>3. ~ TakeSnapshot
          BY <2>1 DEF Apt, TakeSnapshot
        <5> QED BY <1>4, <5>1, <5>2, <5>3 DEF Working, Rehash
      <4>4. SetDown(Op.at)
        <5>1. Op.at \in Shipped(cmd)
          BY <2>1, <4>3 DEF Apt
        <5>2. ~ Has(todo, OnFile("put", Op.at))
          BY <4>1 DEF Has, OnFile
        <5> QED BY <1>2, <5>1, <5>2
      <4>5. ~ Rejects(Op.at)
        BY <4>4 DEF Rejects, Adopts, SetDown
      <4>6. todo' = Tail(todo) \o Resaves(Op.at)
        BY <3>7, <4>3 DEF Rehash
      <4>7. CASE \E i \in DOMAIN todo : todo[i].do = "resave"
        <5>1. todo \in Seq(Ops) /\ DOMAIN todo = 1 .. Len(todo)
          BY LenProperties DEF Typed, Control
        <5>2. Has(todo, Doing("resave"))
          BY <4>7, <5>1, ElementsIn DEF Has, Doing
        <5>3. Has(todo', Doing("resave"))
          BY <1>4, <3>7, <5>2, WorkHas
        <5> QED BY <3>3, <3>4, <5>3 DEF Recorded
      <4>8. CASE ~ \E i \in DOMAIN todo : todo[i].do = "resave"
        <5>1. Resaves(Op.at) = <<Resave(cmd.key)>>
          BY <4>5, <4>8 DEF Resaves
        <5> DEFINE x == <<Resave(cmd.key)>>
        <5>2. /\ x \in Seq(Ops) /\ Resave(cmd.key) \in Ops /\ Len(x) = 1 /\ x[1] = Resave(cmd.key)
              /\ Tail(todo) \in Seq(Ops)
          BY <1>0, <1>4, MetadataOpsTyped, TupleIn, HeadIsOp DEF Working
        <5>3. Has(x, Doing("resave"))
          <6>1. Resave(cmd.key).do = "resave"
            BY DEF Resave
          <6> QED BY <5>2, <6>1 DEF Has, Doing
        <5> HIDE DEF x
        <5>4. Has(Tail(todo) \o x, Doing("resave"))
          BY <5>2, <5>3, HasConcat
        <5> QED BY <3>3, <3>4, <4>6, <5>1, <5>4 DEF Recorded, x
      <4> QED BY <4>7, <4>8
    <3> QED BY <3>5, <3>6, <3>7
  <2> QED BY <2>3, <2>4
<1> QED BY <1>0, <1>3, <1>4

LEMMA BuildingRuns ==
  ASSUME Typed, Routed, Revives, Fitting, [Next]_vars, pc = "run", pc' = "run",
         Clearing, Building
  PROVE  Building'
<1>0. cmd' = cmd /\ was' = was /\ (Idling \/ Working)
  BY RunStep DEF Fixed
<1>1. SUFFICES ASSUME SetsUp(cmd, was)
               PROVE  /\ fresh' = Files /\ Tracked(new') \subseteq Shipped(cmd)
                      /\ Led(todo', Doing("put"), Doing("manifest"))
                      /\ \A f \in Shipped(cmd) : Led(todo', OnFile("overlay", f), OnFile("rehash", f))
                      /\ \A f \in Shipped(cmd) : Led(todo', Removing(f), OnFile("put", f))
                      /\ \A f \in Shipped(cmd) : Has(todo', OnFile("put", f)) \/ SetDown(f)'
                      /\ Has(todo', Doing("manifest")) \/ Recorded'
  <2>1. SetsUp(cmd, was)' <=> SetsUp(cmd, was)
    BY <1>0 DEF SetsUp
  <2>2. Shipped(cmd)' = Shipped(cmd)
    BY <1>0 DEF Shipped
  <2>3. SetsUp(cmd, was) => cmd.rel \in Releases
    BY DEF Building
  <2> QED BY <1>0, <2>1, <2>2, <2>3 DEF Building, Has, Led, OnFile, Removing, Doing, Tracked
<1>2. /\ fresh = Files /\ Tracked(new) \subseteq Shipped(cmd)
      /\ Led(todo, Doing("put"), Doing("manifest"))
      /\ \A f \in Shipped(cmd) : Led(todo, OnFile("overlay", f), OnFile("rehash", f))
      /\ \A f \in Shipped(cmd) : Led(todo, Removing(f), OnFile("put", f))
  BY <1>1 DEF Building
<1>3. Working => Apt(cmd, was, Op) /\ new \in Hashes
  BY DEF Clearing, Working, Typed, Control
<1>4. fresh' = Files
  <2>1. Working => ~ TakeSnapshot
    BY <1>1, <1>3 DEF Apt, TakeSnapshot
  <2>2. Perform => fresh' = fresh
    BY PerformDoes
  <2> QED BY <1>0, <1>2, <2>1, <2>2 DEF Idling, Working, Waiving, Rehash
<1>5. Tracked(new') \subseteq Shipped(cmd)
  <2>1. CASE Idling
    BY <1>2, <2>1 DEF Idling
  <2>2. CASE Working
    <3>1. CASE new' = new
      BY <1>2, <3>1
    <3>2. ASSUME NEW c, Op.at \in Shipped(cmd), new' = [new EXCEPT ![Op.at] = c]
          PROVE  Tracked(new') \subseteq Shipped(cmd)
      <4>1. \A f \in Files : f # Op.at => new'[f] = new[f]
        BY <1>3, <2>2, <3>2 DEF Hashes
      <4> QED BY <1>2, <3>2, <4>1 DEF Tracked
    <3>3. CASE Perform
      BY <1>1, <1>3, <2>2, <3>1, <3>2, <3>3, PerformDoes DEF Apt
    <3>4. CASE Rehash
      BY <1>1, <1>3, <2>2, <3>1, <3>2, <3>4 DEF Apt, Rehash
    <3>5. CASE Waiving \/ TakeSnapshot
      BY <1>1, <1>3, <2>2, <3>1, <3>5 DEF Apt, Waiving, TakeSnapshot
    <3> QED BY <2>2, <3>3, <3>4, <3>5 DEF Working
  <2> QED BY <1>0, <2>1, <2>2
<1>6. Led(todo', Doing("put"), Doing("manifest"))
  <2>1. Lasting(Doing("manifest")) /\ \A o \in Doing("put") : o.do # "resave"
    BY DosLast DEF Doing
  <2> QED BY <1>0, <1>2, <2>1, WorkLed DEF Idling
<1>7. ASSUME NEW f \in Shipped(cmd) PROVE Led(todo', OnFile("overlay", f), OnFile("rehash", f))
  <2>1. Lasting(OnFile("rehash", f)) /\ \A o \in OnFile("overlay", f) : o.do # "resave"
    BY DosLast DEF OnFile
  <2>2. Led(todo, OnFile("overlay", f), OnFile("rehash", f))
    BY <1>2
  <2> QED BY <1>0, <2>1, <2>2, WorkLed DEF Idling
<1>a. ASSUME NEW f \in Shipped(cmd) PROVE Led(todo', Removing(f), OnFile("put", f))
  <2>1. Lasting(OnFile("put", f)) /\ \A o \in Removing(f) : o.do # "resave"
    BY DosLast DEF Removing
  <2>2. Led(todo, Removing(f), OnFile("put", f))
    BY <1>2
  <2> QED BY <1>0, <2>1, <2>2, WorkLed DEF Idling
<1>8. \A f \in Shipped(cmd) : Has(todo', OnFile("put", f)) \/ SetDown(f)'
  BY <1>1, SetDownRuns
<1>9. ASSUME ~ Has(todo', Doing("manifest")) PROVE Recorded'
  <2>1. ASSUME NEW f \in Shipped(cmd) PROVE f \in Tracked(new')
    <3>1. ~ Has(todo', OnFile("put", f))
      BY <1>6, <1>9 DEF Led, Has, Doing, OnFile
    <3>2. SetDown(f)' /\ f \in Files
      <4>1. cmd.key \in Keys /\ cmd.rel \in Releases
        BY <1>1 DEF Building, Routed, HasKey
      <4> QED BY <1>8, <3>1, <4>1, FilesAssumption DEF Shipped
    <3> QED BY <3>2 DEF SetDown, Tracked
  <2>2. Tracked(new') = Shipped(cmd)
    BY <1>5, <2>1
  <2> QED BY <1>1, <1>9, <2>2, RecordedRuns
<1> QED BY <1>4, <1>6, <1>5, <1>7, <1>a, <1>8, <1>9

-----------------------------------------------------------------------------
(* integration.json always makes sense *)

AllSane(s) == \A i \in 1 .. Len(s) : s[i].do = "state" => Sane(s[i].value)

LEMMA FirstSane ==
  ASSUME NEW s \in Seq(Keys)
  PROVE  \A b : Sane(SaveState(s, First(s), b).value)
<1>1. CASE s = <<>>
  BY <1>1 DEF Sane, SaveState, First, Range
<1>2. CASE s # <<>>
  BY <1>2, FirstIn DEF Sane, SaveState
<1> QED BY <1>1, <1>2

LEMMA CleanUpSane ==
  ASSUME Typed, cmd.key \in Keys, Sane(was.json)
  PROVE  AllSane(CleanUp)
<1> DEFINE C == {o \in Ops : o.do = "state" => Sane(o.value)}
           installed == IF cmd.kind = "install" THEN was.json.installed
                        ELSE RemoveFirst(was.json.installed, was.json.default)
           default == IF cmd.kind = "install" THEN was.json.default ELSE First(installed)
           down == TearDown(cmd.key, new, TRUE)
           save == <<SaveState(installed, default, FALSE)>>
           look == <<Snapshot(default)>>
           reg == Register(default)
           re == Resync(Tracked(proj.man[default]))
           back == IF cmd.kind = "install" \/ default = None THEN <<>> ELSE look \o reg \o re
<1>0. was.json \in Proper /\ new \in Hashes
  BY StoreParts DEF Typed, Control
<1>1. /\ installed \in Seq(Keys) /\ IsInjective(installed) /\ default \in Keys \cup {None}
  BY <1>0, RemoveFirstIn, FirstIn DEF Proper, State
<1>2. Sane(SaveState(installed, default, FALSE).value)
  <2>1. CASE cmd.kind = "install"
    BY <2>1 DEF Sane, SaveState
  <2>2. CASE cmd.kind # "install"
    BY <1>1, <2>2, FirstSane
  <2> QED BY <2>1, <2>2
<1> HIDE DEF installed, default
<1>3. QuietOps \subseteq C
  BY DEF QuietOps
<1>4. SaveState(installed, default, FALSE) \in C
  BY <1>1, <1>2, StateOpTyped
<1>5. down \in Seq(C)
  <2>1. \A o \in Ops : o.do # "state" => o \in C
    OBVIOUS
  <2>2. DropManifest(cmd.key) \in C
    BY <2>1, MetadataOpsTyped DEF DropManifest
  <2>3. \A f \in Tracked(new) : new[f] \in Contents /\ f \in Files
    BY <1>0 DEF Tracked, Hashes
  <2>4. \A f \in Tracked(new) : DropOp(f, new[f], TRUE) \in C
    BY <2>1, <2>3, FileOpsTyped DEF DropOp
  <2> HIDE DEF C
  <2> QED BY <2>2, <2>4, TearDownIn
<1> HIDE DEF C
<1>6. save \in Seq(C)
  BY <1>4, TupleIn
<1>7. back \in Seq(C)
  <2>1. CASE default \in Keys
    <3>1. Tracked(proj.man[default]) \in SUBSET Files
      BY DEF Tracked
    <3>2. look \in Seq(QuietOps) /\ reg \in Seq(QuietOps) /\ re \in Seq(QuietOps)
      BY <2>1, <3>1, QuietLists
    <3> HIDE DEF look, reg, re
    <3>3. look \o reg \o re \in Seq(QuietOps)
      BY <3>2, ConcatIn
    <3> QED BY <1>3, <3>3, SeqMonotonic, EmptySeq
  <2>2. CASE default = None
    BY <2>2, EmptySeq
  <2> QED BY <1>1, <2>1, <2>2
<1> HIDE DEF down, save, back
<1>8. down \o save \o back \in Seq(C)
  BY <1>5, <1>6, <1>7, ConcatIn
<1>9. CleanUp = down \o save \o back
  BY DEF CleanUp, down, save, back, installed, default
<1>10. \A i \in 1 .. Len(CleanUp) : CleanUp[i] \in C
  BY <1>8, <1>9, ElementsIn
<1> QED BY <1>10 DEF C, AllSane

LEMMA SensibleKept ==
  ASSUME Typed, Routed, Revives, Clearing, Sensible, [Next]_vars
  PROVE  Sensible'
<1>0. todo \in Seq(Ops) /\ proj \in Stores /\ Sane(proj.json) /\ Sane(was.json)
  BY DEF Typed, Control, Effects, Sensible
<1>a. pc \in {"run", "undo"} => AllSane(todo)
  BY DEF Clearing, Apt, Sensible, AllSane
<1>1. Sane(proj'.json)
  <2>1. CASE InFlight /\ proj' \in Halfway
    <3>1. todo # <<>> /\ Touches /\ Op \in Ops /\ pc \in {"run", "undo"}
      BY <1>0, <2>1, HeadIsOp DEF InFlight, Busy
    <3>2. CASE Op.do # "state"
      <4>1. Op.at # StateFile
        BY <3>1, <3>2, OpFacts, FilesApart, MetadataApart
           DEF FileOp, ManifestOp, StateOp, PkgOp, RecOp, CoverOp
      <4>2. Limited(proj')
        BY <2>1, <3>1, HalfwayIsLimited
      <4> QED BY <1>0, <4>1, <4>2 DEF Limited, SameBut
    <3>3. CASE Op.do = "state"
      <4>1. proj' \in {proj, [proj EXCEPT !.json = Op.value, !.readable = TRUE],
                       [proj EXCEPT !.json = Nothing, !.readable = FALSE]}
        BY <2>1, <3>3 DEF Halfway, Completed
      <4>2. proj'.json \in {proj.json, Op.value, Nothing}
        BY <1>0, <4>1 DEF Stores, Project
      <4>3. Sane(Nothing)
        BY DEF Sane, Nothing, Range
      <4>4. Sane(Op.value)
        BY <1>0, <1>a, <3>1, <3>3, FirstElement DEF AllSane
      <4> QED BY <1>0, <4>2, <4>3, <4>4
    <3> QED BY <3>2, <3>3
  <2>2. ASSUME NEW f \in Files, NEW c \in Written, proj' = [proj EXCEPT !.disk[f] = c]
        PROVE  Sane(proj'.json)
    BY <1>0, <2>2 DEF Stores, Project
  <2>3. ASSUME NEW ps, proj' = Restored(ps) PROVE Sane(proj'.json)
    BY <1>0, <2>3 DEF Restored
  <2> QED BY <1>0, <2>1, <2>2, <2>3, ProjShape
<1>2. Sane(was'.json)
  BY <1>0, WasShape
<1>3. ASSUME pc' = "undo" PROVE AllSane(todo')
  <2>1. CASE pc = "idle" /\ Begins
    BY <1>3, <2>1 DEF Begins, Begin
  <2>2. CASE Waits
    BY <1>3, <1>a, <2>2 DEF Waits
  <2>3. CASE Advances
    <3>1. PICK n \in 1 .. Len(todo) : Follows(todo', todo, n)
      BY <2>3 DEF Advances
    <3> QED BY <1>0, <1>a, <2>3, <3>1, RestElements DEF AllSane, Advances
  <2>4. CASE TakeSnapshot
    <3>1. todo # <<>> /\ todo' = Tail(todo) /\ pc \in {"run", "undo"}
      BY <2>4 DEF TakeSnapshot, Busy
    <3> QED BY <1>0, <1>a, <3>1, TailFollows, RestElements DEF AllSane
  <2>5. CASE Rehash
    <3>1. pc \in {"run", "undo"}
      BY <2>5 DEF Rehash, Busy
    <3> QED BY <1>a, <2>5, <3>1, RehashRest DEF AllSane
  <2>6. CASE Falls
    <3>1. todo' = CleanUp /\ cmd.key \in Keys
      BY <2>6 DEF Falls, Routed, HasKey
    <3>2. AllSane(CleanUp)
      BY <1>0, <3>1, CleanUpSane
    <3> QED BY <3>1, <3>2 DEF AllSane
  <2>7. CASE TurnsBack
    BY <1>3, <2>7 DEF TurnsBack
  <2> QED BY <1>3, <2>1, <2>2, <2>3, <2>4, <2>5, <2>6, <2>7, StepShape
<1> QED BY <1>1, <1>2, <1>3 DEF Sensible, AllSane

-----------------------------------------------------------------------------
(* What is in the lists that commands are made of *)

Only(s, D) == s \in Seq(Ops) /\ \A i \in 1 .. Len(s) : s[i].do \in D

LEMMA OnlyBy ==
  ASSUME NEW D, NEW s \in Seq({o \in Ops : o.do \in D})
  PROVE  Only(s, D)
<1> DEFINE S == {o \in Ops : o.do \in D}
<1>1. S \subseteq Ops /\ \A o \in S : o.do \in D
  OBVIOUS
<1> HIDE DEF S
<1>2. s \in Seq(Ops) /\ \A i \in 1 .. Len(s) : s[i] \in S
  BY <1>1, SeqMonotonic, ElementsIn DEF S
<1> QED BY <1>1, <1>2 DEF Only

LEMMA ListKinds ==
  ASSUME Typed, NEW k \in Keys
  PROVE  /\ \A force \in BOOLEAN : Only(TearDown(k, proj.man[k], force), {"drop", "dropManifest"})
         /\ \A r \in Releases : Only(SetUp(k, r), {"put", "manifest"}) /\ Only(Stale(k, r), {"drop"})
         /\ Only(Register(k), {"overlay", "cover"}) /\ Only(Unregister(k), {"clear", "uncover"})
         /\ \A X \in SUBSET Files : Only(Resync(X), {"rehash"})
         /\ \A d : Only(Fetched(d, k), {"package", "unpackage", "record", "unrecord"})
         /\ Only(Forget(k), {"package", "unpackage", "record", "unrecord"})
         /\ \A s \in Seq(Keys), d \in Keys \cup {None}, b \in BOOLEAN :
              IsInjective(s) => Only(<<SaveState(s, d, b)>>, {"state"})
<1> DEFINE S(D) == {o \in Ops : o.do \in D}
<1>0. /\ proj.recs \subseteq External
      /\ \A f \in Files : proj.man[k][f] \in Contents
      /\ Overrides[k] \subseteq Files /\ \A r \in Releases : Ships[k][r] \subseteq Files
  BY StoreParts, FilesAssumption DEF Typed, Effects, Hashes
<1>1. ASSUME NEW force \in BOOLEAN
      PROVE  Only(TearDown(k, proj.man[k], force), {"drop", "dropManifest"})
  <2> DEFINE D == {"drop", "dropManifest"}
             A == S(D)
  <2>1. DropManifest(k) \in A
    BY MetadataOpsTyped DEF DropManifest
  <2>2. \A f \in Tracked(proj.man[k]) : DropOp(f, proj.man[k][f], force) \in A
    BY <1>0, FileOpsTyped DEF DropOp, Tracked
  <2> HIDE DEF A
  <2>3. TearDown(k, proj.man[k], force) \in Seq(A)
    BY <2>1, <2>2, TearDownIn
  <2> QED BY <2>3, OnlyBy DEF A
<1>2. ASSUME NEW r \in Releases
      PROVE  Only(SetUp(k, r), {"put", "manifest"}) /\ Only(Stale(k, r), {"drop"})
  <2> DEFINE A == S({"put", "manifest"})
             B == S({"drop"})
  <2>1. SaveManifest(k) \in A
    BY MetadataOpsTyped DEF SaveManifest
  <2>2. \A f \in Ships[k][r] : PutOp(f) \in A
    BY <1>0, FileOpsTyped DEF PutOp
  <2>3. \A f \in Tracked(proj.man[k]) : DropOp(f, proj.man[k][f], TRUE) \in B
    BY <1>0, FileOpsTyped DEF DropOp, Tracked
  <2> HIDE DEF A, B
  <2>4. SetUp(k, r) \in Seq(A) /\ Stale(k, r) \in Seq(B)
    BY <2>1, <2>2, <2>3, SetUpIn, StaleIn
  <2> QED BY <2>4, OnlyBy DEF A, B
<1>3. Only(Register(k), {"overlay", "cover"}) /\ Only(Unregister(k), {"clear", "uncover"})
  <2> DEFINE A == S({"overlay", "cover"})
             B == S({"clear", "uncover"})
  <2>1. PresetOp("cover", k) \in A /\ PresetOp("uncover", k) \in B
    BY MetadataOpsTyped DEF PresetOp
  <2>2. \A f \in Overrides[k] : OverlayOp(f) \in A
    BY <1>0, FileOpsTyped DEF OverlayOp
  <2>3. \A f \in CoveredFor(proj, k) : ClearOp(f) \in B
    BY FileOpsTyped DEF ClearOp, CoveredFor
  <2> HIDE DEF A, B
  <2>4. Register(k) \in Seq(A) /\ Unregister(k) \in Seq(B)
    BY <1>0, <2>1, <2>2, <2>3, RegisterIn, UnregisterIn
  <2> QED BY <2>4, OnlyBy DEF A, B
<1>4. ASSUME NEW X \in SUBSET Files PROVE Only(Resync(X), {"rehash"})
  <2> DEFINE A == S({"rehash"})
  <2>1. \A f \in X : RehashOp(f) \in A
    BY FileOpsTyped DEF RehashOp
  <2> HIDE DEF A
  <2>2. Resync(X) \in Seq(A)
    BY <2>1, EachFileIn DEF Resync
  <2> QED BY <2>2, OnlyBy DEF A
<1>5. /\ \A d : Only(Fetched(d, k), {"package", "unpackage", "record", "unrecord"})
      /\ Only(Forget(k), {"package", "unpackage", "record", "unrecord"})
  <2> DEFINE A == S({"package", "unpackage", "record", "unrecord"})
  <2>1. \A l \in External : /\ PackageOp("package", l) \in A /\ PackageOp("unpackage", l) \in A
                            /\ RecordOp("record", l) \in A /\ RecordOp("unrecord", l) \in A
    BY MetadataOpsTyped DEF PackageOp, RecordOp
  <2> HIDE DEF A
  <2>2. Forget(k) \in Seq(A) /\ \A d : Fetched(d, k) \in Seq(A)
    BY <1>0, <2>1, PackagesIn
  <2> QED BY <2>2, OnlyBy DEF A
<1>6. ASSUME NEW s \in Seq(Keys), NEW d \in Keys \cup {None}, NEW b \in BOOLEAN, IsInjective(s)
      PROVE  Only(<<SaveState(s, d, b)>>, {"state"})
  <2> DEFINE A == S({"state"})
  <2>1. SaveState(s, d, b) \in A
    BY <1>6, StateOpTyped DEF SaveState
  <2> HIDE DEF A
  <2>2. <<SaveState(s, d, b)>> \in Seq(A)
    BY <2>1, TupleIn
  <2> QED BY <2>2, OnlyBy DEF A
<1> QED BY <1>1, <1>2, <1>3, <1>4, <1>5, <1>6

LEMMA OnlyLed ==
  ASSUME NEW D, NEW s, Only(s, D), NEW A, \A o \in A : o.do \notin D
  PROVE  \A B : Led(s, A, B)
BY DEF Only, Led

\* One operation for each file, for each of its files.
LEMMA EachHas ==
  ASSUME NEW X \in SUBSET Files, NEW f \in X
  PROVE  /\ \E i \in 1 .. Len(Each(X, PutOp)) : Each(X, PutOp)[i] = PutOp(f)
         /\ \E i \in 1 .. Len(Each(X, RehashOp)) : Each(X, RehashOp)[i] = RehashOp(f)
<1> DEFINE e == SetToSeq(X)
<1>1. e \in Seq(X) /\ Range(e) = X /\ DOMAIN e = 1 .. Len(e) /\ Len(e) \in Nat
  BY FilesFinite, SetToSeqIn, LenProperties
<1> HIDE DEF e
<1>2. PICK i \in 1 .. Len(e) : e[i] = f
  BY <1>1 DEF Range
<1>3. Each(X, PutOp) = [j \in 1 .. Len(e) |-> PutOp(e[j])]
      /\ Each(X, RehashOp) = [j \in 1 .. Len(e) |-> RehashOp(e[j])]
  BY DEF Each, e
<1>4. Each(X, PutOp)[i] = PutOp(f) /\ i \in 1 .. Len(Each(X, PutOp))
  BY <1>1, <1>2, <1>3
<1>5. Each(X, RehashOp)[i] = RehashOp(f) /\ i \in 1 .. Len(Each(X, RehashOp))
  BY <1>1, <1>2, <1>3
<1> QED BY <1>4, <1>5

\* The removals of the files of X, recorded in m.
Drops(X, m, force) ==
  [i \in 1 .. Len(SetToSeq(X)) |-> DropOp(SetToSeq(X)[i], m[SetToSeq(X)[i]], force)]

LEMMA DropsHave ==
  ASSUME NEW X \in SUBSET Files, NEW m \in Hashes, NEW force \in BOOLEAN, NEW f \in X
  PROVE  Drops(X, m, force) \in Seq(Ops) /\ Has(Drops(X, m, force), OnFile("drop", f))
<1> DEFINE e == SetToSeq(X)
           d == Drops(X, m, force)
<1>1. e \in Seq(X) /\ Range(e) = X /\ DOMAIN e = 1 .. Len(e) /\ Len(e) \in Nat
  BY FilesFinite, SetToSeqIn, LenProperties
<1>0. \A g \in X : DropOp(g, m[g], force) \in Ops
  BY FileOpsTyped DEF Hashes
<1>a. d \in Seq(Ops)
  BY <1>0, DropsIn DEF Drops
<1> HIDE DEF e
<1>2. PICK i \in 1 .. Len(e) : e[i] = f
  BY <1>1 DEF Range
<1>3. d = [j \in 1 .. Len(e) |-> DropOp(e[j], m[e[j]], force)]
  BY DEF Drops, e
<1>4. d[i] = DropOp(f, m[f], force) /\ i \in 1 .. Len(d)
  BY <1>1, <1>2, <1>3
<1>5. DropOp(f, m[f], force).do = "drop" /\ DropOp(f, m[f], force).at = f
  BY DEF DropOp
<1> HIDE DEF d
<1>6. d[i] \in OnFile("drop", f)
  BY <1>0, <1>4, <1>5 DEF OnFile
<1> QED BY <1>a, <1>4, <1>6 DEF Has, d

LEMMA TearDownHas ==
  ASSUME Typed, NEW k \in Keys, NEW force \in BOOLEAN
  PROVE  /\ \A f \in Tracked(proj.man[k]) :
              Has(TearDown(k, proj.man[k], force), OnFile("drop", f))
         /\ Has(TearDown(k, proj.man[k], force), OnKey("dropManifest", k))
<1> DEFINE m == proj.man[k]
           X == Tracked(m)
           d == Drops(X, m, force)
           t == <<DropManifest(k)>>
<1>0. m \in Hashes /\ X \in SUBSET Files
  BY StoreParts DEF Typed, Effects, Tracked
<1>1. TearDown(k, m, force) = d \o t
  BY DEF TearDown, Each, Drops
<1>2. t \in Seq(Ops) /\ Has(t, OnKey("dropManifest", k))
  <2>1. DropManifest(k) \in Ops /\ DropManifest(k).do = "dropManifest" /\ DropManifest(k).key = k
    BY MetadataOpsTyped DEF DropManifest
  <2>2. DropManifest(k) \in OnKey("dropManifest", k)
    BY <2>1 DEF OnKey
  <2>3. t \in Seq(Ops) /\ 1 \in 1 .. Len(t) /\ t[1] = DropManifest(k)
    BY <2>1, TupleIn
  <2> QED BY <2>2, <2>3 DEF Has
<1>3. d \in Seq(Ops)
  <2>1. \A g \in X : DropOp(g, m[g], force) \in Ops
    BY <1>0, FileOpsTyped DEF Hashes
  <2> HIDE DEF m, X
  <2> QED BY <1>0, <2>1, DropsIn DEF Drops
<1>4. \A f \in X : Has(d, OnFile("drop", f))
  <2> HIDE DEF m, X
  <2> QED BY <1>0, DropsHave
<1> HIDE DEF d, t, X
<1>5. \A B : Has(d \o t, B) <=> Has(d, B) \/ Has(t, B)
  BY <1>2, <1>3, HasConcat
<1> QED BY <1>1, <1>2, <1>4, <1>5 DEF X

LEMMA StaleHas ==
  ASSUME Typed, NEW k \in Keys, NEW r, NEW f \in Tracked(proj.man[k]), f \notin Ships[k][r]
  PROVE  Has(Stale(k, r), OnFile("drop", f))
<1> DEFINE m == proj.man[k]
           X == Tracked(m) \ Ships[k][r]
<1>0. m \in Hashes /\ X \in SUBSET Files /\ f \in X
  BY StoreParts DEF Typed, Effects, Tracked
<1>1. Stale(k, r) = Drops(X, m, TRUE)
  BY DEF Stale, StaleOp, Each, Drops
<1> HIDE DEF m, X
<1> QED BY <1>0, <1>1, DropsHave

LEMMA SetUpHas ==
  ASSUME Typed, NEW k \in Keys, NEW r \in Releases
  PROVE  /\ \A f \in Ships[k][r] : Has(SetUp(k, r), OnFile("put", f))
         /\ Has(SetUp(k, r), Doing("manifest"))
         /\ Led(SetUp(k, r), Doing("put"), Doing("manifest"))
<1> DEFINE X == Ships[k][r]
           p == Each(X, PutOp)
           t == <<SaveManifest(k)>>
<1>0. X \in SUBSET Files
  BY FilesAssumption
<1>1. SetUp(k, r) = p \o t
  BY DEF SetUp
<1>2. \A f \in Files : PutOp(f) \in Ops
  BY FileOpsTyped
<1>3. p \in Seq(Ops)
  BY <1>0, <1>2, EachFileIn
<1>4. /\ t \in Seq(Ops) /\ Has(t, Doing("manifest")) /\ Led(t, Doing("put"), Doing("manifest"))
  <2>1. SaveManifest(k) \in Ops /\ SaveManifest(k).do = "manifest"
    BY MetadataOpsTyped DEF SaveManifest
  <2>2. t \in Seq(Ops) /\ Len(t) = 1 /\ t[1] = SaveManifest(k)
    BY <2>1, TupleIn
  <2> HIDE DEF t
  <2>3. Has(t, Doing("manifest"))
    BY <2>1, <2>2 DEF Has, Doing
  <2>4. Led(t, Doing("put"), Doing("manifest"))
    BY <2>1, <2>2 DEF Led, Doing
  <2> QED BY <2>2, <2>3, <2>4
<1>5. ASSUME NEW f \in X PROVE Has(p, OnFile("put", f))
  <2>1. PutOp(f) \in OnFile("put", f)
    BY <1>0, <1>2 DEF OnFile, PutOp
  <2>2. PICK i \in 1 .. Len(p) : p[i] = PutOp(f)
    BY <1>0, <1>5, EachHas
  <2> QED BY <2>1, <2>2 DEF Has
<1> HIDE DEF p, t
<1>6. \A B : Has(p \o t, B) <=> Has(p, B) \/ Has(t, B)
  BY <1>3, <1>4, HasConcat
<1>7. Led(p \o t, Doing("put"), Doing("manifest"))
  BY <1>3, <1>4, LedConcat
<1> QED BY <1>1, <1>4, <1>5, <1>6, <1>7

LEMMA ResyncHas ==
  ASSUME NEW X \in SUBSET Files, NEW f \in X
  PROVE  Has(Resync(X), OnFile("rehash", f))
<1>1. RehashOp(f) \in OnFile("rehash", f)
  BY FileOpsTyped DEF OnFile, RehashOp
<1>2. PICK i \in 1 .. Len(Resync(X)) : Resync(X)[i] = RehashOp(f)
  BY EachHas DEF Resync
<1> QED BY <1>1, <1>2 DEF Has

LEMMA SaveStateHas ==
  ASSUME NEW s \in Seq(Keys), IsInjective(s), NEW d \in Keys \cup {None}, NEW b \in BOOLEAN, NEW c
  PROVE  LET x == <<SaveState(s, d, b)>>
         IN  /\ Has(x, Doing("state"))
             /\ Names(c, proj, SaveState(s, d, b).value) => Led(x, Misnaming(c, proj), Doing("state"))
<1> DEFINE o == SaveState(s, d, b)
           x == <<o>>
<1>1. o \in Ops /\ o.do = "state"
  BY StateOpTyped DEF SaveState
<1> HIDE DEF o
<1>2. Len(x) = 1 /\ x[1] = o
  OBVIOUS
<1> HIDE DEF x
<1>3. Has(x, Doing("state"))
  BY <1>1, <1>2 DEF Has, Doing
<1>4. Names(c, proj, o.value) => Led(x, Misnaming(c, proj), Doing("state"))
  BY <1>1, <1>2 DEF Led, Misnaming
<1> QED BY <1>3, <1>4 DEF x, o

-----------------------------------------------------------------------------
(* Commands begin with what they are to do *)

AptFor(c) == {o \in Ops : Apt(c, proj, o)}
Settles(s, c) == Led(s, Misnaming(c, proj), Doing("state"))
Refreshes(s, c) == \A f \in Shipped(c) : Has(s, OnFile("rehash", f))
Overlays(s, c) ==
  SetsUp(c, proj) => \A f \in Shipped(c) : Led(s, OnFile("overlay", f), OnFile("rehash", f))
Refills(s, c) == \A f \in Shipped(c) : Has(s, OnFile("put", f))
Overwrites(s, c) ==
  SetsUp(c, proj) => \A f \in Shipped(c) : Led(s, Removing(f), OnFile("put", f))
Part(s, c) == s \in Seq(AptFor(c)) /\ Led(s, Doing("put"), Doing("manifest"))
Neat(s, c) == Part(s, c) /\ Settles(s, c) /\ Overlays(s, c)
Tidy(s, c) == Neat(s, c) /\ Overwrites(s, c)

Ready(c, s) ==
  /\ Tidy(s, c)
  /\ Names(c, proj, proj.json) \/ Has(s, Doing("state"))
  /\ \A f \in Doomed(c, proj) : Has(s, OnFile("drop", f))
  /\ \A k \in Leavers(c, proj) :
       /\ k \in Keys /\ (c.kind = "switch" => k # c.key)
       /\ Has(s, OnKey("dropManifest", k)) \/ proj.man[k] = NoFiles
  /\ SetsUp(c, proj) =>
       /\ c.rel \in Releases /\ Has(s, Doing("manifest"))
       /\ Refills(s, c)

LEMMA AptIn ==
  ASSUME NEW c, NEW s \in Seq(AptFor(c))
  PROVE  s \in Seq(Ops) /\ \A i \in 1 .. Len(s) : Apt(c, proj, s[i])
<1>1. AptFor(c) \subseteq Ops /\ \A o \in AptFor(c) : Apt(c, proj, o)
  BY DEF AptFor
<1> HIDE DEF AptFor
<1>2. s \in Seq(Ops) /\ \A i \in 1 .. Len(s) : s[i] \in AptFor(c)
  BY <1>1, SeqMonotonic, ElementsIn
<1> QED BY <1>1, <1>2

LEMMA PartsJoin ==
  ASSUME NEW c, NEW s, NEW t, Part(s, c), Part(t, c)
  PROVE  /\ Part(s \o t, c)
         /\ \A B : Has(s \o t, B) <=> Has(s, B) \/ Has(t, B)
         /\ Settles(t, c) /\ (Settles(s, c) \/ Has(t, Doing("state"))) => Settles(s \o t, c)
         /\ Overlays(t, c) /\ (Overlays(s, c) \/ Refreshes(t, c)) => Overlays(s \o t, c)
         /\ Overwrites(t, c) /\ (Overwrites(s, c) \/ Refills(t, c)) => Overwrites(s \o t, c)
<1>0. s \in Seq(Ops) /\ t \in Seq(Ops)
  BY AptIn DEF Part
<1>1. \A B : Has(s \o t, B) <=> Has(s, B) \/ Has(t, B)
  BY <1>0, HasConcat
<1>2. Part(s \o t, c)
  <2>1. s \o t \in Seq(AptFor(c))
    BY ConcatIn DEF Part
  <2>2. Led(s \o t, Doing("put"), Doing("manifest"))
    BY <1>0, LedConcat DEF Part
  <2> QED BY <2>1, <2>2 DEF Part
<1>3. ASSUME Settles(t, c), Settles(s, c) \/ Has(t, Doing("state")) PROVE Settles(s \o t, c)
  BY <1>0, <1>3, LedConcat DEF Settles
<1>4. ASSUME Overlays(t, c), Overlays(s, c) \/ Refreshes(t, c) PROVE Overlays(s \o t, c)
  <2>1. SUFFICES ASSUME SetsUp(c, proj), NEW f \in Shipped(c)
                 PROVE  Led(s \o t, OnFile("overlay", f), OnFile("rehash", f))
    BY DEF Overlays
  <2>2. Led(t, OnFile("overlay", f), OnFile("rehash", f))
    BY <1>4, <2>1 DEF Overlays
  <2>3. Led(s, OnFile("overlay", f), OnFile("rehash", f)) \/ Has(t, OnFile("rehash", f))
    BY <1>4, <2>1 DEF Overlays, Refreshes
  <2> QED BY <1>0, <2>2, <2>3, LedConcat
<1>5. ASSUME Overwrites(t, c), Overwrites(s, c) \/ Refills(t, c) PROVE Overwrites(s \o t, c)
  <2>1. SUFFICES ASSUME SetsUp(c, proj), NEW f \in Shipped(c)
                 PROVE  Led(s \o t, Removing(f), OnFile("put", f))
    BY DEF Overwrites
  <2>2. Led(t, Removing(f), OnFile("put", f))
    BY <1>5, <2>1 DEF Overwrites
  <2>3. Led(s, Removing(f), OnFile("put", f)) \/ Has(t, OnFile("put", f))
    BY <1>5, <2>1 DEF Overwrites, Refills
  <2> QED BY <1>0, <2>2, <2>3, LedConcat
<1> QED BY <1>1, <1>2, <1>3, <1>4, <1>5

\* Tidy lists joined.
LEMMA TidyJoin ==
  ASSUME NEW c, NEW s, NEW t, Tidy(s, c), Tidy(t, c)
  PROVE  Tidy(s \o t, c) /\ \A B : Has(s \o t, B) <=> Has(s, B) \/ Has(t, B)
BY PartsJoin DEF Tidy, Neat

LEMMA AptFacts ==
  ASSUME NEW c, c.key \in Keys
  PROVE  LET A == AptFor(c)
         IN  /\ \A l \in Keys : /\ c.kind # "uninstall" => SaveManifest(l) \in A
                                /\ (SetsUp(c, proj) => l # c.key) => DropManifest(l) \in A
                                /\ PresetOp("cover", l) \in A /\ PresetOp("uncover", l) \in A
                                /\ ~ SetsUp(c, proj) => Snapshot(l) \in A
             /\ \A l \in External :
                  /\ PackageOp("package", l) \in A /\ PackageOp("unpackage", l) \in A
                  /\ RecordOp("record", l) \in A /\ RecordOp("unrecord", l) \in A
             /\ \A s \in Seq(Keys), d \in Keys \cup {None}, b \in BOOLEAN :
                  IsInjective(s) /\ Sane(SaveState(s, d, b).value) => SaveState(s, d, b) \in A
             /\ \A f \in Files :
                  /\ c.kind # "uninstall" /\ (SetsUp(c, proj) => f \in Shipped(c)) =>
                       /\ f \notin Doomed(c, proj) => PutOp(f) \in A
                       /\ RehashOp(f) \in A
                  /\ ClearOp(f) \in A /\ \A h \in Contents, b \in BOOLEAN : DropOp(f, h, b) \in A
                  /\ (f \in Doomed(c, proj) =>
                        Heir(c, proj) # None /\ f \in Overrides[Heir(c, proj)]) =>
                       OverlayOp(f) \in A
<1> DEFINE A == AptFor(c)
<1>0. \A o \in Ops : Apt(c, proj, o) => o \in A
  BY DEF AptFor
<1> HIDE DEF A
<1>1. ASSUME NEW l \in Keys
      PROVE  /\ c.kind # "uninstall" => SaveManifest(l) \in A
             /\ (SetsUp(c, proj) => l # c.key) => DropManifest(l) \in A
             /\ PresetOp("cover", l) \in A /\ PresetOp("uncover", l) \in A
             /\ ~ SetsUp(c, proj) => Snapshot(l) \in A
  <2>1. /\ SaveManifest(l) \in Ops /\ DropManifest(l) \in Ops /\ Snapshot(l) \in Ops
        /\ PresetOp("cover", l) \in Ops /\ PresetOp("uncover", l) \in Ops
    BY MetadataOpsTyped
  <2>2. /\ SaveManifest(l).do = "manifest" /\ Snapshot(l).do = "snapshot"
        /\ DropManifest(l).do = "dropManifest" /\ DropManifest(l).key = l
        /\ PresetOp("cover", l).do = "cover" /\ PresetOp("uncover", l).do = "uncover"
    BY DEF SaveManifest, Snapshot, DropManifest, PresetOp
  <2>3. c.kind # "uninstall" => Apt(c, proj, SaveManifest(l))
    BY <2>2 DEF Apt
  <2>4. (SetsUp(c, proj) => l # c.key) => Apt(c, proj, DropManifest(l))
    BY <2>2 DEF Apt
  <2>5. Apt(c, proj, PresetOp("cover", l)) /\ Apt(c, proj, PresetOp("uncover", l))
    BY <2>2 DEF Apt
  <2>6. ~ SetsUp(c, proj) => Apt(c, proj, Snapshot(l))
    BY <2>2 DEF Apt
  <2> QED BY <1>0, <2>1, <2>3, <2>4, <2>5, <2>6
<1>2. ASSUME NEW l \in External
      PROVE  /\ PackageOp("package", l) \in A /\ PackageOp("unpackage", l) \in A
             /\ RecordOp("record", l) \in A /\ RecordOp("unrecord", l) \in A
  <2>1. /\ PackageOp("package", l).do = "package" /\ PackageOp("unpackage", l).do = "unpackage"
        /\ RecordOp("record", l).do = "record" /\ RecordOp("unrecord", l).do = "unrecord"
    BY DEF PackageOp, RecordOp
  <2>2. /\ Apt(c, proj, PackageOp("package", l)) /\ Apt(c, proj, PackageOp("unpackage", l))
        /\ Apt(c, proj, RecordOp("record", l)) /\ Apt(c, proj, RecordOp("unrecord", l))
    BY <2>1 DEF Apt
  <2> QED BY <1>0, <2>2, MetadataOpsTyped
<1>3. ASSUME NEW s \in Seq(Keys), NEW d \in Keys \cup {None}, NEW b \in BOOLEAN, IsInjective(s),
             Sane(SaveState(s, d, b).value)
      PROVE  SaveState(s, d, b) \in A
  <2>1. SaveState(s, d, b) \in Ops /\ SaveState(s, d, b).do = "state"
    BY <1>3, StateOpTyped DEF SaveState
  <2>2. Apt(c, proj, SaveState(s, d, b))
    BY <1>3, <2>1 DEF Apt
  <2> QED BY <1>0, <2>1, <2>2
<1>4. ASSUME NEW f \in Files
      PROVE  /\ c.kind # "uninstall" /\ (SetsUp(c, proj) => f \in Shipped(c)) =>
                  /\ f \notin Doomed(c, proj) => PutOp(f) \in A
                  /\ RehashOp(f) \in A
             /\ ClearOp(f) \in A
             /\ (f \in Doomed(c, proj) =>
                   Heir(c, proj) # None /\ f \in Overrides[Heir(c, proj)]) =>
                  OverlayOp(f) \in A
  <2>1. /\ PutOp(f) \in Ops /\ PutOp(f).do = "put" /\ PutOp(f).at = f
        /\ RehashOp(f) \in Ops /\ RehashOp(f).do = "rehash" /\ RehashOp(f).at = f
        /\ ClearOp(f) \in Ops /\ ClearOp(f).do = "clear" /\ ClearOp(f).at = f
        /\ OverlayOp(f) \in Ops /\ OverlayOp(f).do = "overlay" /\ OverlayOp(f).at = f
    BY FileOpsTyped DEF PutOp, RehashOp, ClearOp, OverlayOp
  <2>2. c.kind # "uninstall" /\ (SetsUp(c, proj) => f \in Shipped(c)) =>
          /\ f \notin Doomed(c, proj) => Apt(c, proj, PutOp(f))
          /\ Apt(c, proj, RehashOp(f))
    BY <2>1 DEF Apt
  <2>3. Apt(c, proj, ClearOp(f))
    BY <2>1 DEF Apt
  <2>4. (f \in Doomed(c, proj) => Heir(c, proj) # None /\ f \in Overrides[Heir(c, proj)]) =>
          Apt(c, proj, OverlayOp(f))
    BY <2>1 DEF Apt
  <2> QED BY <1>0, <2>1, <2>2, <2>3, <2>4
<1>5. ASSUME NEW f \in Files, NEW h \in Contents, NEW b \in BOOLEAN
      PROVE  DropOp(f, h, b) \in A
  <2>1. DropOp(f, h, b) \in Ops /\ DropOp(f, h, b).do = "drop" /\ DropOp(f, h, b).at = f
    BY FileOpsTyped DEF DropOp
  <2>2. Apt(c, proj, DropOp(f, h, b))
    BY <1>5, <2>1 DEF Apt
  <2> QED BY <1>0, <2>1, <2>2
<1> QED BY <1>1, <1>2, <1>3, <1>4, <1>5 DEF A

\* Lists that command c may have.
LEMMA PartBy ==
  ASSUME NEW c, NEW D, NEW s \in Seq(AptFor(c)), Only(s, D)
  PROVE  /\ "put" \notin D => Part(s, c)
         /\ "state" \notin D => Settles(s, c)
         /\ "overlay" \notin D => Overlays(s, c)
         /\ D \cap {"drop", "clear"} = {} => Overwrites(s, c)
<1>1. ASSUME "put" \notin D PROVE Part(s, c)
  <2>1. \A o \in Doing("put") : o.do \notin D
    BY <1>1 DEF Doing
  <2> QED BY <2>1, OnlyLed DEF Part
<1>2. ASSUME "state" \notin D PROVE Settles(s, c)
  <2>1. \A o \in Misnaming(c, proj) : o.do \notin D
    BY <1>2 DEF Misnaming
  <2> QED BY <2>1, OnlyLed DEF Settles
<1>3. ASSUME "overlay" \notin D PROVE Overlays(s, c)
  <2>1. \A f : \A o \in OnFile("overlay", f) : o.do \notin D
    BY <1>3 DEF OnFile
  <2> QED BY <2>1, OnlyLed DEF Overlays
<1>4. ASSUME D \cap {"drop", "clear"} = {} PROVE Overwrites(s, c)
  <2>1. \A f : \A o \in Removing(f) : o.do \notin D
    BY <1>4 DEF Removing
  <2> QED BY <2>1, OnlyLed DEF Overwrites
<1> QED BY <1>1, <1>2, <1>3, <1>4

LEMMA PartLists ==
  ASSUME Typed, NEW c, c.key \in Keys
  PROVE  /\ \A l \in Keys :
              /\ \A force \in BOOLEAN :
                   (SetsUp(c, proj) => l # c.key) => Neat(TearDown(l, proj.man[l], force), c)
              /\ Neat(Unregister(l), c)
              /\ Doomed(c, proj) = {} \/ l = Heir(c, proj) =>
                   /\ Part(Register(l), c) /\ Settles(Register(l), c)
                   /\ Overwrites(Register(l), c)
              /\ Tidy(Forget(l), c) /\ \A d : Tidy(Fetched(d, l), c)
         /\ SetsUp(c, proj) /\ c.rel \in Releases =>
              /\ Shipped(c) \cap Doomed(c, proj) = {} => Tidy(SetUp(c.key, c.rel), c)
              /\ Tidy(Resync(Shipped(c)), c) /\ Refreshes(Resync(Shipped(c)), c)
              /\ Tidy(Stale(c.key, c.rel), c)
         /\ c.kind = "use" =>
              \A l \in Keys : <<Snapshot(l)>> \in Seq(AptFor(c)) /\ \A X \in SUBSET Files : Tidy(Resync(X), c)
         /\ \A s \in Seq(Keys), d \in Keys \cup {None}, b \in BOOLEAN :
              IsInjective(s) /\ Sane(SaveState(s, d, b).value) =>
                LET x == <<SaveState(s, d, b)>>
                IN  /\ Part(x, c) /\ Overlays(x, c) /\ Overwrites(x, c)
                    /\ Has(x, Doing("state"))
                    /\ Names(c, proj, SaveState(s, d, b).value) => Settles(x, c)
<1> DEFINE A == AptFor(c)
<1>0. /\ proj.recs \subseteq External
      /\ \A l \in Keys : \A f \in Files : proj.man[l][f] \in Contents
      /\ \A l \in Keys : Overrides[l] \subseteq Files
      /\ \A l \in Keys : \A r \in Releases : Ships[l][r] \subseteq Files
  BY StoreParts, FilesAssumption DEF Typed, Effects, Hashes
<1>1. ASSUME NEW l \in Keys, NEW force \in BOOLEAN, SetsUp(c, proj) => l # c.key
      PROVE  Neat(TearDown(l, proj.man[l], force), c)
  <2>1. \A f \in Tracked(proj.man[l]) : f \in Files
    BY DEF Tracked
  <2>2. \A f \in Tracked(proj.man[l]) : DropOp(f, proj.man[l][f], force) \in A
    BY <1>0, <2>1, AptFacts
  <2>3. DropManifest(l) \in A
    BY <1>1, AptFacts
  <2> HIDE DEF A
  <2>4. TearDown(l, proj.man[l], force) \in Seq(A)
    BY <2>2, <2>3, TearDownIn
  <2> DEFINE D == {"drop", "dropManifest"}
  <2>5. Only(TearDown(l, proj.man[l], force), D)
    BY ListKinds
  <2>6. "put" \notin D /\ "state" \notin D /\ "overlay" \notin D
    OBVIOUS
  <2> HIDE DEF D
  <2> QED BY <2>4, <2>5, <2>6, PartBy DEF Neat, A
<1>2. ASSUME NEW l \in Keys PROVE Neat(Unregister(l), c)
  <2>1. \A f \in CoveredFor(proj, l) : f \in Files
    BY DEF CoveredFor
  <2>2. PresetOp("uncover", l) \in A /\ \A f \in CoveredFor(proj, l) : ClearOp(f) \in A
    BY <2>1, AptFacts
  <2> HIDE DEF A
  <2>4. Unregister(l) \in Seq(A)
    BY <2>2, UnregisterIn
  <2> DEFINE D == {"clear", "uncover"}
  <2>5. Only(Unregister(l), D)
    BY ListKinds
  <2>6. "put" \notin D /\ "state" \notin D /\ "overlay" \notin D
    OBVIOUS
  <2> HIDE DEF D
  <2> QED BY <2>4, <2>5, <2>6, PartBy DEF Neat, A
<1>3. ASSUME NEW l \in Keys, Doomed(c, proj) = {} \/ l = Heir(c, proj)
      PROVE  /\ Part(Register(l), c) /\ Settles(Register(l), c)
             /\ Overwrites(Register(l), c)
  <2>0. l # None
    BY KeysAssumption
  <2>1. PresetOp("cover", l) \in A /\ \A f \in Overrides[l] : OverlayOp(f) \in A
    BY <1>0, <1>3, <2>0, AptFacts
  <2> HIDE DEF A
  <2>2. Register(l) \in Seq(A)
    BY <2>1, RegisterIn
  <2> DEFINE D == {"overlay", "cover"}
  <2>3. Only(Register(l), D)
    BY ListKinds
  <2>4. "put" \notin D /\ "state" \notin D /\ D \cap {"drop", "clear"} = {}
    OBVIOUS
  <2> HIDE DEF D
  <2> QED BY <2>2, <2>3, <2>4, PartBy DEF A
<1>4. ASSUME NEW l \in Keys PROVE Tidy(Forget(l), c) /\ \A d : Tidy(Fetched(d, l), c)
  <2>1. \A e \in External :
          /\ PackageOp("package", e) \in A /\ PackageOp("unpackage", e) \in A
          /\ RecordOp("record", e) \in A /\ RecordOp("unrecord", e) \in A
    BY AptFacts
  <2> HIDE DEF A
  <2>2. Forget(l) \in Seq(A) /\ \A d : Fetched(d, l) \in Seq(A)
    BY <1>0, <2>1, PackagesIn
  <2> DEFINE D == {"package", "unpackage", "record", "unrecord"}
  <2>3. Only(Forget(l), D) /\ \A d : Only(Fetched(d, l), D)
    BY ListKinds
  <2>4. "put" \notin D /\ "state" \notin D /\ "overlay" \notin D /\ D \cap {"drop", "clear"} = {}
    OBVIOUS
  <2> HIDE DEF D
  <2>5. Tidy(Forget(l), c)
    BY <2>2, <2>3, <2>4, PartBy DEF Tidy, Neat, A
  <2>6. ASSUME NEW d PROVE Tidy(Fetched(d, l), c)
    BY <2>2, <2>3, <2>4, PartBy DEF Tidy, Neat, A
  <2> QED BY <2>5, <2>6
<1>5. ASSUME SetsUp(c, proj), c.rel \in Releases, Shipped(c) \cap Doomed(c, proj) = {}
      PROVE  Tidy(SetUp(c.key, c.rel), c)
  <2>1. c.kind # "uninstall"
    BY <1>5 DEF SetsUp
  <2>2. SaveManifest(c.key) \in A /\ \A f \in Ships[c.key][c.rel] : PutOp(f) \in A
    BY <1>0, <1>5, <2>1, AptFacts DEF Shipped
  <2> HIDE DEF A
  <2>3. SetUp(c.key, c.rel) \in Seq(A)
    BY <1>5, <2>2, SetUpIn
  <2> DEFINE D == {"put", "manifest"}
  <2>4. Only(SetUp(c.key, c.rel), D)
    BY <1>5, ListKinds
  <2>5. Led(SetUp(c.key, c.rel), Doing("put"), Doing("manifest"))
    BY <1>5, SetUpHas
  <2>6. "state" \notin D /\ "overlay" \notin D /\ D \cap {"drop", "clear"} = {}
    OBVIOUS
  <2> HIDE DEF D
  <2> QED BY <2>3, <2>4, <2>5, <2>6, PartBy DEF Tidy, Neat, Part, A
<1>6. ASSUME NEW X \in SUBSET Files, \A f \in X : RehashOp(f) \in A PROVE Tidy(Resync(X), c)
  <2> HIDE DEF A
  <2>1. Resync(X) \in Seq(A)
    BY <1>6, EachFileIn DEF Resync
  <2> DEFINE D == {"rehash"}
  <2>2. Only(Resync(X), D)
    BY ListKinds
  <2>3. "put" \notin D /\ "state" \notin D /\ "overlay" \notin D /\ D \cap {"drop", "clear"} = {}
    OBVIOUS
  <2> HIDE DEF D
  <2> QED BY <2>1, <2>2, <2>3, PartBy DEF Tidy, Neat, A
<1>7. ASSUME SetsUp(c, proj), c.rel \in Releases
      PROVE  /\ Tidy(Resync(Shipped(c)), c) /\ Refreshes(Resync(Shipped(c)), c)
             /\ Tidy(Stale(c.key, c.rel), c)
  <2>1. c.kind # "uninstall" /\ Shipped(c) \in SUBSET Files
    BY <1>0, <1>7 DEF SetsUp, Shipped
  <2>2. \A f \in Shipped(c) : RehashOp(f) \in A
    BY <1>7, <2>1, AptFacts
  <2>3. Tidy(Resync(Shipped(c)), c)
    BY <1>6, <2>1, <2>2
  <2>4. Refreshes(Resync(Shipped(c)), c)
    BY <2>1, ResyncHas DEF Refreshes
  <2>5. \A f \in Tracked(proj.man[c.key]) \ Ships[c.key][c.rel] :
          DropOp(f, proj.man[c.key][f], TRUE) \in A
    <3>1. \A f \in Tracked(proj.man[c.key]) : f \in Files
      BY DEF Tracked
    <3> QED BY <1>0, <3>1, AptFacts DEF Shipped
  <2> HIDE DEF A
  <2>6. Stale(c.key, c.rel) \in Seq(A)
    BY <2>5, StaleIn
  <2> DEFINE D == {"drop"}
  <2>7. Only(Stale(c.key, c.rel), D)
    BY <1>7, ListKinds
  <2>9. "put" \notin D /\ "state" \notin D /\ "overlay" \notin D
    OBVIOUS
  <2> HIDE DEF D
  <2>10. Overwrites(Stale(c.key, c.rel), c)
    <3> DEFINE E == {o \in Ops : o.do = "drop" /\ o.at \notin Shipped(c)}
    <3>1. \A f \in Tracked(proj.man[c.key]) \ Ships[c.key][c.rel] :
            DropOp(f, proj.man[c.key][f], TRUE) \in E
      <4>1. ASSUME NEW f \in Tracked(proj.man[c.key]) \ Ships[c.key][c.rel]
            PROVE  DropOp(f, proj.man[c.key][f], TRUE) \in E
        <5>1. f \in Files /\ f \notin Shipped(c)
          BY <4>1 DEF Tracked, Shipped
        <5>2. DropOp(f, proj.man[c.key][f], TRUE) \in Ops
          BY <1>0, <5>1, FileOpsTyped
        <5>3. /\ DropOp(f, proj.man[c.key][f], TRUE).do = "drop"
              /\ DropOp(f, proj.man[c.key][f], TRUE).at = f
          BY DEF DropOp
        <5> QED BY <5>1, <5>2, <5>3
      <4> QED BY <4>1
    <3>2. \A f \in Shipped(c) : \A o \in E : o \notin Removing(f)
      BY DEF Removing
    <3> HIDE DEF E
    <3>3. Stale(c.key, c.rel) \in Seq(E)
      BY <3>1, StaleIn
    <3>4. \A i \in 1 .. Len(Stale(c.key, c.rel)) : Stale(c.key, c.rel)[i] \in E
      BY <3>3, ElementsIn
    <3> QED BY <3>2, <3>4 DEF Overwrites, Led
  <2>8. Tidy(Stale(c.key, c.rel), c)
    BY <2>6, <2>7, <2>9, <2>10, PartBy DEF Tidy, Neat, A
  <2> QED BY <2>3, <2>4, <2>8
<1>8. ASSUME c.kind = "use", NEW l \in Keys
      PROVE  <<Snapshot(l)>> \in Seq(A) /\ \A X \in SUBSET Files : Tidy(Resync(X), c)
  <2>1. ~ SetsUp(c, proj) /\ c.kind # "uninstall"
    BY <1>8 DEF SetsUp
  <2>2. Snapshot(l) \in A /\ \A f \in Files : RehashOp(f) \in A
    BY <2>1, AptFacts
  <2>3. \A X \in SUBSET Files : Tidy(Resync(X), c)
    BY <1>6, <2>2
  <2> HIDE DEF A
  <2> QED BY <2>2, <2>3, TupleIn
<1>9. ASSUME NEW s \in Seq(Keys), NEW d \in Keys \cup {None}, NEW b \in BOOLEAN, IsInjective(s),
             Sane(SaveState(s, d, b).value)
      PROVE  LET x == <<SaveState(s, d, b)>>
             IN  /\ Part(x, c) /\ Overlays(x, c) /\ Overwrites(x, c)
                 /\ Has(x, Doing("state"))
                 /\ Names(c, proj, SaveState(s, d, b).value) => Settles(x, c)
  <2>1. SaveState(s, d, b) \in A
    BY <1>9, AptFacts
  <2> HIDE DEF A
  <2> DEFINE x == <<SaveState(s, d, b)>>
  <2>2. x \in Seq(A)
    BY <2>1, TupleIn
  <2>3. c.key \in Keys
    OBVIOUS
  <2> DEFINE D == {"state"}
  <2>4. Only(x, D)
    BY <1>9, <2>3, ListKinds
  <2>5. Has(x, Doing("state")) /\ (Names(c, proj, SaveState(s, d, b).value) => Settles(x, c))
    BY <1>9, SaveStateHas DEF Settles
  <2>7. "put" \notin D /\ "overlay" \notin D /\ D \cap {"drop", "clear"} = {}
    OBVIOUS
  <2> HIDE DEF x, D
  <2>6. Part(x, c) /\ Overlays(x, c) /\ Overwrites(x, c)
    BY <2>2, <2>4, <2>7, PartBy DEF A
  <2> QED BY <2>5, <2>6 DEF x
<1> QED BY <1>1, <1>2, <1>3, <1>4, <1>5, <1>7, <1>8, <1>9

Starts ==
  \E kind \in Kinds \ {"none"}, k \in Keys, r \in Releases \cup {0}, force \in BOOLEAN : \E ops :
    /\ Begin(kind, k, r, force, ops)
    /\ Ready([kind |-> kind, key |-> k, rel |-> r, force |-> force], ops)

LEMMA InstallStarts ==
  ASSUME Typed, Sane(proj.json), NEW k \in Keys, NEW r \in Releases, NEW force \in BOOLEAN,
         Install(k, r, force)
  PROVE  Starts
<1> DEFINE c == [kind |-> "install", key |-> k, rel |-> r, force |-> force]
           installed == Append(proj.json.installed, k)
           first == IF Default = None THEN k ELSE Default
           set == SetUp(k, r)
           state == <<SaveState(installed, first, TRUE)>>
           got == Fetched("install", k)
<1>0. Typed /\ c.kind = "install" /\ c.key = k /\ c.rel = r
  OBVIOUS
<1>1. Leavers(c, proj) = {} /\ Doomed(c, proj) = {} /\ (SetsUp(c, proj) <=> k \notin Installed)
  BY DEF Leavers, Doomed, SetsUp, Installed
<1> HIDE DEF c
<1>2. Tidy(got, c)
  BY <1>0, PartLists
<1>3. CASE MayInstall(k, force) /\ Begin("install", k, r, force, set \o state \o got)
  <2>0. k \notin Installed /\ SetsUp(c, proj)
    BY <1>1, <1>3 DEF MayInstall
  <2>1. installed \in Seq(Keys) /\ IsInjective(installed) /\ first \in Keys \cup {None}
        /\ Range(installed) = Installed \cup {k}
    <3>1. proj.json.installed \in Seq(Keys) /\ IsInjective(proj.json.installed)
          /\ Default \in Keys \cup {None}
      BY <1>0, StateTyped
    <3>2. /\ installed \in Seq(Keys) /\ Range(installed) = Range(proj.json.installed) \cup {k}
          /\ IsInjective(proj.json.installed) /\ k \notin Range(proj.json.installed) => IsInjective(installed)
      BY <3>1, AppendIn
    <3> QED BY <2>0, <3>1, <3>2 DEF Installed
  <2>2. first \in Range(installed)
    BY <2>1 DEF Sane, Installed, Default
  <2> HIDE DEF installed, first
  <2> DEFINE v == SaveState(installed, first, TRUE).value
  <2>a. v.installed = installed /\ v.default = first
    BY DEF SaveState
  <2> HIDE DEF v
  <2>b. Sane(v)
    BY <2>2, <2>a DEF Sane
  <2>c. Names(c, proj, v)
    BY <1>0, <1>1, <2>1, <2>a DEF Names
  <2>3. Sane(SaveState(installed, first, TRUE).value)
    BY <2>b DEF v
  <2>4. Names(c, proj, SaveState(installed, first, TRUE).value)
    BY <2>c DEF v
  <2>5. Tidy(set, c)
    BY <1>0, <1>1, <2>0, PartLists
  <2>6. Tidy(state, c) /\ Has(state, Doing("state"))
    BY <1>0, <2>1, <2>3, <2>4, PartLists DEF Tidy, Neat
  <2>7. Has(set, Doing("manifest")) /\ Refills(set, c)
    BY <1>0, SetUpHas DEF Shipped, Refills
  <2> HIDE DEF set, state, got
  <2>8. Tidy(set \o state, c) /\ \A B : Has(set \o state, B) <=> Has(set, B) \/ Has(state, B)
    BY <2>5, <2>6, TidyJoin
  <2>9. /\ Tidy(set \o state \o got, c)
        /\ \A B : Has(set \o state \o got, B) <=> Has(set \o state, B) \/ Has(got, B)
    BY <1>2, <2>8, TidyJoin
  <2>10. Ready(c, set \o state \o got)
    BY <1>0, <1>1, <2>6, <2>7, <2>8, <2>9 DEF Ready, Refills
  <2> QED BY <1>3, <2>10 DEF Starts, Kinds, c
<1>4. CASE k \in Installed /\ Begin("install", k, r, force, got)
  <2>1. Names(c, proj, proj.json)
    BY <1>0, <1>1, <1>4 DEF Names
  <2>2. Ready(c, got)
    BY <1>1, <1>2, <1>4, <2>1 DEF Ready
  <2> HIDE DEF got
  <2> QED BY <1>4, <2>2 DEF Starts, Kinds, c
<1> QED BY <1>3, <1>4 DEF Install

LEMMA UninstallStarts ==
  ASSUME Typed, Sane(proj.json), NEW k \in Keys, NEW force \in BOOLEAN, Uninstall(k, force)
  PROVE  Starts
<1> DEFINE c == [kind |-> "uninstall", key |-> k, rel |-> 0, force |-> force]
           rest == Without(k)
           next == IF Default = k THEN First(rest) ELSE Default
           down == IF proj.man[k] = NoFiles THEN <<>> ELSE TearDown(k, proj.man[k], force)
           un == Unregister(k)
           state == <<SaveState(rest, next, FALSE)>>
           up == IF Default = k /\ next # None /\ Known(next) THEN Register(next) ELSE <<>>
           forgot == Forget(k)
<1>0. Typed /\ c.kind = "uninstall" /\ c.key = k /\ k \in Installed /\ next = Heir(c, proj)
  BY DEF Uninstall, Heir, Default, Without
<1>1. Leavers(c, proj) = {k} /\ Doomed(c, proj) = Tracked(proj.man[k]) /\ ~ SetsUp(c, proj)
      /\ \A s : Overwrites(s, c)
  BY DEF Leavers, Doomed, SetsUp, Tracked, Overwrites
<1>2. Begin("uninstall", k, 0, force, down \o un \o state \o up \o forgot)
  BY DEF Uninstall
<1> HIDE DEF c
<1>3. rest \in Seq(Keys) /\ IsInjective(rest) /\ Range(rest) = Installed \ {k}
  BY <1>0, StateTyped, RemoveFirstIn DEF Without, Installed
<1> HIDE DEF rest
<1>4. next \in Keys \cup {None} /\ (next # None => next # k) /\ Sane(SaveState(rest, next, FALSE).value)
  <2>1. CASE Default = k
    <3>1. next = First(rest) /\ (rest # <<>> => First(rest) \in Range(rest))
      BY <1>3, <2>1, FirstIn
    <3>2. rest = <<>> => next = None
      BY <3>1 DEF First
    <3>3. Sane(SaveState(rest, First(rest), FALSE).value)
      BY <1>3, FirstSane
    <3> QED BY <1>3, <3>1, <3>2, <3>3, FirstIn
  <2>2. CASE Default # k
    <3>1. next = Default /\ next \in Range(rest)
      BY <1>0, <1>3, <2>2 DEF Sane, Installed, Default
    <3> HIDE DEF next
    <3> DEFINE v == SaveState(rest, next, FALSE).value
    <3>a. v.installed = rest /\ v.default = next
      BY DEF SaveState
    <3> HIDE DEF v
    <3>b. Sane(v)
      BY <3>1, <3>a DEF Sane
    <3>2. Sane(SaveState(rest, next, FALSE).value)
      BY <3>b DEF v
    <3> QED BY <1>0, <1>3, <2>2, <3>1, <3>2, StateTyped
  <2> QED BY <2>1, <2>2
<1> HIDE DEF next
<1>5. Names(c, proj, SaveState(rest, next, FALSE).value)
  <2> DEFINE v == SaveState(rest, next, FALSE).value
  <2>1. v.installed = rest /\ v.default = next
    BY DEF SaveState
  <2> HIDE DEF v
  <2>2. Names(c, proj, v)
    BY <1>0, <1>1, <1>3, <2>1 DEF Names
  <2> QED BY <2>2 DEF v
<1>6. Tidy(<<>>, c) /\ \A B : ~ Has(<<>>, B)
  BY EmptySeq DEF Tidy, Neat, Part, Settles, Overlays, Overwrites, Led, Has
<1>7. Tidy(down, c)
  BY <1>0, <1>1, <1>6, PartLists DEF Tidy
<1>8. Tidy(un, c) /\ Tidy(forgot, c)
  BY <1>0, <1>1, PartLists DEF Tidy
<1>9. Tidy(state, c) /\ Has(state, Doing("state"))
  BY <1>0, <1>3, <1>4, <1>5, PartLists DEF Tidy, Neat
<1>10. Tidy(up, c)
  <2>1. CASE next \in Keys /\ next # k
    <3>1. Part(Register(next), c) /\ Settles(Register(next), c) /\ Overwrites(Register(next), c)
      BY <1>0, <2>1, PartLists
    <3>2. Overlays(Register(next), c)
      BY <1>1 DEF Overlays
    <3> QED BY <1>6, <3>1, <3>2 DEF Tidy, Neat
  <2> QED BY <1>4, <1>6, <2>1
<1>11. /\ \A f \in Tracked(proj.man[k]) : Has(down, OnFile("drop", f))
       /\ Has(down, OnKey("dropManifest", k)) \/ proj.man[k] = NoFiles
  <2>1. CASE proj.man[k] = NoFiles
    BY <2>1 DEF Tracked, NoFiles
  <2>2. CASE proj.man[k] # NoFiles
    BY <2>2, TearDownHas
  <2> QED BY <2>1, <2>2
<1> HIDE DEF down, un, state, up, forgot
<1> DEFINE a == down \o un
           b == a \o state
           d == b \o up
           e == d \o forgot
<1>12. Tidy(a, c) /\ \A B : Has(a, B) <=> Has(down, B) \/ Has(un, B)
  BY <1>7, <1>8, TidyJoin
<1> HIDE DEF a
<1>13. Tidy(b, c) /\ \A B : Has(b, B) <=> Has(a, B) \/ Has(state, B)
  BY <1>9, <1>12, TidyJoin
<1> HIDE DEF b
<1>14. Tidy(d, c) /\ \A B : Has(d, B) <=> Has(b, B) \/ Has(up, B)
  BY <1>10, <1>13, TidyJoin
<1> HIDE DEF d
<1>15. Tidy(e, c) /\ \A B : Has(e, B) <=> Has(d, B) \/ Has(forgot, B)
  BY <1>8, <1>14, TidyJoin
<1>16. Begin("uninstall", k, 0, force, e)
  BY <1>2 DEF a, b, d
<1> HIDE DEF e
<1>17. Ready(c, e)
  BY <1>0, <1>1, <1>9, <1>11, <1>12, <1>13, <1>14, <1>15 DEF Ready
<1> QED BY <1>16, <1>17 DEF Starts, Kinds, c

LEMMA UseStarts ==
  ASSUME Typed, Sane(proj.json), NEW k \in Keys, Use(k) \/ SwitchToInstalled(k)
  PROVE  Starts
<1> DEFINE c == [kind |-> "use", key |-> k, rel |-> 0, force |-> FALSE]
           save == SaveState(proj.json.installed, k, FALSE)
           pair == <<save, Snapshot(k)>>
           reg == Register(k)
           re == Resync(Tracked(proj.man[k]))
           got == Fetched("switch", k)
<1>0. Typed /\ c.kind = "use" /\ c.key = k /\ k \in Installed /\ Heir(c, proj) = k
  BY DEF Use, SwitchToInstalled, Heir
<1>1. Leavers(c, proj) = {} /\ Doomed(c, proj) = {} /\ ~ SetsUp(c, proj)
      /\ \A s : Overwrites(s, c)
  BY DEF Leavers, Doomed, SetsUp, Overwrites
<1>2. /\ Use(k) => Begin("use", k, 0, FALSE, pair \o reg \o re)
      /\ SwitchToInstalled(k) => Begin("use", k, 0, FALSE, pair \o reg \o re \o got)
  BY DEF Use, SwitchToInstalled, Activate
<1> HIDE DEF c
<1>3. proj.json.installed \in Seq(Keys) /\ IsInjective(proj.json.installed)
  BY <1>0, StateTyped
<1>4. Sane(save.value) /\ Names(c, proj, save.value)
  <2>1. save.value.installed = proj.json.installed /\ save.value.default = k
    BY DEF SaveState
  <2> HIDE DEF save
  <2> QED BY <1>0, <1>1, <2>1 DEF Sane, Names, Installed
<1>5. Tidy(pair, c) /\ Has(pair, Doing("state"))
  <2>1. save \in AptFor(c) /\ Snapshot(k) \in AptFor(c)
    BY <1>0, <1>1, <1>3, <1>4, AptFacts
  <2>2. save.do = "state" /\ Snapshot(k).do = "snapshot"
    BY DEF SaveState, Snapshot
  <2>3. save \in Ops /\ Snapshot(k) \in Ops
    BY <2>1 DEF AptFor
  <2> HIDE DEF save
  <2>4. pair \in Seq(AptFor(c)) /\ Len(pair) = 2 /\ pair[1] = save /\ pair[2] = Snapshot(k)
    BY <2>1
  <2> HIDE DEF pair
  <2>5. \A i \in 1 .. Len(pair) : pair[i] = save \/ pair[i] = Snapshot(k)
    <3>1. \A i \in 1 .. 2 : i = 1 \/ i = 2
      OBVIOUS
    <3> QED BY <2>4, <3>1
  <2>6. Has(pair, Doing("state"))
    <3>1. save \in Doing("state") /\ 1 \in 1 .. Len(pair)
      BY <2>2, <2>3, <2>4 DEF Doing
    <3> QED BY <2>4, <3>1 DEF Has
  <2>7. save \notin Misnaming(c, proj) /\ Snapshot(k) \notin Misnaming(c, proj)
    BY <1>4, <2>2 DEF Misnaming
  <2>8. save \notin Doing("put") /\ Snapshot(k) \notin Doing("put")
    BY <2>2 DEF Doing
  <2>9. Part(pair, c) /\ Settles(pair, c)
    BY <2>4, <2>5, <2>7, <2>8 DEF Part, Settles, Led
  <2> QED BY <1>1, <2>6, <2>9 DEF Tidy, Neat, Overlays
<1>6. Tidy(reg, c)
  <2>1. Part(reg, c) /\ Settles(reg, c)
    BY <1>0, <1>1, PartLists
  <2> QED BY <1>1, <2>1 DEF Tidy, Neat, Overlays
<1>7. Tidy(re, c) /\ Tidy(got, c)
  <2>1. Tracked(proj.man[k]) \in SUBSET Files
    BY DEF Tracked
  <2> QED BY <1>0, <2>1, PartLists
<1> HIDE DEF pair, reg, re, got
<1> DEFINE a == pair \o reg
           b == a \o re
           d == b \o got
<1>8. Tidy(a, c) /\ \A B : Has(a, B) <=> Has(pair, B) \/ Has(reg, B)
  BY <1>5, <1>6, TidyJoin
<1> HIDE DEF a
<1>9. Tidy(b, c) /\ \A B : Has(b, B) <=> Has(a, B) \/ Has(re, B)
  BY <1>7, <1>8, TidyJoin
<1>10. (Use(k) => Begin("use", k, 0, FALSE, b)) /\ (SwitchToInstalled(k) => Begin("use", k, 0, FALSE, d))
  BY <1>2 DEF a
<1> HIDE DEF b
<1>11. Tidy(d, c) /\ \A B : Has(d, B) <=> Has(b, B) \/ Has(got, B)
  BY <1>7, <1>9, TidyJoin
<1> HIDE DEF d
<1>12. Ready(c, b) /\ Ready(c, d)
  BY <1>1, <1>5, <1>8, <1>9, <1>11 DEF Ready
<1> QED BY <1>10, <1>12 DEF Starts, Kinds, c

\* The default integration k gives way to another one.
LEMMA GoneLists ==
  ASSUME Typed, NEW c, c.kind = "switch", c.key \in Keys, c.rel \in Releases,
         NEW k \in Keys, k # c.key, NEW force \in BOOLEAN
  PROVE  LET rest == Without(k)
             gone == TearDown(k, proj.man[k], force) \o Unregister(k)
                     \o <<SaveState(rest, First(rest), FALSE)>>
         IN  /\ Part(gone, c) /\ Overlays(gone, c)
             /\ \A f \in Tracked(proj.man[k]) : Has(gone, OnFile("drop", f))
             /\ Has(gone, OnKey("dropManifest", k))
<1> DEFINE rest == Without(k)
           down == TearDown(k, proj.man[k], force)
           un == Unregister(k)
           state == <<SaveState(rest, First(rest), FALSE)>>
           a == down \o un
           b == a \o state
<1>2. rest \in Seq(Keys) /\ IsInjective(rest)
  BY StateTyped, RemoveFirstIn DEF Without
<1> HIDE DEF rest
<1>3. Sane(SaveState(rest, First(rest), FALSE).value) /\ First(rest) \in Keys \cup {None}
  BY <1>2, FirstSane, FirstIn DEF First
<1>4. Neat(down, c) /\ Neat(un, c)
  BY PartLists
<1>5. Part(state, c) /\ Overlays(state, c)
  BY <1>2, <1>3, PartLists
<1>6. /\ \A f \in Tracked(proj.man[k]) : Has(down, OnFile("drop", f))
      /\ Has(down, OnKey("dropManifest", k))
  BY TearDownHas
<1> HIDE DEF down, un, state
<1>7. /\ Part(a, c) /\ Overlays(a, c)
      /\ \A B : Has(a, B) <=> Has(down, B) \/ Has(un, B)
  BY <1>4, PartsJoin DEF Neat
<1> HIDE DEF a
<1>8. /\ Part(b, c) /\ Overlays(b, c)
      /\ \A B : Has(b, B) <=> Has(a, B) \/ Has(state, B)
  BY <1>5, <1>7, PartsJoin
<1> HIDE DEF b
<1>9. /\ \A f \in Tracked(proj.man[k]) : Has(b, OnFile("drop", f))
      /\ Has(b, OnKey("dropManifest", k))
  BY <1>6, <1>7, <1>8
<1> QED BY <1>8, <1>9 DEF b, a, down, un, state, rest

LEMMA SwitchStarts ==
  ASSUME Typed, Sane(proj.json), NEW k \in Keys, NEW r \in Releases, NEW force \in BOOLEAN,
         Switch(k, r, force)
  PROVE  Starts
<1> DEFINE c == [kind |-> "switch", key |-> k, rel |-> r, force |-> force]
           rest == Without(Default)
           gone == IF Default = None THEN <<>>
                   ELSE TearDown(Default, proj.man[Default], force)
                        \o Unregister(Default)
                        \o <<SaveState(rest, First(rest), FALSE)>>
           set == SetUp(k, r)
           last == Append(rest, k)
           state == <<SaveState(last, k, TRUE)>>
           reg == Register(k)
           re == Resync(Ships[k][r])
           got == Fetched("switch", k)
           forgot == IF Default = None THEN <<>> ELSE Forget(Default)
<1>0. Typed /\ c.kind = "switch" /\ c.key = k /\ c.rel = r /\ k \notin Installed
      /\ Heir(c, proj) = k
  BY DEF Switch, Heir
<1>1. /\ Leavers(c, proj) = {Default} \ {None} /\ SetsUp(c, proj)
      /\ Doomed(c, proj) = {f \in Files : /\ Default # None /\ f \in Tracked(proj.man[Default])
                                         /\ f \notin Shipped(c)}
  BY DEF Leavers, Doomed, SetsUp, Default
<1>2. Begin("switch", k, r, force, gone \o set \o state \o reg \o re \o got \o forgot)
  BY DEF Switch
<1>3. Shipped(c) = Ships[k][r]
  BY <1>0 DEF Shipped
<1> HIDE DEF c
<1>4. Default # None => Default \in Keys /\ Default \in Installed /\ Default # k
  BY <1>0, StateTyped DEF Sane, Installed, Default
<1>5. rest \in Seq(Keys) /\ IsInjective(rest) /\ Range(rest) = Installed \ {Default}
  BY <1>0, StateTyped, RemoveFirstIn DEF Without, Installed
<1> HIDE DEF rest
<1>6. last \in Seq(Keys) /\ IsInjective(last) /\ Range(last) = (Installed \ {Default}) \cup {k}
  <2>1. /\ last \in Seq(Keys) /\ Range(last) = Range(rest) \cup {k}
        /\ IsInjective(rest) /\ k \notin Range(rest) => IsInjective(last)
    BY <1>5, AppendIn
  <2> QED BY <1>0, <1>5, <2>1
<1> HIDE DEF last
<1>7. Sane(SaveState(last, k, TRUE).value) /\ Names(c, proj, SaveState(last, k, TRUE).value)
  <2> DEFINE v == SaveState(last, k, TRUE).value
  <2>1. v.installed = last /\ v.default = k
    BY DEF SaveState
  <2> HIDE DEF v
  <2>2. Sane(v)
    BY <1>6, <2>1 DEF Sane
  <2>3. \A l \in Leavers(c, proj) : l \notin Range(v.installed)
    BY <1>1, <1>4, <1>6, <2>1
  <2>4. Names(c, proj, v)
    BY <1>0, <1>6, <2>1, <2>3 DEF Names
  <2> QED BY <2>2, <2>4 DEF v
<1>8. Tidy(<<>>, c) /\ \A B : ~ Has(<<>>, B)
  BY EmptySeq DEF Tidy, Neat, Part, Settles, Overlays, Overwrites, Led, Has
<1>9. /\ Part(gone, c) /\ Overlays(gone, c)
      /\ Default # None =>
           /\ \A f \in Tracked(proj.man[Default]) : Has(gone, OnFile("drop", f))
           /\ Has(gone, OnKey("dropManifest", Default))
  <2>1. CASE Default = None
    BY <1>8, <2>1 DEF Tidy, Neat
  <2>2. CASE Default # None
    BY <1>0, <1>4, <2>2, GoneLists DEF rest
  <2> QED BY <2>1, <2>2
<1>11. Tidy(set, c) /\ Tidy(re, c) /\ Refreshes(re, c)
  <2>1. Shipped(c) \cap Doomed(c, proj) = {}
    BY <1>1
  <2> QED BY <1>0, <1>1, <1>3, <2>1, PartLists
<1>12. Part(state, c) /\ Overlays(state, c) /\ Has(state, Doing("state")) /\ Settles(state, c)
       /\ Overwrites(state, c)
  BY <1>0, <1>6, <1>7, PartLists
<1>13. Part(reg, c) /\ Settles(reg, c) /\ Overwrites(reg, c)
  BY <1>0, PartLists
<1>14. Tidy(got, c) /\ Tidy(forgot, c)
  <2>1. Tidy(got, c) /\ (Default # None => Tidy(Forget(Default), c))
    BY <1>0, <1>4, PartLists
  <2> QED BY <1>8, <2>1
<1>15. Has(set, Doing("manifest")) /\ Refills(set, c)
  BY <1>0, <1>3, SetUpHas DEF Refills
<1> HIDE DEF gone, set, state, reg, re, got, forgot
<1> DEFINE x1 == gone \o set
           x2 == x1 \o state
           x3 == x2 \o reg
           x4 == x3 \o re
           x5 == x4 \o got
           x6 == x5 \o forgot
<1>16. Begin("switch", k, r, force, x6)
  BY <1>2
<1> HIDE DEF x6
<1>17. /\ Part(x1, c) /\ Overwrites(x1, c)
       /\ \A B : Has(x1, B) <=> Has(gone, B) \/ Has(set, B)
  BY <1>9, <1>11, <1>15, PartsJoin DEF Tidy, Neat
<1> HIDE DEF x1
<1>18. /\ Part(x2, c) /\ Settles(x2, c) /\ Overwrites(x2, c)
       /\ \A B : Has(x2, B) <=> Has(x1, B) \/ Has(state, B)
  BY <1>12, <1>17, PartsJoin
<1> HIDE DEF x2
<1>19. /\ Part(x3, c) /\ Settles(x3, c) /\ Overwrites(x3, c)
       /\ \A B : Has(x3, B) <=> Has(x2, B) \/ Has(reg, B)
  BY <1>13, <1>18, PartsJoin
<1> HIDE DEF x3
<1>20. Tidy(x4, c) /\ \A B : Has(x4, B) <=> Has(x3, B) \/ Has(re, B)
  BY <1>11, <1>19, PartsJoin DEF Tidy, Neat
<1> HIDE DEF x4
<1>21. Tidy(x5, c) /\ \A B : Has(x5, B) <=> Has(x4, B) \/ Has(got, B)
  BY <1>14, <1>20, TidyJoin
<1> HIDE DEF x5
<1>22. Tidy(x6, c) /\ \A B : Has(x6, B) <=> Has(x5, B) \/ Has(forgot, B)
  BY <1>14, <1>21, TidyJoin DEF x6
<1>23. \A B : Has(gone, B) \/ Has(set, B) \/ Has(state, B) => Has(x6, B)
  BY <1>17, <1>18, <1>19, <1>20, <1>21, <1>22
<1>24. /\ \A f \in Doomed(c, proj) : Has(x6, OnFile("drop", f))
       /\ \A l \in Leavers(c, proj) : l \in Keys /\ l # k /\ Has(x6, OnKey("dropManifest", l))
  BY <1>1, <1>4, <1>9, <1>23
<1>25. Has(x6, Doing("state")) /\ Has(x6, Doing("manifest")) /\ Refills(x6, c)
  BY <1>12, <1>15, <1>23 DEF Refills
<1>26. Ready(c, x6)
  BY <1>0, <1>22, <1>24, <1>25 DEF Ready
<1> QED BY <1>16, <1>26 DEF Starts, Kinds, c

LEMMA UpgradeStarts ==
  ASSUME Typed, Sane(proj.json), NEW k \in Keys, NEW r \in Releases, NEW force \in BOOLEAN,
         Upgrade(k, r, force)
  PROVE  Starts
<1> DEFINE c == [kind |-> "upgrade", key |-> k, rel |-> r, force |-> force]
           set == SetUp(k, r)
           state == <<SaveState(proj.json.installed, Default, TRUE)>>
           stale == Stale(k, r)
           reg == Register(k)
           re == Resync(Ships[k][r])
           joined == reg \o re
           up == IF k = Default THEN joined ELSE <<>>
           got == Fetched("upgrade", k)
<1>0. Typed /\ c.kind = "upgrade" /\ c.key = k /\ c.rel = r /\ k \in Installed
      /\ Heir(c, proj) = k
  BY DEF Upgrade, MayUpgrade, Heir
<1>1. /\ Leavers(c, proj) = {} /\ SetsUp(c, proj)
      /\ Doomed(c, proj) = {f \in Files : f \in Tracked(proj.man[k]) /\ f \notin Ships[k][r]}
  BY DEF Leavers, Doomed, SetsUp
<1>2. Begin("upgrade", k, r, force, set \o state \o stale \o up \o got)
  BY DEF Upgrade
<1>3. Shipped(c) = Ships[k][r] /\ Shipped(c) \cap Doomed(c, proj) = {}
  BY <1>0, <1>1 DEF Shipped
<1> HIDE DEF c
<1>4. /\ proj.json.installed \in Seq(Keys) /\ IsInjective(proj.json.installed)
      /\ Default \in Keys \cup {None}
  BY <1>0, StateTyped
<1>5. /\ Sane(SaveState(proj.json.installed, Default, TRUE).value)
      /\ Names(c, proj, SaveState(proj.json.installed, Default, TRUE).value)
  <2> DEFINE v == SaveState(proj.json.installed, Default, TRUE).value
  <2>1. v.installed = proj.json.installed /\ v.default = proj.json.default
    BY DEF SaveState, Default
  <2> HIDE DEF v
  <2>2. Sane(v)
    BY <2>1 DEF Sane
  <2>3. Names(c, proj, v)
    BY <1>0, <1>1, <2>1 DEF Names, Installed
  <2> QED BY <2>2, <2>3 DEF v
<1>6. Part(state, c) /\ Overlays(state, c) /\ Has(state, Doing("state")) /\ Settles(state, c)
      /\ Overwrites(state, c)
  BY <1>0, <1>4, <1>5, PartLists
<1>7. Tidy(set, c) /\ Tidy(re, c) /\ Refreshes(re, c) /\ Tidy(stale, c)
  BY <1>0, <1>1, <1>3, PartLists
<1>8. Part(reg, c) /\ Settles(reg, c) /\ Overwrites(reg, c)
  BY <1>0, PartLists
<1>9. Tidy(got, c)
  BY <1>0, PartLists
<1>10. Has(set, Doing("manifest")) /\ Refills(set, c)
  BY <1>0, <1>3, SetUpHas DEF Refills
<1>11. \A f \in Doomed(c, proj) : Has(stale, OnFile("drop", f))
  BY <1>1, StaleHas
<1> HIDE DEF set, state, stale, reg, re, got
<1>12. Tidy(up, c)
  <2>1. Tidy(joined, c)
    BY <1>7, <1>8, PartsJoin DEF Tidy, Neat
  <2>2. Tidy(<<>>, c)
    BY EmptySeq DEF Tidy, Neat, Part, Settles, Overlays, Overwrites, Led
  <2> HIDE DEF joined
  <2> QED BY <2>1, <2>2
<1> HIDE DEF up
<1> DEFINE x1 == set \o state
           x2 == x1 \o stale
           x3 == x2 \o up
           x4 == x3 \o got
<1>13. Begin("upgrade", k, r, force, x4)
  BY <1>2
<1> HIDE DEF x4
<1>14. Tidy(x1, c) /\ \A B : Has(x1, B) <=> Has(set, B) \/ Has(state, B)
  BY <1>6, <1>7, PartsJoin DEF Tidy, Neat
<1> HIDE DEF x1
<1>15. Tidy(x2, c) /\ \A B : Has(x2, B) <=> Has(x1, B) \/ Has(stale, B)
  BY <1>7, <1>14, TidyJoin
<1> HIDE DEF x2
<1>16. Tidy(x3, c) /\ \A B : Has(x3, B) <=> Has(x2, B) \/ Has(up, B)
  BY <1>12, <1>15, TidyJoin
<1> HIDE DEF x3
<1>17. Tidy(x4, c) /\ \A B : Has(x4, B) <=> Has(x3, B) \/ Has(got, B)
  BY <1>9, <1>16, TidyJoin DEF x4
<1>18. \A B : Has(set, B) \/ Has(state, B) \/ Has(stale, B) => Has(x4, B)
  BY <1>14, <1>15, <1>16, <1>17
<1>19. Ready(c, x4)
  BY <1>0, <1>1, <1>6, <1>10, <1>11, <1>17, <1>18 DEF Ready, Refills
<1> QED BY <1>13, <1>19 DEF Starts, Kinds, c

LEMMA CommandStarts ==
  ASSUME Typed, Sane(proj.json), Command
  PROVE  Starts
<1>1. PICK k \in Keys :
        \/ \E r \in Releases, force \in BOOLEAN :
              Install(k, r, force) \/ Switch(k, r, force) \/ Upgrade(k, r, force)
        \/ \E force \in BOOLEAN : Uninstall(k, force)
        \/ Use(k) \/ SwitchToInstalled(k)
  BY DEF Command
<1>2. ASSUME NEW r \in Releases, NEW force \in BOOLEAN,
             Install(k, r, force) \/ Switch(k, r, force) \/ Upgrade(k, r, force)
      PROVE  Starts
  BY <1>2, InstallStarts, SwitchStarts, UpgradeStarts
<1>3. ASSUME NEW force \in BOOLEAN, Uninstall(k, force) PROVE Starts
  BY <1>3, UninstallStarts
<1>4. CASE Use(k) \/ SwitchToInstalled(k)
  BY <1>4, UseStarts
<1> QED BY <1>1, <1>2, <1>3, <1>4

LEMMA StartsWell ==
  ASSUME Starts
  PROVE  Naming' /\ Clearing' /\ Building'
<1>1. PICK kind \in Kinds \ {"none"}, k \in Keys, r \in Releases \cup {0}, force \in BOOLEAN :
        \E ops : /\ Begin(kind, k, r, force, ops)
                 /\ Ready([kind |-> kind, key |-> k, rel |-> r, force |-> force], ops)
  BY DEF Starts
<1>a. PICK ops : /\ Begin(kind, k, r, force, ops)
                 /\ Ready([kind |-> kind, key |-> k, rel |-> r, force |-> force], ops)
  BY <1>1
<1> DEFINE c == [kind |-> kind, key |-> k, rel |-> r, force |-> force]
<1>2. /\ cmd' = c /\ was' = proj /\ proj' = proj /\ todo' = ops
      /\ new' = NoFiles /\ fresh' = Files
  BY <1>a DEF Begin
<1>3. Ready(c, ops)
  BY <1>a
<1> HIDE DEF c
<1>4. \A i \in 1 .. Len(ops) : Apt(c, proj, ops[i])
  <2>1. ops \in Seq(AptFor(c))
    BY <1>3 DEF Ready, Tidy, Neat, Part
  <2> QED BY <2>1, AptIn
<1>5. Naming'
  <2>1. /\ Names(c, proj, proj.json) \/ Has(ops, Doing("state"))
        /\ Led(ops, Misnaming(c, proj), Doing("state"))
    BY <1>3 DEF Ready, Tidy, Neat, Settles
  <2>2. Misnaming(cmd, was)' = Misnaming(c, proj)
    BY <1>2 DEF Misnaming, Names, Leavers, SetsUp, Heir
  <2>3. Names(cmd, was, proj.json)' <=> Names(c, proj, proj.json)
    BY <1>2 DEF Names, Leavers, SetsUp, Heir
  <2> QED BY <1>2, <2>1, <2>2, <2>3 DEF Naming, Has, Led, Doing
<1>6. Clearing'
  <2>1. /\ Doomed(cmd, was)' = Doomed(c, proj) /\ Leavers(cmd, was)' = Leavers(c, proj)
        /\ \A o : Apt(cmd', was', o) <=> Apt(c, proj, o)
    BY <1>2 DEF Doomed, Leavers, Tracked, SetsUp, Shipped, Apt, Heir
  <2>2. \A i \in 1 .. Len(todo') : Apt(cmd', was', todo'[i])
    BY <1>2, <1>4, <2>1
  <2>3. ASSUME NEW f \in Doomed(c, proj) PROVE Removed(f)'
    <3>1. Has(ops, OnFile("drop", f))
      BY <1>3, <2>3 DEF Ready
    <3> QED BY <1>2, <3>1 DEF Removed, Has, OnFile
  <2>4. ASSUME NEW l \in Leavers(c, proj)
        PROVE  l \in Keys /\ (cmd'.kind = "switch" => l # cmd'.key) /\ Untracked(l)'
    <3>1. /\ l \in Keys /\ (c.kind = "switch" => l # c.key)
          /\ Has(ops, OnKey("dropManifest", l)) \/ proj.man[l] = NoFiles
      BY <1>3, <2>4 DEF Ready
    <3>2. Untracked(l)'
      BY <1>2, <3>1 DEF Untracked, Has, OnKey
    <3> QED BY <1>2, <3>1, <3>2
  <2> QED BY <2>1, <2>2, <2>3, <2>4 DEF Clearing
<1>7. Building'
  <2>1. SetsUp(cmd, was)' <=> SetsUp(c, proj)
    BY <1>2 DEF SetsUp
  <2>2. CASE ~ SetsUp(c, proj)
    BY <2>1, <2>2 DEF Building
  <2>3. CASE SetsUp(c, proj)
    <3>1. /\ c.rel \in Releases /\ Has(ops, Doing("manifest"))
          /\ \A f \in Shipped(c) : Has(ops, OnFile("put", f))
          /\ Led(ops, Doing("put"), Doing("manifest"))
          /\ \A f \in Shipped(c) : Led(ops, OnFile("overlay", f), OnFile("rehash", f))
          /\ \A f \in Shipped(c) : Led(ops, Removing(f), OnFile("put", f))
      BY <1>3, <2>3 DEF Ready, Refills, Tidy, Neat, Part, Overlays, Overwrites
    <3>2. Tracked(new)' = {} /\ Shipped(cmd)' = Shipped(c)
      BY <1>2 DEF Tracked, NoFiles, Shipped
    <3> QED BY <1>2, <3>1, <3>2 DEF Building, Has, Led, Doing, OnFile, Removing
  <2> QED BY <2>2, <2>3
<1> QED BY <1>5, <1>6, <1>7

-----------------------------------------------------------------------------
(* A command that succeeds has done what it is to *)

\* What is so when nothing is left to do.
Concord ==
  /\ Sane(proj.json)
  /\ cmd.kind \in {"use", "switch"} => Default = cmd.key
  /\ \A k \in Leavers(cmd, was) : WentAway(k)
  /\ SetsUp(cmd, was) => SetUpAgrees(cmd.key, cmd.rel)
  /\ cmd.kind = "upgrade" =>
       \A f \in Tracked(was.man[cmd.key]) \ Ships[cmd.key][cmd.rel] :
          Gone(f) \/ (f \in Overrides[cmd.key] /\ proj.disk[f] = Preset)

LEMMA DoneIsConcord ==
  ASSUME pc = "run", todo = <<>>, Sensible, Naming, Clearing, Building
  PROVE  Concord
<1>1. \A B : ~ Has(todo, B)
  BY EmptySeq DEF Has
<1>2. Names(cmd, was, proj.json)
  BY <1>1 DEF Naming
<1>3. /\ Sane(proj.json) /\ (cmd.kind \in {"use", "switch"} => Default = cmd.key)
      /\ cmd.kind \in {"use", "switch", "uninstall"} => Default = Heir(cmd, was)
  BY <1>2 DEF Sensible, Names, Default, Heir
<1>4. \A f \in Doomed(cmd, was) : Gone(f) \/ Overlaid(f)
  BY <1>1 DEF Clearing, Removed
<1>5. ASSUME NEW k \in Leavers(cmd, was) PROVE WentAway(k)
  <2>1. k \notin Installed
    BY <1>2 DEF Names, Installed
  <2>2. proj.man[k] = NoFiles \/ Manifest(k) \in reported
    BY <1>1, <1>5 DEF Clearing, Untracked
  <2>3. ASSUME NEW f \in Tracked(was.man[k])
        PROVE  Gone(f) \/ AlsoShipped(f) \/ Overridden(f)
    <3>1. f \in Doomed(cmd, was) \/ AlsoShipped(f)
      BY <1>5, <2>3 DEF Doomed, Tracked, AlsoShipped, Shipped
    <3>2. Default = Heir(cmd, was)
      BY <1>3, <1>5 DEF Leavers
    <3> QED BY <1>4, <3>1, <3>2 DEF Overlaid, Overridden
  <2> QED BY <2>1, <2>2, <2>3 DEF WentAway
<1>6. ASSUME SetsUp(cmd, was) PROVE SetUpAgrees(cmd.key, cmd.rel)
  <2>1. cmd.key \in Installed
    BY <1>2, <1>6 DEF Names, Installed
  <2>2. Recorded /\ \A f \in Shipped(cmd) : SetDown(f)
    BY <1>1, <1>6 DEF Building
  <2>3. /\ Tracked(proj.man[cmd.key]) = Ships[cmd.key][cmd.rel]
        /\ proj.man[cmd.key] = new \/ Manifest(cmd.key) \in reported
    BY <1>1, <2>2 DEF Recorded, Shipped
  <2>4. \A f \in Ships[cmd.key][cmd.rel] : proj.disk[f] = new[f] \/ Disturbed(f)
    BY <1>1, <2>2 DEF SetDown, Shipped
  <2> QED BY <2>1, <2>3, <2>4 DEF SetUpAgrees, AsTracked
<1>7. ASSUME cmd.kind = "upgrade", NEW f \in Tracked(was.man[cmd.key]) \ Ships[cmd.key][cmd.rel]
      PROVE  Gone(f) \/ (f \in Overrides[cmd.key] /\ proj.disk[f] = Preset)
  <2>1. f \in Doomed(cmd, was)
    BY <1>7 DEF Doomed, Tracked
  <2>2. Heir(cmd, was) = cmd.key
    BY <1>7 DEF Heir
  <2> QED BY <1>4, <2>1, <2>2 DEF Overlaid
<1> QED BY <1>3, <1>5, <1>6, <1>7 DEF Concord

\* Only a command starts, and only one that has nothing left to do succeeds.
LEMMA RunsBegin ==
  ASSUME [Next]_vars, pc # "run", pc' = "run"
  PROVE  Command
<1>1. CASE Announce \/ Perform \/ Pass \/ TakeSnapshot \/ Rehash
  BY <1>1 DEF Announce, Perform, Pass, Proceed, TakeSnapshot, Rehash
<1>2. CASE Refuse \/ Fails
  BY <1>2 DEF Refuse, Fails, Proceed, Raise, Ends
<1>3. CASE RollBack \/ Finish \/ Interrupted \/ RollBackFails \/ Killed
  BY <1>3 DEF RollBack, Finish, Interrupted, RollBackFails, Killed, Ends
<1>4. ASSUME NEW f \in Files, NEW c \in Written, Edit(f, c) \/ EditMeanwhile(f, c)
      PROVE  FALSE
  BY <1>4 DEF Edit, EditMeanwhile
<1>5. CASE UNCHANGED vars
  BY <1>5 DEF vars
<1> QED BY <1>1, <1>2, <1>3, <1>4, <1>5 DEF Next, Step, GoesWrong, Others, Rest

LEMMA SuccessKept ==
  ASSUME Typed, SuccessAgrees, Sensible, Naming, Clearing, Building, [Next]_vars
  PROVE  SuccessAgrees'
<1> SUFFICES ASSUME pc' = "idle", cmd'.kind # "none", how' = "ok" PROVE SuccessAgrees'
  BY DEF SuccessAgrees, Ended
<1>1. CASE Announce \/ Perform \/ Pass \/ TakeSnapshot \/ Rehash
  BY <1>1 DEF Announce, Perform, Pass, Proceed, TakeSnapshot, Rehash, InFlight, Busy
<1>2. CASE Refuse \/ Fails
  BY <1>2 DEF Refuse, Fails, Proceed, Raise, Ends, InFlight, Busy
<1>3. CASE RollBack \/ Interrupted \/ RollBackFails \/ Killed
  BY <1>3 DEF RollBack, Interrupted, RollBackFails, Killed, Ends
<1>4. CASE Finish
  <2>1. pc = "run" /\ todo = <<>> /\ UNCHANGED <<proj, cmd, was, reported, touched>>
    BY <1>4 DEF Finish, Ends, history
  <2>2. Concord
    BY <2>1, DoneIsConcord
  <2>3. Concord'
    BY <2>1, <2>2 DEF Concord, Sane, Default, Installed, Leavers, SetsUp, WentAway, SetUpAgrees,
       AlsoShipped, Overridden, Gone, AsTracked, Disturbed, Tracked
  <2> QED BY <2>3 DEF SuccessAgrees, Concord, Sane, Installed, Default
<1>5. CASE Command
  BY <1>5 DEF Command, Install, Switch, Upgrade, Uninstall, Use, SwitchToInstalled, Begin
<1>6. ASSUME NEW f \in Files, NEW c \in Written, Edit(f, c) \/ EditMeanwhile(f, c)
      PROVE  FALSE
  BY <1>6 DEF Edit, EditMeanwhile, Typed, Control
<1>7. CASE UNCHANGED vars
  BY <1>7 DEF vars, result, history, SuccessAgrees, Ended, Default, Installed, Leavers, SetsUp,
     WentAway, SetUpAgrees, AlsoShipped, Overridden, Gone, AsTracked, Disturbed, Tracked
<1> QED BY <1>1, <1>2, <1>3, <1>4, <1>5, <1>6, <1>7 DEF Next, Step, GoesWrong, Others, Rest

\* The agreement of a success, with what a running command works towards.
SInv == Sensible /\ Naming /\ Clearing /\ Building /\ SuccessAgrees

LEMMA InitSInv == Init => SInv
<1> SUFFICES ASSUME Init PROVE SInv
  OBVIOUS
<1>1. pc = "idle" /\ cmd.kind = "none" /\ proj.json = Nothing /\ was.json = Nothing
  BY DEF Init
<1>2. Sane(Nothing)
  BY EmptySeq DEF Sane, Nothing, Range
<1> QED BY <1>1, <1>2 DEF SInv, Sensible, Naming, Clearing, Building, SuccessAgrees, Ended

LEMMA NextSInv == IInv /\ SInv /\ [Next]_vars => SInv'
<1> SUFFICES ASSUME IInv, SInv, [Next]_vars PROVE SInv'
  OBVIOUS
<1>1. /\ Typed /\ Routed /\ Revives /\ Fitting
      /\ Sensible /\ Naming /\ Clearing /\ Building /\ SuccessAgrees
  BY DEF IInv, SInv
<1>2. Sensible' /\ SuccessAgrees'
  BY <1>1, SensibleKept, SuccessKept
<1>3. Naming' /\ Clearing' /\ Building'
  <2>1. CASE pc' # "run"
    BY <2>1 DEF Naming, Clearing, Building
  <2>2. CASE pc = "run" /\ pc' = "run"
    BY <1>1, <2>2, NamingRuns, ClearingRuns, BuildingRuns
  <2>3. CASE pc # "run" /\ pc' = "run"
    <3>1. Starts
      BY <1>1, <2>3, RunsBegin, CommandStarts DEF Sensible
    <3> QED BY <3>1, StartsWell
  <2> QED BY <2>1, <2>2, <2>3
<1> QED BY <1>2, <1>3 DEF SInv

\* A command that succeeds leaves integration.json, the manifests and the files
\* in agreement: what it set up is there as tracked, of what went nothing is left
\* that was not reported.
THEOREM SuccessAgreesHolds == Spec => []SuccessAgrees
<1>1. SInv => SuccessAgrees
  BY DEF SInv
<1> QED BY <1>1, InitSInv, NextSInv, IInvHolds, PTL DEF Spec
=============================================================================
