-------------------------------- MODULE MemFS --------------------------------
(***************************************************************************)
(* The in-memory file system of a build stage and the layers made from it  *)
(* (lib/snapshot), beside the directory tree on disk that commands and     *)
(* copies change (lib/fileio).  A layer is made either by a scan, which    *)
(* compares the disk with MemFS, or from copy operations, which does not   *)
(* look at the disk.  The image is what untarring all layers in turn       *)
(* gives.                                                                  *)
(*                                                                         *)
(* A path is a sequence of at most two names; root itself is the empty     *)
(* path and always there.  A symlink is at the root and points to a name   *)
(* at the root.  A header has the type and the time of a file, in seconds; *)
(* all files have one size, mode and owner: what isUpdated can tell apart  *)
(* by them is told apart by the time.  On disk and in the image a file has *)
(* an inode as well: the names of a hard link have one, and change as one. *)
(***************************************************************************)
EXTENDS Integers, Sequences, SequencesExt, FiniteSetsExt, TLC

CONSTANTS
    PathOrder,       \* all paths, in the order of a walk
    Content,         \* what commands write into files
    TarLayers,       \* layers of base images: functions from paths to entries
    Sources,         \* what COPY may name: [base |-> name, tree |-> files of it]
    RemovesCopies,   \* commands may remove what a copy put into MemFS
    Broken,          \* what untarring gives where it fails
    CopiesToLinks,   \* a copied file may meet a symlink at its destination
    CopiesToHardLinks, \* a copied file may meet one of several names of a file
    MaxTime          \* bound: the seconds, and with them the commits

Paths == Range(PathOrder)
Names == {p[1] : p \in Paths}

ASSUME PathAssumption ==
    \A i \in DOMAIN PathOrder :
        /\ Len(PathOrder[i]) \in {1, 2}
        /\ Len(PathOrder[i]) = 2 => \E j \in 1 .. i - 1 : PathOrder[j] = <<PathOrder[i][1]>>

VARIABLES
    disk,      \* the files on disk
    tree,      \* the nodes of MemFS; "own" says that a node's src is its path
    image,     \* ghost: the layers so far, untarred one after the other
    layer,     \* the last layer committed
    copyOps,   \* the copy operations that wait for a commit
    mustScan,  \* a command has run since the last commit
    now,       \* the time, in seconds
    phase      \* "from", "build", or "failed"

vars == <<disk, tree, image, layer, copyOps, mustScan, now, phase>>

Dir(time)        == [type |-> "dir", time |-> time, data |-> "none"]
File(time, c)    == [type |-> "file", time |-> time, data |-> c]
Link(time, name) == [type |-> "link", time |-> time, data |-> name]
Hard(time, p)    == [type |-> "hard", time |-> time, data |-> p]
Whiteout         == [type |-> "whiteout", time |-> 0, data |-> "none"]
Nothing          == <<>>

Has(fs, p)   == p = <<>> \/ p \in DOMAIN fs
IsDir(fs, p) == p = <<>> \/ (p \in DOMAIN fs /\ fs[p].type = "dir")
IsLink(fs, name) == <<name>> \in DOMAIN fs /\ fs[<<name>>].type = "link"
Parent(p)    == Front(p)

(* The entry a header makes on disk; inode 0 has one name only. *)
OnInode(h, i) == [type |-> h.type, time |-> h.time, data |-> h.data, inode |-> i]
New(h) == OnInode(h, 0)
NamesOf(fs, p) == {p} \cup {q \in DOMAIN fs : fs[q].inode # 0 /\ fs[q].inode = fs[p].inode}

Below(fs, p) == {q \in DOMAIN fs : Len(q) > Len(p) /\ IsPrefix(p, q)}
Without(fs, S) == [q \in DOMAIN fs \ S |-> fs[q]]
RemoveAll(fs, p) == Without(fs, {p} \cup Below(fs, p))

(* Where a chain of symlinks at the root ends; at a symlink if it is a loop. *)
Follow(fs, name) ==
    LET at[k \in 0 .. Cardinality(Names)] ==
            IF k = 0 THEN name
            ELSE IF IsLink(fs, at[k - 1]) THEN fs[<<at[k - 1]>>].data ELSE at[k - 1]
    IN at[Cardinality(Names)]
LinksOn(fs, name) ==
    LET at[k \in 0 .. Cardinality(Names)] ==
            IF k = 0 THEN name
            ELSE IF IsLink(fs, at[k - 1]) THEN fs[<<at[k - 1]>>].data ELSE at[k - 1]
    IN {n \in {at[k] : k \in 0 .. Cardinality(Names)} : IsLink(fs, n)}

(* The file that the system finds at a path: symlinks before the last name *)
(* are followed.                                                           *)
Real(fs, p) == IF Len(p) = 2 THEN <<Follow(fs, p[1]), p[2]>> ELSE p

(* A new entry changes the time of its directory. *)
Touched(fs, p) ==
    IF Len(p) = 2 THEN [fs EXCEPT ![Parent(p)].time = now] ELSE fs
Put(fs, p, f) == (p :> f) @@ fs

(* What is written into a file in place is seen under all its names. *)
Rewrite(fs, p, h) ==
    [q \in DOMAIN fs |-> IF q \in NamesOf(fs, p) THEN OnInode(h, fs[p].inode) ELSE fs[q]]
Created(fs, p, h) ==
    IF p \in DOMAIN fs THEN Rewrite(fs, p, h) ELSE Put(Touched(fs, p), p, New(h))

(* os.Link: p becomes one more name of the target. *)
HardLink(fs, target, p) ==
    LET i == IF fs[target].inode # 0 THEN fs[target].inode
             ELSE Min({j \in 1 .. Len(PathOrder) : \A q \in DOMAIN fs : fs[q].inode # j})
        f == OnInode(fs[target], i)
    IN (target :> f @@ p :> f) @@ fs

-----------------------------------------------------------------------------
(* Mutants: forms a definition below would take with a plausible bug. *)

(* isUpdated asks for the type of the file only. *)
SimilarType(h, nh) == h.type = nh.type /\ (h.type = "link" => h.data = nh.data)

(* Whited-out files stay in MemFS. *)
WhiteoutKeepsNode(m, p) == [m EXCEPT !.layer = Put(@, p, Whiteout)]

(* Only the file that changed is put into the layer. *)
NoAncestors(m, p, inclusive) == [m |-> m, dst |-> p]

-----------------------------------------------------------------------------
(* tario.IsSimilarHeader: the content of a file is not compared. *)
IsSimilarHeader(h, nh) ==
    /\ h.type = nh.type
    /\ IF h.type = "link" THEN h.data = nh.data
       ELSE /\ h.time = nh.time
            /\ h.type = "hard" => h.data = nh.data

(* An entry that is there gets the mode, owner and times of the header. *)
ApplyHeader(fs, p, e) == Rewrite(fs, p, [fs[p] EXCEPT !.time = e.time])

(* untarOneItem: what is there and similar is kept, a directory that is    *)
(* there is updated, anything else is replaced.                            *)
UntarOneItem(fs, p, e) ==
    LET q == Real(fs, p)
        cleared == RemoveAll(fs, q)
    IN IF ~IsDir(fs, Parent(q)) THEN Broken
       ELSE IF e.type = "whiteout" THEN cleared
       ELSE IF q \in DOMAIN fs /\ IsSimilarHeader(fs[q], e) THEN fs
       ELSE IF e.type = "dir" /\ IsDir(fs, q) THEN ApplyHeader(fs, q, e)
       ELSE IF e.type # "hard" THEN Put(cleared, q, New(e))
       ELSE LET target == Real(cleared, e.data)
            IN IF target \in DOMAIN cleared /\ cleared[target].type = "file"
               THEN ApplyHeader(HardLink(cleared, target, q), q, e)
               ELSE Broken

(* The entries of a tar in its order, hard links in a second pass. *)
HardLinks(l) == SelectSeq(PathOrder, LAMBDA p : p \in DOMAIN l /\ l[p].type = "hard")
Entries(l) == SelectSeq(PathOrder, LAMBDA p : p \in DOMAIN l /\ l[p].type # "hard")
Untar(fs, l) ==
    LET One(d, p) == IF d = Broken THEN Broken ELSE UntarOneItem(d, p, l[p])
    IN FoldLeft(One, fs, Entries(l) \o HardLinks(l))

-----------------------------------------------------------------------------
(* A layer in the making: the layer, MemFS, and whether there was an error. *)
Begin == [layer |-> Nothing, tree |-> tree, error |-> FALSE]

(* contentMemFile.updateMemFS: only a directory keeps the nodes below it. *)
UpdateMemFS(t, p, node) ==
    Put(IF node.type = "dir" THEN t ELSE Without(t, Below(t, p)), p, node)

Node(h, own) == [type |-> h.type, time |-> h.time, data |-> h.data, own |-> own]
Header(n) == [type |-> n.type, time |-> n.time, data |-> n.data]

AddHeader(m, p, h, own) ==
    IF Len(p) = 2 /\ Parent(p) \notin DOMAIN m.tree
    THEN [m EXCEPT !.error = TRUE]
    ELSE [m EXCEPT !.layer = Put(@, p, h), !.tree = UpdateMemFS(@, p, Node(h, own))]

AddWhiteout(m, p) == [m EXCEPT !.layer = Put(@, p, Whiteout), !.tree = RemoveAll(@, p)]

(* addAncestors: the directory a path is in, or, inclusive, the path       *)
(* itself, with the symlinks that lead to it.  What MemFS lacks is made;   *)
(* its node has no src, and the root directory is taken for it.            *)
AddAncestors(m, p, inclusive) ==
    IF p = <<>> \/ (Len(p) = 1 /\ ~inclusive) THEN [m |-> m, dst |-> p]
    ELSE
    LET last == <<Follow(m.tree, p[1])>>
        Again(a, q) == AddHeader(a, q, Header(a.tree[q]), a.tree[q].own)
        links == SelectSeq(PathOrder, LAMBDA q : Len(q) = 1 /\ q[1] \in LinksOn(m.tree, p[1]))
        linked == FoldLeft(Again, m, links)
    IN [m   |-> IF IsLink(m.tree, last[1]) THEN [m EXCEPT !.error = TRUE]
                ELSE IF last \in DOMAIN m.tree THEN Again(linked, last)
                ELSE AddHeader(linked, last, Dir(now + 1), FALSE),
        dst |-> last \o Tail(p)]

IsUpdated(m, p, h) ==
    p # <<>> /\ (p \notin DOMAIN m.tree \/ ~IsSimilarHeader(Header(m.tree[p]), h))

(* maybeAddToLayer, and the deletions among the children of a directory.   *)
AddChanged(m, p, h, own) ==
    IF IsUpdated(m, p, h)
    THEN LET a == AddAncestors(m, p, FALSE).m
         IN IF h.type = "whiteout" THEN AddWhiteout(a, p) ELSE AddHeader(a, p, h, own)
    ELSE m

OnDisk(m, p) == ~m.tree[p].own \/ p \in DOMAIN disk

AddDeletions(m, p) ==
    LET gone == SelectSeq(PathOrder, LAMBDA q : /\ q \in DOMAIN m.tree /\ Parent(q) = p
                                                /\ ~OnDisk(m, q))
        One(a, q) == AddAncestors(AddWhiteout(a, q), q, FALSE).m
    IN IF IsDir(disk, p) /\ Has(m.tree, p) THEN FoldLeft(One, m, gone) ELSE m

-----------------------------------------------------------------------------
(* createLayerByScan: the walk over the disk, root first. *)
LayerByScan ==
    LET Visit(m, p) ==
            IF ~Has(disk, p) THEN m
            ELSE LET isNew == ~Has(m.tree, p)
                     a == IF p = <<>> THEN m ELSE AddChanged(m, p, Header(disk[p]), TRUE)
                 IN IF isNew THEN a ELSE AddDeletions(a, p)
    IN FoldLeft(Visit, Begin, <<<<>>>> \o PathOrder)

(* addToLayer: sources of one operation, then of the next.  The node of a  *)
(* file has the copy's source as its src.                                  *)
Files(s) == SelectSeq(<<<<>>>> \o PathOrder \o << <<"x">> >>, LAMBDA p : p \in DOMAIN s.tree)
IsDirSource(s) == s.tree[<<>>].type = "dir"

AddToLayer(m, op) ==
    LET s == op.src
        ready == IF IsDirSource(s) THEN AddAncestors(m, op.dst, TRUE) ELSE [m |-> m, dst |-> op.dst]
        Target(p) == IF IsDirSource(s) THEN ready.dst \o p
                     ELSE IF op.slash THEN Append(op.dst, s.base) ELSE op.dst
        One(a, p) == IF IsDirSource(s) /\ p = <<>> THEN a
                     ELSE AddChanged(a, Target(p), s.tree[p], FALSE)
    IN FoldLeft(One, ready.m, Files(s))

LayerByCopyOps == FoldLeft(AddToLayer, Begin, copyOps)

(* UpdateFromTarReader, the part of it that is about MemFS. *)
LayerFromTar(l) ==
    LET One(m, p) == AddChanged(m, p, l[p], TRUE)
    IN FoldLeft(One, Begin, Entries(l) \o HardLinks(l))

-----------------------------------------------------------------------------
(* Copier: files on disk are written through symlinks, and a directory     *)
(* that lacks is made.                                                     *)

MkdirAll(fs, p) ==
    IF p = <<>> \/ p \in DOMAIN fs THEN fs ELSE Put(fs, p, New(Dir(now)))

CopyFile(fs, p, h) ==
    LET q == Real(fs, p)
    IN IF fs = Broken \/ ~IsDir(fs, Parent(q)) \/ IsDir(fs, q) THEN Broken
       ELSE LET r == IF Len(q) = 1 THEN <<Follow(fs, q[1])>> ELSE q
            IN IF IsDir(fs, r) \/ IsLink(fs, r[1]) \/ (r # q /\ r \notin DOMAIN fs) THEN Broken
               ELSE Created(fs, r, File(now, h.data))

CopyDir(fs, p) ==
    IF fs = Broken THEN Broken
    ELSE LET q == Real(fs, p)
         IN IF ~IsDir(fs, Parent(q)) \/ (q \in DOMAIN fs /\ ~IsDir(fs, q)) THEN Broken
            ELSE IF q \in DOMAIN fs THEN fs ELSE Created(fs, q, Dir(now))

ExecuteCopy(fs, op) ==
    LET s == op.src
        One(d, p) == IF p = <<>> THEN d
                     ELSE IF s.tree[p].type = "dir" THEN CopyDir(d, op.dst \o p)
                     ELSE CopyFile(d, op.dst \o p, s.tree[p])
        target == IF op.slash THEN Append(op.dst, s.base) ELSE op.dst
    IN IF IsDirSource(s) THEN FoldLeft(One, MkdirAll(fs, op.dst), Files(s))
       ELSE CopyFile(MkdirAll(fs, Parent(target)), target, s.tree[<<>>])

(* The copies that stay within the paths of the model (and see Copy). *)
Targets(op) ==
    IF IsDirSource(op.src) THEN {op.dst \o p : p \in DOMAIN op.src.tree}
    ELSE {IF op.slash THEN Append(op.dst, op.src.base) ELSE op.dst}
CopyOperation ==
    {op \in [src : Sources, dst : Paths \cup {<<>>}, slash : BOOLEAN] :
        /\ op.dst = <<>> => op.slash
        /\ IsDirSource(op.src) => op.slash
        /\ Targets(op) \subseteq Paths \cup {<<>>}}

MeetsLink(op) ==
    \E p \in Targets(op) \ {<<>>} :
        \/ ~IsDirSource(op.src) /\ IsLink(disk, p[1])
        \/ IsDirSource(op.src) /\ Len(p) = 1 /\ p # op.dst /\ IsLink(disk, p[1])
MeetsHardLink(op) ==
    \E p \in Targets(op) : Real(disk, p) \in DOMAIN disk /\ Cardinality(NamesOf(disk, Real(disk, p))) > 1

-----------------------------------------------------------------------------
Init ==
    /\ disk = Nothing /\ tree = Nothing /\ image = Nothing /\ layer = Nothing
    /\ copyOps = <<>> /\ mustScan = FALSE
    /\ now = 1
    /\ phase = "from"

(* FROM, or a layer from the cache: untarred and merged into MemFS. *)
UpdateFromTarReader(l) ==
    /\ phase = "from"
    /\ LET m == LayerFromTar(l)
           d == Untar(disk, l)
       IN IF m.error \/ d = Broken
          THEN phase' = "failed" /\ UNCHANGED <<disk, tree, image, layer>>
          ELSE /\ disk' = d
               /\ tree' = m.tree
               /\ image' = Untar(image, l)
               /\ layer' = m.layer
               /\ UNCHANGED phase
    /\ UNCHANGED <<copyOps, mustScan, now>>

EndFrom ==
    /\ phase = "from"
    /\ phase' = "build"
    /\ UNCHANGED <<disk, tree, image, layer, copyOps, mustScan, now>>

(* RUN: the changes a command may make, one at a time. *)
Command(d) ==
    /\ phase = "build" /\ now < MaxTime
    /\ disk' = d
    /\ mustScan' = TRUE
    /\ UNCHANGED <<tree, image, layer, copyOps, now, phase>>

WriteFile(p, c) ==
    /\ IsDir(disk, Parent(p)) /\ (p \in DOMAIN disk => disk[p].type = "file")
    /\ Command(Created(disk, p, File(now, c)))

MakeDir(p) ==
    /\ IsDir(disk, Parent(p)) /\ p \notin DOMAIN disk
    /\ Command(Created(disk, p, Dir(now)))

MakeLink(name, target) ==
    /\ <<name>> \notin DOMAIN disk /\ name # target
    /\ Command(Put(disk, <<name>>, New(Link(now, target))))

RemoveFile(p) ==
    /\ p \in DOMAIN disk
    /\ RemovesCopies \/ \A q \in DOMAIN tree : IsPrefix(p, q) => tree[q].own
    /\ Command(Touched(RemoveAll(disk, p), p))

(* COPY where the stage is on disk: the files are copied at once, and the  *)
(* operation is kept for the commit.                                       *)
Copy(op) ==
    /\ phase = "build" /\ now < MaxTime /\ Len(copyOps) < 2
    /\ {Real(disk, p) : p \in Targets(op)} \subseteq Paths \cup {<<>>}
    /\ CopiesToLinks \/ ~MeetsLink(op)
    /\ CopiesToHardLinks \/ ~MeetsHardLink(op)
    /\ LET d == ExecuteCopy(disk, op)
       IN IF d = Broken
          THEN phase' = "failed" /\ UNCHANGED <<disk, copyOps>>
          ELSE /\ disk' = d
               /\ copyOps' = Append(copyOps, op)
               /\ UNCHANGED phase
    /\ UNCHANGED <<tree, image, layer, mustScan, now>>

(* sync: a commit begins in the next second. *)
Sync == now' = now + 1

(* commitLayer of lib/builder/step: by scan after a command, otherwise by  *)
(* copy operations.                                                        *)
Commit ==
    /\ phase = "build" /\ now < MaxTime
    /\ mustScan \/ copyOps # <<>>
    /\ LET m == IF mustScan THEN LayerByScan ELSE LayerByCopyOps
       IN IF m.error
          THEN phase' = "failed" /\ UNCHANGED <<tree, image, layer>>
          ELSE /\ tree' = m.tree
               /\ layer' = m.layer
               /\ image' = Untar(image, m.layer)
               /\ UNCHANGED phase
    /\ mustScan' = FALSE /\ copyOps' = <<>>
    /\ Sync
    /\ UNCHANGED disk

Run ==
    \/ \E p \in Paths, c \in Content : WriteFile(p, c)
    \/ \E p \in Paths : MakeDir(p) \/ RemoveFile(p)
    \/ \E n, t \in Names : MakeLink(n, t)

Next ==
    \/ \E l \in TarLayers : UpdateFromTarReader(l)
    \/ EndFrom
    \/ Run
    \/ \E op \in CopyOperation : Copy(op)
    \/ Commit

Spec == Init /\ [][Next]_vars

-----------------------------------------------------------------------------
(* What is at a path, but for its time. *)
Look(fs) == [p \in DOMAIN fs |-> <<fs[p].type, fs[p].data>>]
Kinds(fs) == [p \in DOMAIN fs |-> IF fs[p].type = "hard" THEN "file" ELSE fs[p].type]
Clean == phase = "build" /\ ~mustScan /\ copyOps = <<>>

(* The state is of the shape the code gives it: on disk files are in       *)
(* directories, and in MemFS (memFSNode, mem_fs.go:38) nothing is below a  *)
(* file.                                                                   *)
TypeOK ==
    /\ now \in 1 .. MaxTime /\ phase \in {"from", "build", "failed"}
    /\ mustScan \in BOOLEAN /\ Len(copyOps) \in 0 .. 2
    /\ DOMAIN disk \subseteq Paths /\ DOMAIN tree \subseteq Paths
    /\ \A p \in DOMAIN disk : IsDir(disk, Parent(p))
    /\ \A p \in DOMAIN tree : Len(p) = 2 => Parent(p) \in DOMAIN tree /\ tree[Parent(p)].type \in {"dir", "link"}

(* With nothing left to commit, the layers make up what is on disk, however *)
(* they were made (AddLayerByScan, AddLayerByCopyOps; mem_fs.go:260, 276).  *)
ImageIsDisk == Clean => image # Broken /\ Look(image) = Look(disk)

(* MemFS is the image: a file is a node of it exactly if the layers have   *)
(* it (the merged view of mem_fs.go:60).                                   *)
TreeIsImage == phase = "build" => Kinds(tree) = Kinds(image)

(* The tree in memory is a tree, and the image (the two above).             *)
MemFSInvariant == TypeOK /\ TreeIsImage

(* A layer brings every directory its files are in (addAncestors,          *)
(* mem_fs.go:509): it can be untarred alone.                               *)
LayerStandsAlone ==
    phase = "build" => Untar(Nothing, layer) # Broken
=============================================================================
