------------------------------- MODULE Mounts -------------------------------
(***************************************************************************)
(* The tree of names, kernel/fs/vfs: volumes mounted upon directories of   *)
(* other volumes, the table of nodes in use with the references taken upon *)
(* them, and the walk that turns a path into a node.                       *)
(*                                                                         *)
(* A call of this layer is made by one program at a time and does not give *)
(* the processor up, so a call is one step; inside it the walk takes and   *)
(* drops references one by one, and any read of the medium may fail.       *)
(* `left` is how many reads succeed before one fails.                      *)
(*                                                                         *)
(* A volume is what its filesystem says of it: of each inode its kind, the *)
(* names in it, and its parent (module Volume has the blocks beneath).     *)
(* Lengths of paths and names, "." and modes of access are left out; the   *)
(* holders of a descriptor are in module Pipe.                             *)
(***************************************************************************)
EXTENDS Integers, Sequences, FiniteSets
LOCAL INSTANCE SequencesExt
LOCAL INSTANCE FiniteSetsExt

CONSTANTS
    Contents,       \* what each block device holds at first, by inode
    NodeSlots,      \* how far the table of nodes can grow
    MountSlots,     \* and the table of mounts
    Descriptors,    \* and the table of open files
    LinkDepth,      \* VFS_SYMLINK_DEPTH_MAXIMUM
    Reads,          \* reads to each component of a path, at most
    Paths,          \* the paths programs use
    LinkPaths,      \* the pairs of paths given to VfsLink
    Points,         \* the paths volumes are mounted upon
    WriteFails      \* whether the write of an unmount may fail

Device == DOMAIN Contents
Slot == 1 .. NodeSlots
MountSlot == 1 .. MountSlots
File == 1 .. Descriptors
RootInode == 1    \* EXT2_ROOT_INODE
None == 0

ASSUME MountsAssumption ==
    /\ {NodeSlots, MountSlots, Descriptors, LinkDepth, Reads} \subseteq Nat
    /\ None \notin Device /\ WriteFails \in BOOLEAN
    /\ \A d \in Device : Contents[d][RootInode].kind = "directory"

VARIABLES
    tree,       \* the contents of each device
    nodes,      \* VfsNodeSlots
    mounts,     \* VfsMounts
    rootMount,  \* VfsRootMount
    files       \* VfsFileSlots: the node of each open file

treeVars == <<tree, nodes, mounts, rootMount, files>>

Unused == [used |-> FALSE, mount |-> None, number |-> None, kind |-> "free", refs |-> 0,
           mounted |-> None]
Unmounted == [device |-> None, root |-> None, covered |-> None, point |-> None, volume |-> FALSE]
Absent == [kind |-> "free", names |-> <<>>, up |-> None, target |-> None]

MountsInit ==
    /\ tree = Contents
    /\ nodes = [s \in Slot |-> Unused]
    /\ mounts = [m \in MountSlot |-> Unmounted]
    /\ rootMount = None
    /\ files = [f \in File |-> None]

(***************************************************************************)
(* References.  n is the table of nodes as it stands within a call.        *)
(***************************************************************************)
VfsNodeHold(n, s) == [n EXCEPT ![s].refs = @ + 1]

VfsNodeRelease(n, s) ==
    IF s = None \/ ~n[s].used THEN n
    ELSE IF n[s].refs > 1 THEN [n EXCEPT ![s].refs = @ - 1]
    ELSE [n EXCEPT ![s] = Unused]

(* Where a call stands: the table, the reads that still succeed, the error *)
(* if it has failed, the directory the walk is in and what it found there. *)
Begun(left) ==
    [nodes |-> nodes, left |-> left, error |-> "none", at |-> None, child |-> None]
Failed(w) == w.error # "none"
Refused(w, error, dropped) ==
    [w EXCEPT !.error = error, !.nodes = FoldLeft(VfsNodeRelease, @, dropped)]

(* VfsNodeAcquire: the node of a file that is in use already, or the first *)
(* unused slot, which the filesystem fills from what it reads of the file. *)
(* `dropped` is what the caller releases when there is no node.            *)
VfsNodeAcquire(w, m, number, file, dropped) ==
    LET held == {s \in Slot : w.nodes[s].used /\ w.nodes[s].mount = m
                                  /\ w.nodes[s].number = number}
        free == {s \in Slot : ~w.nodes[s].used}
    IN  IF Failed(w) THEN w
        ELSE IF held # {}
        THEN [w EXCEPT !.nodes = VfsNodeHold(@, Min(held)), !.child = Min(held)]
        ELSE IF free = {} THEN Refused(w, "no resource", dropped)
        ELSE IF w.left = 0 THEN Refused(w, "not found", dropped)
        ELSE [w EXCEPT !.left = @ - 1,
                       !.child = Min(free),
                       !.nodes[Min(free)] =
                            [used |-> TRUE, mount |-> m, number |-> number, refs |-> 1,
                             kind |-> file.kind, mounted |-> None]]

(* The number of reads before one fails, up to more than the call makes.   *)
Until(path) == 0 .. Reads * Len(path.names) + 2

(***************************************************************************)
(* VfsWalk.  Each part of it passes a call on that has failed.             *)
(***************************************************************************)
FilesOf(m) == tree[mounts[m].device]
At(w) == w.nodes[w.at]
Child(w) == w.nodes[w.child]

(* Mutant: the step out of a mounted volume is taken once.                 *)
OutOfOnce(w) ==
    LET m == At(w).mount
        covered == mounts[m].covered
    IN  IF mounts[m].root = w.at /\ covered # None
        THEN [w EXCEPT !.nodes = VfsNodeRelease(VfsNodeHold(@, covered), w.at), !.at = covered]
        ELSE w

(* Leaving a mounted volume by "..": from a root to what its mount covers, *)
(* as often as that is again a root.                                       *)
RECURSIVE OutOf(_)
OutOf(w) ==
    LET m == At(w).mount
        covered == mounts[m].covered
    IN  IF mounts[m].root = w.at /\ covered # None
        THEN OutOf([w EXCEPT !.nodes = VfsNodeRelease(VfsNodeHold(@, covered), w.at),
                             !.at = covered])
        ELSE w

Entered(w, name) ==
    IF Failed(w) THEN w
    ELSE IF At(w).kind # "directory" THEN Refused(w, "not directory", <<w.at>>)
    ELSE IF name = ".." THEN OutOf(w) ELSE w

(* The filesystem's lookup in the directory.  A read that fails is         *)
(* reported as a name that is not there.                                   *)
NumberOf(node, name) ==
    LET directory == FilesOf(node.mount)[node.number]
    IN  IF name = ".." THEN directory.up
        ELSE IF name \in DOMAIN directory.names THEN directory.names[name] ELSE None
LookedUp(w, name) ==
    IF Failed(w) THEN w
    ELSE IF w.left = 0 \/ NumberOf(At(w), name) = None THEN Refused(w, "not found", <<w.at>>)
    ELSE [w EXCEPT !.left = @ - 1]

ChildOf(w, name) ==
    IF Failed(w) THEN w
    ELSE VfsNodeAcquire(w, At(w).mount, NumberOf(At(w), name),
                        FilesOf(At(w).mount)[NumberOf(At(w), name)], <<w.at>>)

(* Mutant: the reference upon the directory beneath is not dropped.        *)
IntoKept(w) ==
    IF ~Failed(w) /\ Child(w).mounted # None
    THEN LET root == mounts[Child(w).mounted].root
         IN  [w EXCEPT !.nodes = VfsNodeHold(@, root), !.child = root]
    ELSE w

(* Crossing into a mounted volume, and into one mounted upon its root.     *)
RECURSIVE Into(_)
Into(w) ==
    IF ~Failed(w) /\ Child(w).mounted # None
    THEN LET root == mounts[Child(w).mounted].root
         IN  Into([w EXCEPT !.nodes = VfsNodeRelease(VfsNodeHold(@, root), w.child),
                            !.child = root])
    ELSE w

(* A symbolic link is released and its target walked from the directory    *)
(* that holds it.                                                          *)
RECURSIVE VfsWalk(_, _, _, _, _)

Returned(directory, w) ==
    IF Failed(w) THEN Refused(w, w.error, <<directory>>)
    ELSE [w EXCEPT !.child = w.at, !.at = directory]

Followed(w, follows, depth) ==
    IF Failed(w) \/ Child(w).kind # "link" \/ ~follows THEN w
    ELSE IF w.left = 0 THEN Refused(w, "medium", <<w.child, w.at>>)
    ELSE Returned(w.at,
                  VfsWalk([w EXCEPT !.left = @ - 1, !.nodes = VfsNodeRelease(@, w.child)],
                          w.at, FilesOf(Child(w).mount)[Child(w).number].target,
                          TRUE, depth + 1))

Stepped(w) ==
    IF Failed(w) THEN w ELSE [w EXCEPT !.nodes = VfsNodeRelease(@, w.at), !.at = w.child]

(* A path that ends in a separator names a directory.                      *)
Asserted(w, path) ==
    IF ~Failed(w) /\ path.slash /\ At(w).kind # "directory"
    THEN Refused(w, "not directory", <<w.at>>) ELSE w

VfsWalk(w, start, path, follow, depth) ==
    LET from == IF path.absolute THEN mounts[rootMount].root ELSE start
        Component(v, k) ==
            Stepped(Followed(Into(ChildOf(LookedUp(Entered(v, path.names[k]), path.names[k]),
                                          path.names[k])),
                             k < Len(path.names) \/ follow \/ path.slash, depth))
    IN  IF Failed(w) THEN w
        ELSE IF depth > LinkDepth THEN Refused(w, "too many links", <<>>)
        ELSE IF path.absolute /\ rootMount = None THEN Refused(w, "not found", <<>>)
        ELSE Asserted(FoldLeft(Component,
                               [w EXCEPT !.nodes = VfsNodeHold(@, from), !.at = from],
                               [k \in DOMAIN path.names |-> k]),
                      path)

(* VfsResolve and VfsResolveNoFollow.                                      *)
Resolved(path, follow, left) == VfsWalk(Begun(left), None, path, follow, 0)

(* VfsResolveParent: the directory of the last component, which is neither *)
(* ".." nor followed by a separator.                                       *)
VfsResolveParent(w, path) ==
    IF path.names = <<>> \/ path.slash \/ Last(path.names) = ".."
    THEN Refused(w, "invalid", <<>>)
    ELSE VfsWalk(w, None, [path EXCEPT !.names = Front(@), !.slash = TRUE], TRUE, 0)

(***************************************************************************)
(* Mounting and unmounting.                                                *)
(***************************************************************************)

(* A call that refuses leaves the table of nodes as it made it.            *)
Fails(w) == nodes' = w.nodes /\ UNCHANGED <<tree, mounts, rootMount, files>>

(* The directory to be covered: none for the first mount, which is the     *)
(* root's.  The filesystem then reads the volume.                          *)
Coverable(w) ==
    IF Failed(w) THEN w
    ELSE IF At(w).kind # "directory" THEN Refused(w, "not directory", <<w.at>>)
    ELSE IF At(w).mounted # None THEN Refused(w, "busy", <<w.at>>)
    ELSE w
VolumeRead(w) ==
    IF Failed(w) THEN w
    ELSE IF w.left = 0 THEN Refused(w, "medium", <<w.at>>)
    ELSE [w EXCEPT !.left = @ - 1]
Covered(point, left) ==
    VolumeRead(IF rootMount # None THEN Coverable(Resolved(point, TRUE, left))
               ELSE IF point.names = <<>> THEN Begun(left)
               ELSE Refused(Begun(left), "invalid", <<>>))

Attached(w, m, d, point) ==
    IF Failed(w) THEN Fails(w)
    ELSE /\ nodes' = IF w.at = None THEN w.nodes ELSE [w.nodes EXCEPT ![w.at].mounted = m]
         /\ mounts' = [mounts EXCEPT ![m] = [device |-> d, root |-> w.child, covered |-> w.at,
                                             point |-> point, volume |-> TRUE]]
         /\ rootMount' = IF w.at = None THEN m ELSE rootMount
         /\ UNCHANGED <<tree, files>>

RootOf(w, m, d) == VfsNodeAcquire(w, m, RootInode, tree[d][RootInode], <<w.at>>)

VfsMountVolume(d, point, left) ==
    LET unmounted == {m \in MountSlot : mounts[m].device = None}
    IN  /\ \A m \in MountSlot : mounts[m].device # d
        /\ unmounted # {}
        /\ Attached(RootOf(Covered(point, left), Min(unmounted), d), Min(unmounted), d, point)

(* A volume is mounted within this one.  (Mutant: this alone is a reason   *)
(* to refuse.)                                                             *)
CoveredWithin(m) ==
    \E other \in MountSlot \ {m} :
        mounts[other].covered # None /\ nodes[mounts[other].covered].mount = m

(* VfsMountIsBusy.                                                         *)
VfsMountIsBusy(m) ==
    \/ \E f \in File : files[f] # None /\ nodes[files[f]].mount = m
    \/ \E s \in Slot : /\ nodes[s].used /\ nodes[s].mount = m
                       /\ s = mounts[m].root => nodes[s].refs > 1
    \/ CoveredWithin(m)

(* The first mount with that point is meant.  The references go before the *)
(* filesystem gives the volume up.  Where that reports a failed write the  *)
(* volume is given up and the mount stays in the table, and a filesystem   *)
(* asked again finds that the mount holds no volume.                       *)
VfsUnmount(point) ==
    LET there == {m \in MountSlot : mounts[m].device # None /\ mounts[m].point = point}
        m == Min(there)
        covered == mounts[m].covered
        released == VfsNodeRelease(nodes, mounts[m].root)
        bare == IF covered = None THEN released ELSE [released EXCEPT ![covered].mounted = None]
    IN  /\ there # {} /\ ~VfsMountIsBusy(m)
        /\ \E written \in IF WriteFails THEN BOOLEAN ELSE {TRUE} :
              IF written /\ mounts[m].volume
              THEN /\ nodes' = VfsNodeRelease(bare, covered)
                   /\ mounts' = [mounts EXCEPT ![m] = Unmounted]
                   /\ rootMount' = IF rootMount = m THEN None ELSE rootMount
              ELSE /\ nodes' = bare
                   /\ mounts' = [mounts EXCEPT ![m].volume = FALSE]
                   /\ UNCHANGED rootMount
        /\ UNCHANGED <<tree, files>>

(***************************************************************************)
(* What the filesystem does to its volume.                                 *)
(***************************************************************************)
FreeInodes(d) == {i \in DOMAIN tree[d] : tree[d][i].kind = "free"}
DeviceOf(node) == mounts[node.mount].device

(* A name in a directory, for a file that is there or a new one.           *)
Named(node, name, i, file) ==
    [tree EXCEPT ![DeviceOf(node)][i] = file,
                 ![DeviceOf(node)][node.number].names =
                     [n \in DOMAIN @ \cup {name} |-> IF n = name THEN i ELSE @[n]]]
NewFile(kind, node) == [kind |-> kind, names |-> <<>>, up |-> node.number, target |-> None]
NewInode(node) == Min(FreeInodes(DeviceOf(node)))

(* A name less; the file goes with its last name.                          *)
Unnamed(node, name) ==
    LET d == DeviceOf(node)
        i == tree[d][node.number].names[name]
        less == [tree EXCEPT ![d][node.number].names = [n \in DOMAIN @ \ {name} |-> @[n]]]
        named == \E j \in DOMAIN less[d] : \E n \in DOMAIN less[d][j].names : less[d][j].names[n] = i
    IN  IF named THEN less ELSE [less EXCEPT ![d][i] = Absent]

(* Whether the filesystem can make a name in the directory w.at, for a new *)
(* file or for one that is there.                                          *)
CanName(w, name) == w.left > 0 /\ NumberOf(At(w), name) = None
CanCreate(w, name) == CanName(w, name) /\ FreeInodes(DeviceOf(At(w))) # {}

(***************************************************************************)
(* Opening and closing.                                                    *)
(***************************************************************************)
OpenModes == {{}, {"no follow"}, {"directory"},
              {"write", "create"}, {"write", "create", "exclusive"}}

(* VfsCreateAndAcquire: the file, then its node, for descriptor f.  The    *)
(* file stays where its node cannot be had.                                *)
Opened(w, f) ==
    /\ nodes' = VfsNodeRelease(w.nodes, w.at)
    /\ files' = IF Failed(w) THEN files ELSE [files EXCEPT ![f] = w.child]
Created(w, name, f) ==
    IF Failed(w) THEN Fails(w)
    ELSE IF ~CanCreate(w, name) THEN Fails(Refused(w, "refused", <<w.at>>))
    ELSE /\ tree' = Named(At(w), name, NewInode(At(w)), NewFile("file", At(w)))
         /\ Opened(VfsNodeAcquire([w EXCEPT !.left = @ - 1], At(w).mount, NewInode(At(w)),
                                  NewFile("file", At(w)), <<>>), f)
         /\ UNCHANGED <<mounts, rootMount>>

(* What VfsOpen refuses of a node that it reached.                         *)
CannotOpen(node, mode) ==
    \/ "exclusive" \in mode
    \/ node.kind = "link"
    \/ "directory" \in mode /\ node.kind # "directory"
    \/ node.kind = "directory" /\ "write" \in mode

(* A device that failed one read may answer the next, and the file that    *)
(* was not found is then there when it is to be made.                      *)
OpenReached(w, path, mode, f) ==
    IF "create" \in mode /\ w.error = "not found"
    THEN \E left \in {w.left, Max(Until(path))} :
            Created(VfsResolveParent([w EXCEPT !.error = "none", !.left = left], path),
                    Last(path.names), f)
    ELSE IF Failed(w) THEN Fails(w)
    ELSE IF CannotOpen(At(w), mode) THEN Fails(Refused(w, "refused", <<w.at>>))
    ELSE /\ nodes' = w.nodes
         /\ files' = [files EXCEPT ![f] = w.at]
         /\ UNCHANGED <<tree, mounts, rootMount>>

VfsOpen(path, mode, left) ==
    LET closed == {f \in File : files[f] = None}
    IN  /\ closed # {}
        /\ OpenReached(Resolved(path, "no follow" \notin mode, left), path, mode, Min(closed))

VfsClose(f) ==
    /\ files[f] # None
    /\ nodes' = VfsNodeRelease(nodes, files[f])
    /\ files' = [files EXCEPT ![f] = None]
    /\ UNCHANGED <<tree, mounts, rootMount>>

(***************************************************************************)
(* Making and removing names.                                              *)
(***************************************************************************)
MadeDirectory(w, name) ==
    IF Failed(w) THEN Fails(w)
    ELSE IF ~CanCreate(w, name) THEN Fails(Refused(w, "refused", <<w.at>>))
    ELSE /\ tree' = Named(At(w), name, NewInode(At(w)), NewFile("directory", At(w)))
         /\ nodes' = VfsNodeRelease(w.nodes, w.at)
         /\ UNCHANGED <<mounts, rootMount, files>>
VfsCreateDirectory(path, left) ==
    MadeDirectory(VfsResolveParent(Begun(left), path), Last(path.names))

(* The file is held while the directory of its new name is looked for.     *)
Linked(w, file, name) ==
    IF Failed(w) THEN Fails(Refused(w, w.error, <<file>>))
    ELSE IF At(w).mount # w.nodes[file].mount \/ ~CanName(w, name)
    THEN Fails(Refused(w, "refused", <<w.at, file>>))
    ELSE /\ tree' = Named(At(w), name, w.nodes[file].number,
                          FilesOf(At(w).mount)[w.nodes[file].number])
         /\ nodes' = FoldLeft(VfsNodeRelease, w.nodes, <<w.at, file>>)
         /\ UNCHANGED <<mounts, rootMount, files>>
LinkTo(w, path) ==
    IF Failed(w) THEN Fails(w)
    ELSE IF At(w).kind = "directory" THEN Fails(Refused(w, "directory", <<w.at>>))
    ELSE Linked(VfsResolveParent(w, path), w.at, Last(path.names))
VfsLink(existing, path, left) == LinkTo(Resolved(existing, FALSE, left), path)

(* Whether anything but the resolution itself holds the file: an open      *)
(* file, or a mount that covers it.                                        *)
HeldElsewhere(node) == node.refs > 1

(* VfsUnlink and VfsRemoveDirectory, by way of VfsResolveForRemoval; the   *)
(* filesystem refuses a directory that is not empty.                       *)
Removed(w, name, directory) ==
    LET held == <<w.child, w.at>>
    IN  IF Failed(w) THEN Fails(w)
        ELSE IF \/ HeldElsewhere(Child(w))
                \/ (Child(w).kind = "directory") # directory
                \/ DOMAIN FilesOf(Child(w).mount)[Child(w).number].names # {}
                \/ w.left = 0
        THEN Fails(Refused(w, "refused", held))
        ELSE /\ tree' = Unnamed(At(w), name)
             /\ nodes' = FoldLeft(VfsNodeRelease, w.nodes, held)
             /\ UNCHANGED <<mounts, rootMount, files>>
RemoveName(path, directory, left) ==
    LET name == Last(path.names)
    IN  Removed(ChildOf(LookedUp(VfsResolveParent(Begun(left), path), name), name),
                name, directory)

Makeable == {path \in Paths : path.names # <<>> /\ ~path.slash}

MountsNext ==
    \/ \E d \in Device, point \in Points : \E left \in Until(point) :
          VfsMountVolume(d, point, left)
    \/ \E point \in Points : VfsUnmount(point)
    \/ \E path \in Paths, mode \in OpenModes : \E left \in Until(path) : VfsOpen(path, mode, left)
    \/ \E f \in File : VfsClose(f)
    \/ \E path \in Makeable : \E left \in Until(path) : VfsCreateDirectory(path, left)
    \/ \E pair \in LinkPaths : \E left \in Until(pair[1]) : VfsLink(pair[1], pair[2], left)
    \/ \E path \in Makeable, directory \in BOOLEAN : \E left \in Until(path) :
          RemoveName(path, directory, left)

MountsSpec == MountsInit /\ [][MountsNext]_treeVars

(***************************************************************************)
(* Properties.                                                             *)
(***************************************************************************)
Mounted == {m \in MountSlot : mounts[m].device # None}

(* NodesCounted: between calls a node is referred to exactly by the open   *)
(* files upon it and by the mounts whose root it is or which cover it, its *)
(* count is their number, and a file has one node.  No walk that fails     *)
(* midway (VfsWalk, VfsMountVolume, VfsResolveForRemoval) keeps or drops a *)
(* reference too many.                                                     *)
NodesCounted ==
    /\ \A s \in Slot :
          LET holders == Cardinality({f \in File : files[f] = s})
                         + Cardinality({m \in MountSlot : mounts[m].root = s})
                         + Cardinality({m \in MountSlot : mounts[m].covered = s})
          IN  nodes[s].refs = holders /\ nodes[s].used = (holders > 0)
    /\ \A s, t \in Slot :
          /\ nodes[s].used /\ nodes[t].used /\ s # t
          => <<nodes[s].mount, nodes[s].number>> # <<nodes[t].mount, nodes[t].number>>

(* TreeHangsTogether: a node in use describes a file that exists, upon a   *)
(* volume that is mounted; the root of a mount is a node of it; and a      *)
(* mount and the directory that it covers refer to each other, the root's  *)
(* mount alone covering none (VfsUnmount refuses what is busy, VfsUnlink   *)
(* and VfsRemoveDirectory what is held).                                   *)
TreeHangsTogether ==
    /\ \A s \in Slot : nodes[s].used =>
          /\ nodes[s].mount \in Mounted
          /\ nodes[s].kind # "free"
          /\ FilesOf(nodes[s].mount)[nodes[s].number].kind = nodes[s].kind
          /\ nodes[s].mounted # None => mounts[nodes[s].mounted].covered = s
    /\ \A m \in Mounted :
          /\ nodes[mounts[m].root].mount = m /\ nodes[mounts[m].root].number = RootInode
          /\ IF mounts[m].covered = None THEN rootMount = m
             ELSE nodes[mounts[m].covered].mounted = m /\ nodes[mounts[m].covered].mount # m
    /\ Mounted # {} => rootMount \in Mounted

(* UpUndoesDown: a path that leads to a directory leads back with a name   *)
(* and ".." added to it, into mounted volumes and out of them again.  (It  *)
(* does not once a second volume has been mounted upon "/": VfsMountVolume *)
(* admits that, and "/" then names the volume beneath.)                    *)
UpUndoesDown ==
    LET To(path, names) ==
            VfsWalk(Begun(Max(Until(path)) + 2 * Reads), None,
                    [path EXCEPT !.names = @ \o names], FALSE, 0)
        Back(here, there) ==
            ~Failed(there) =>
                <<At(there).mount, At(there).number>> = <<At(here).mount, At(here).number>>
        Around(here, path) ==
            ~Failed(here) =>
                \A name \in DOMAIN FilesOf(At(here).mount)[At(here).number].names :
                    FilesOf(At(here).mount)[NumberOf(At(here), name)].kind = "directory"
                        => Back(here, To(path, <<name, "..">>))
    IN  rootMount # None /\ nodes[mounts[rootMount].root].mounted = None
            => \A path \in Paths : Around(To(path, <<>>), path)

(* UnmountCompletes: a mount in the table has its volume.  A failure to    *)
(* write when a volume is unmounted does not keep the unmount from         *)
(* completing, as Ext2VfsUnmount says of itself.                           *)
UnmountCompletes == \A m \in Mounted : mounts[m].volume
=============================================================================
