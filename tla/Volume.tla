------------------------------- MODULE Volume -------------------------------
(***************************************************************************)
(* One ext2 volume mounted elsewhere than at the root: the allocations,    *)
(* inodes and directories of kernel/fs/ext2, the calls of kernel/fs/vfs    *)
(* that reach them, the mounting of kernel/fs/ext2_vfs.c and of            *)
(* kernel/fs/persist.c, and the machine stopping at any moment.            *)
(*                                                                         *)
(* A call of the filesystem never sleeps, so it is one step.  But all its  *)
(* writes are made into buffers, which the cache may write back at any     *)
(* time and in any order, until a BufferSync writes them all: `view` is    *)
(* what is read through the cache, and `maybe` is every version each       *)
(* buffer had since the last BufferSync, any one of which the medium may   *)
(* hold.  A machine that stops leaves one of them in each place.           *)
(*                                                                         *)
(* There is one block group.  An inode has one direct pointer and one      *)
(* indirect table; sizes are in blocks.  A block of a directory has room   *)
(* for DirSlots names; "." and ".." are in the link counts alone.  Device  *)
(* errors are those of module BufferCache.                                 *)
(***************************************************************************)
EXTENDS Integers, FiniteSetsExt, SequencesExt

CONSTANTS
    Inodes,        \* how many inodes; the first is the root directory
    DiskBlocks,    \* how many blocks files and directories may have
    Name,          \* names in directories
    DirSlots,      \* names a block of a directory has room for
    PerTable,      \* pointers in an indirect table
    PerSector,     \* inodes in one buffer
    Descriptor,    \* open files, each opened for writing
    PersistAdopts  \* the volume is the one PersistMountDevice marks clean

ASSUME VolumeAssumption ==
    /\ {Inodes, DiskBlocks, DirSlots, PerTable, PerSector} \subseteq Nat \ {0}
    /\ IsFiniteSet(Name) /\ PersistAdopts \in BOOLEAN

Inode == 1 .. Inodes
Root == 1
DiskBlock == 1 .. DiskBlocks
Sector(i) == i \div PerSector

(* The buffers of the volume.                                              *)
Super == <<"super", 0>>
Group == <<"group", 0>>
BlockMap == <<"blockmap", 0>>
InodeMap == <<"inodemap", 0>>
Table(i) == <<"inodes", Sector(i)>>
Area(b) == <<"area", b>>
Structure == {Super, Group, BlockMap, InodeMap}
    \cup {Table(i) : i \in Inode} \cup {Area(b) : b \in DiskBlock}

(* Ext2ComposeInode: no blocks.                                            *)
NewInode(kind, links) ==
    [kind |-> kind, links |-> links, size |-> 0, direct |-> 0, table |-> 0]
NoInode == NewInode("none", 0)
NoNames == [n \in Name |-> 0]
Zeroed == [kind |-> "zero"]
Data(i) == [kind |-> "data", of |-> i]
Names(names) == [kind |-> "names", names |-> names]
Pointers(to) == [kind |-> "pointers", to |-> to]
NoPointers == [e \in 0 .. PerTable - 1 |-> 0]

VARIABLES
    view,    \* the volume through the cache
    maybe,   \* what each of its buffers may be on the medium
    nodes,   \* the inode in memory of each node that is held
    files,   \* the inode each descriptor is open upon, 0 when closed
    phase,   \* "off", "mounting", "on", "readonly", "syncing", "releasing", "stopped"
    full     \* some allocation was refused since the volume was made

volumeVars == <<view, maybe, nodes, files, phase, full>>

(* A volume newly made: a root directory without a name in it.             *)
Made ==
    [x \in Structure |->
        CASE x = Super -> [valid |-> TRUE, freeBlocks |-> DiskBlocks - 1, freeInodes |-> Inodes - 1]
          [] x = Group -> [freeBlocks |-> DiskBlocks - 1, freeInodes |-> Inodes - 1, directories |-> 1]
          [] x = BlockMap -> {1}
          [] x = InodeMap -> {Root}
          [] x[1] = "inodes" ->
                [i \in {j \in Inode : Table(j) = x} |->
                    IF i = Root THEN [NewInode("dir", 2) EXCEPT !.size = 1, !.direct = 1] ELSE NoInode]
          [] x = Area(1) -> Names(NoNames)
          [] OTHER -> Zeroed]

VolumeInit ==
    /\ view = Made
    /\ maybe = [x \in Structure |-> {view[x]}]
    /\ nodes = [i \in Inode |-> NoInode]
    /\ files = [d \in Descriptor |-> 0]
    /\ phase = "off"
    /\ full = FALSE

----------------------------------------------------------------------------
(* An operation carries s: the view `v` and the versions `w` it has made   *)
(* of each buffer, the inode `i` it works upon in memory, the last block   *)
(* or inode it `got`, and whether it is still `ok`; once it is not, the    *)
(* code returns and nothing more is written.                               *)
Begin(inode) == [v |-> view, w |-> maybe, i |-> inode, got |-> 0, ok |-> TRUE]
Refuse(s) == [s EXCEPT !.ok = FALSE]
Put(s, x, value) ==
    IF s.ok THEN [s EXCEPT !.v[x] = value, !.w[x] = @ \cup {value}] ELSE s
Adjust(s, x, field, by) == Put(s, x, [s.v[x] EXCEPT ![field] = @ + by])

InodeIn(v, i) == v[Table(i)][i]
WriteInode(s, i, inode) == Put(s, Table(i), [s.v[Table(i)] EXCEPT ![i] = inode])

(* Ext2AllocateBlock: the bitmap, the group, the superblock.               *)
FreeBits(s) == DiskBlock \ s.v[BlockMap]
AllocateBlock(s) ==
    IF ~s.ok \/ s.v[Super].freeBlocks = 0 \/ s.v[Group].freeBlocks = 0 \/ FreeBits(s) = {}
    THEN Refuse(s)
    ELSE LET b == Min(FreeBits(s))
             a == Put(s, BlockMap, s.v[BlockMap] \cup {b})
         IN  [Adjust(Adjust(a, Group, "freeBlocks", -1), Super, "freeBlocks", -1)
                 EXCEPT !.got = b]

(* Ext2FreeBlock refuses a block that is free already.                     *)
FreeBlock(s, b) ==
    IF b \notin s.v[BlockMap] THEN Refuse(s)
    ELSE LET a == Put(s, BlockMap, s.v[BlockMap] \ {b})
         IN  Adjust(Adjust(a, Group, "freeBlocks", 1), Super, "freeBlocks", 1)

AllocateInode(s, directory) ==
    LET free == Inode \ s.v[InodeMap]
        a == Put(s, InodeMap, s.v[InodeMap] \cup {Min(free)})
        b == Put(a, Group, [a.v[Group] EXCEPT !.freeInodes = @ - 1,
                                              !.directories = IF directory THEN @ + 1 ELSE @])
    IN  IF s.v[Super].freeInodes = 0 \/ s.v[Group].freeInodes = 0 \/ free = {} THEN Refuse(s)
        ELSE [Adjust(b, Super, "freeInodes", -1) EXCEPT !.got = Min(free)]

FreeInode(s, i, directory) ==
    IF i \notin s.v[InodeMap] THEN Refuse(s)
    ELSE LET a == Put(s, InodeMap, s.v[InodeMap] \ {i})
             b == Put(a, Group, [a.v[Group] EXCEPT !.freeInodes = @ + 1,
                                                   !.directories = IF directory THEN @ - 1 ELSE @])
         IN  Adjust(b, Super, "freeInodes", 1)

----------------------------------------------------------------------------
(* The blocks of an inode.  A block that is not a table of pointers reads  *)
(* as one of null pointers.                                                *)
TableOf(v, b) == IF v[Area(b)].kind = "pointers" THEN v[Area(b)].to ELSE NoPointers
BlockAt(v, inode, index) ==
    IF index = 0 THEN inode.direct
    ELSE IF inode.table = 0 THEN 0 ELSE TableOf(v, inode.table)[index - 1]

(* Ext2InodeBlockAllocate.  The table is kept in the inode in memory even  *)
(* where the block it was allocated for could not be.                      *)
PutTable(a) ==
    IF a.ok THEN [Put(a, Area(a.got), Pointers(NoPointers)) EXCEPT !.i.table = a.got] ELSE a
WithTable(s) == IF s.i.table # 0 THEN s ELSE PutTable(AllocateBlock(s))
PutPointer(b, index) ==
    CASE ~b.ok -> b
      [] b.ok /\ index = 0 -> [b EXCEPT !.i.direct = b.got]
      [] OTHER -> Put(b, Area(b.i.table),
                      Pointers([TableOf(b.v, b.i.table) EXCEPT ![index - 1] = b.got]))
AllocateAt(s, index) ==
    LET known == BlockAt(s.v, s.i, index)
    IN  IF known # 0 THEN [s EXCEPT !.got = known]
        ELSE PutPointer(AllocateBlock(IF index = 0 THEN s ELSE WithTable(s)), index)

TruncateNothing(s, i) == WriteInode(s, i, s.i)     \* mutant: nothing is freed
Forget(s, field) == IF s.ok THEN [s EXCEPT !.i[field] = 0] ELSE s

(* Ext2TruncateSubtree: the blocks a table points at, each pointer cleared *)
(* once its block is free.                                                 *)
FreeEntry(a, e) ==
    LET b == TableOf(a.v, a.i.table)[e]
    IN  IF b = 0 THEN a
        ELSE Put(FreeBlock(a, b), Area(a.i.table),
                 Pointers([TableOf(a.v, a.i.table) EXCEPT ![e] = 0]))
FreeEntries(s) ==
    LET freed[k \in 0 .. PerTable] == IF k = 0 THEN s ELSE FreeEntry(freed[k - 1], k - 1)
    IN  freed[PerTable]

(* Ext2TruncateBlocks to nothing: the blocks are freed, then the inode     *)
(* written.  A size of nothing already returns with its blocks.            *)
FreeDirect(s) == IF s.i.direct = 0 THEN s ELSE Forget(FreeBlock(s, s.i.direct), "direct")
FreeTable(s) == IF s.i.table = 0 THEN s ELSE Forget(FreeBlock(FreeEntries(s), s.i.table), "table")
TruncateToNothing(s, i) ==
    LET last == Forget(FreeTable(FreeDirect(s)), "size")
    IN  IF s.i.size = 0 THEN WriteInode(s, i, s.i) ELSE WriteInode(last, i, last.i)

(* Ext2WriteFile of `count` blocks from `index`: the inode is written once *)
(* any of them was.                                                        *)
PutData(b, i, k) ==
    IF b.ok THEN [Put(b, Area(b.got), Data(i)) EXCEPT !.i.size = Max({@, k + 1})] ELSE b
PutInode(a, i) == [WriteInode([a EXCEPT !.ok = TRUE], i, a.i) EXCEPT !.ok = a.ok]
WriteBlock(a, i, k) == IF a.ok THEN PutData(AllocateAt(a, k), i, k) ELSE a
WriteMore(first, i, index, count) ==
    LET written[k \in 0 .. count - 1] ==
            IF k = 0 THEN first ELSE WriteBlock(written[k - 1], i, index + k)
    IN  IF first.ok THEN PutInode(written[count - 1], i) ELSE first
WriteBlocks(s, i, index, count) == WriteMore(WriteBlock(s, i, index), i, index, count)

----------------------------------------------------------------------------
(* Directories, whose inode is s.i.                                        *)
EntriesAt(v, inode, k) == v[Area(BlockAt(v, inode, k))]
IsNames(v, inode, k) == BlockAt(v, inode, k) # 0 /\ EntriesAt(v, inode, k).kind = "names"
Lookup(v, inode, n) ==
    LET at == {k \in 0 .. inode.size - 1 : IsNames(v, inode, k) /\ EntriesAt(v, inode, k).names[n] # 0}
    IN  IF at = {} THEN 0 ELSE EntriesAt(v, inode, Min(at)).names[n]
Used(names) == Cardinality({n \in Name : names[n] # 0})
SetName(s, b, n, i) == Put(s, Area(b), Names([s.v[Area(b)].names EXCEPT ![n] = i]))

(* Ext2DirectoryInsert: into the first block with room, or into a block by *)
(* which the directory grows.                                              *)
Grow(a, dir, n, i) ==
    LET b == [Put(a, Area(a.got), Names(NoNames)) EXCEPT !.i.size = @ + 1]
    IN  IF a.ok THEN SetName(WriteInode(b, dir, b.i), a.got, n, i) ELSE a
Insert(s, dir, n, i) ==
    LET room == {k \in 0 .. s.i.size - 1 : IsNames(s.v, s.i, k) /\ Used(EntriesAt(s.v, s.i, k).names) < DirSlots}
    IN  CASE ~s.ok -> s
          [] s.ok /\ room # {} -> SetName(s, BlockAt(s.v, s.i, Min(room)), n, i)
          [] s.ok /\ room = {} /\ s.i.size > PerTable -> Refuse(s)
          [] OTHER -> Grow(AllocateAt(s, s.i.size), dir, n, i)

RemoveName(s, n) ==
    LET k == CHOOSE k \in 0 .. s.i.size - 1 :
                IsNames(s.v, s.i, k) /\ EntriesAt(s.v, s.i, k).names[n] # 0
    IN  SetName(s, BlockAt(s.v, s.i, k), n, 0)

IsEmpty(v, inode) == \A n \in Name : Lookup(v, inode, n) = 0

(* Ext2CreateFile: the inode is written, then named.                       *)
CreateFile(s, dir, n) ==
    LET a == AllocateInode(s, FALSE)
        b == WriteInode(a, a.got, NewInode("file", 1))
    IN  IF a.ok THEN [Insert(b, dir, n, a.got) EXCEPT !.got = a.got] ELSE a

(* Ext2CreateDirectory: its own block, its inode, its name, its parent.    *)
ParentRaised(s, dir) ==
    LET raised == [s.i EXCEPT !.links = @ + 1]
    IN  IF s.ok THEN [WriteInode(s, dir, raised) EXCEPT !.i = raised] ELSE s
PutDirectory(b, i, dir, n) ==
    LET c == Put(b, Area(b.got), Names(NoNames))
        d == WriteInode(c, i, [NewInode("dir", 2) EXCEPT !.size = 1, !.direct = b.got])
    IN  IF b.ok THEN ParentRaised(Insert(d, dir, n, i), dir) ELSE b
CreateDirectory(s, dir, n) ==
    LET a == AllocateInode(s, TRUE)
    IN  IF a.ok THEN PutDirectory(AllocateBlock(a), a.got, dir, n) ELSE a

(* Ext2Link: the name, then the count.                                     *)
LinkTo(s, dir, n, i, target) ==
    WriteInode(Insert(s, dir, n, i), i, [target EXCEPT !.links = @ + 1])

(* Ext2Unlink: the name, then the count or, with the last, the blocks, the *)
(* inode and its bit.                                                      *)
UnlinkName(s, n) ==
    LET i == Lookup(s.v, s.i, n)
        target == [InodeIn(s.v, i) EXCEPT !.links = @ - 1]
        a == [RemoveName(s, n) EXCEPT !.i = target]
        b == TruncateToNothing(a, i)
        c == WriteInode(b, i, [b.i EXCEPT !.size = 0])
    IN  IF target.links > 0 THEN WriteInode(a, i, target) ELSE FreeInode(c, i, FALSE)

(* Ext2RemoveDirectory.                                                    *)
ParentKept(s, dir) == s          \* mutant: the parent's count is not lowered
ParentLowered(s, dir) ==
    LET lowered == [s.i EXCEPT !.links = @ - 1]
    IN  IF s.ok THEN [WriteInode(s, dir, lowered) EXCEPT !.i = lowered] ELSE s
RemoveDirectory(s, dir, n) ==
    LET i == Lookup(s.v, s.i, n)
        a == [RemoveName(s, n) EXCEPT !.i = InodeIn(s.v, i)]
        b == TruncateToNothing(a, i)
        c == FreeInode(WriteInode(b, i, [b.i EXCEPT !.size = 0, !.links = 0]), i, TRUE)
    IN  ParentLowered([c EXCEPT !.i = s.i], dir)

----------------------------------------------------------------------------
(* The inode a node has in memory: the one held, or the one just read.     *)
NodeOf(i) == IF nodes[i] # NoInode THEN nodes[i] ELSE InodeIn(view, i)
Held(i) == i = Root \/ \E d \in Descriptor : files[d] = i
Directories(v) == {i \in v[InodeMap] : InodeIn(v, i).kind = "dir"}
Named(v) == {Lookup(v, InodeIn(v, dir), n) : dir \in Directories(v), n \in Name} \ {0}
DirectoryNode(dir) == dir \in {Root} \cup Named(view) /\ NodeOf(dir).kind = "dir"

(* The operation's end: its writes stand in the cache, also where it       *)
(* failed; of the node in memory only one that is held remains.            *)
Finish(s, dir) ==
    /\ view' = s.v /\ maybe' = s.w
    /\ nodes' = [i \in Inode |-> IF i = dir /\ Held(i) THEN s.i ELSE nodes[i]]
    /\ full' = (full \/ ~s.ok)

(* A call that alters names is followed by VfsSync where it succeeded      *)
(* (VfsMountIsDurable).                                                    *)
AfterNames(s) == IF s.ok THEN "syncing" ELSE "on"

(* VfsCreateDirectory.                                                     *)
Mkdir(dir, n) ==
    /\ phase = "on" /\ DirectoryNode(dir)
    /\ Lookup(view, NodeOf(dir), n) = 0
    /\ \E s \in {CreateDirectory(Begin(NodeOf(dir)), dir, n)} :
           Finish(s, dir) /\ phase' = AfterNames(s)
    /\ UNCHANGED files

(* VfsUnlink and VfsRemoveDirectory; what somebody holds is not removed.   *)
RemovalBusy(i) == \E d \in Descriptor : files[d] = i

Unlink(dir, n) ==
    /\ phase = "on" /\ DirectoryNode(dir)
    /\ LET i == Lookup(view, NodeOf(dir), n)
           s == UnlinkName(Begin(NodeOf(dir)), n)
       IN  /\ i # 0 /\ ~RemovalBusy(i) /\ InodeIn(view, i).kind = "file"
           /\ Finish([s EXCEPT !.i = NodeOf(dir)], dir)
           /\ phase' = AfterNames(s)
    /\ UNCHANGED files

Rmdir(dir, n) ==
    /\ phase = "on" /\ DirectoryNode(dir)
    /\ LET i == Lookup(view, NodeOf(dir), n)
           s == RemoveDirectory(Begin(NodeOf(dir)), dir, n)
       IN  /\ i # 0 /\ ~RemovalBusy(i) /\ InodeIn(view, i).kind = "dir"
           /\ IsEmpty(view, InodeIn(view, i))
           /\ Finish(s, dir)
           /\ phase' = AfterNames(s)
    /\ UNCHANGED files

(* VfsLink: another name of a file, which may be open.                     *)
Link(i, dir, n) ==
    /\ phase = "on" /\ DirectoryNode(dir)
    /\ i \in Named(view) /\ NodeOf(i).kind = "file"
    /\ Lookup(view, NodeOf(dir), n) = 0
    /\ \E s \in {LinkTo(Begin(NodeOf(dir)), dir, n, i, NodeOf(i))} :
           /\ view' = s.v /\ maybe' = s.w /\ full' = (full \/ ~s.ok)
           /\ nodes' = [j \in Inode |-> CASE j = dir /\ Held(j) -> s.i
                                          [] j = i /\ Held(j) /\ s.ok -> [nodes[j] EXCEPT !.links = @ + 1]
                                          [] OTHER -> nodes[j]]
           /\ phase' = AfterNames(s)
    /\ UNCHANGED files

(* VfsOpen for writing: of a name that exists, truncated or not, or with   *)
(* the creation of one.                                                    *)
Open(d, dir, n, truncate) ==
    /\ phase = "on" /\ DirectoryNode(dir) /\ files[d] = 0
    /\ LET i == Lookup(view, NodeOf(dir), n)
           s == TruncateToNothing(Begin(NodeOf(i)), i)
       IN  /\ i # 0 /\ NodeOf(i).kind = "file"
           /\ files' = [files EXCEPT ![d] = i]
           /\ IF truncate /\ NodeOf(i).size # 0
              THEN view' = s.v /\ maybe' = s.w /\ nodes' = [nodes EXCEPT ![i] = s.i]
              ELSE UNCHANGED <<view, maybe>> /\ nodes' = [nodes EXCEPT ![i] = NodeOf(i)]
    /\ UNCHANGED <<phase, full>>

OpenNew(d, dir, n) ==
    /\ phase = "on" /\ DirectoryNode(dir) /\ files[d] = 0
    /\ Lookup(view, NodeOf(dir), n) = 0
    /\ \E s \in {CreateFile(Begin(NodeOf(dir)), dir, n)} :
           /\ view' = s.v /\ maybe' = s.w /\ full' = (full \/ ~s.ok)
           /\ nodes' = [i \in Inode |-> CASE i = dir /\ Held(i) -> s.i
                                          [] s.ok /\ i = s.got -> InodeIn(s.v, i)
                                          [] OTHER -> nodes[i]]
           /\ files' = IF s.ok THEN [files EXCEPT ![d] = s.got] ELSE files
    /\ UNCHANGED phase

(* VfsWrite.                                                               *)
Write(d, index, count) ==
    /\ phase = "on" /\ files[d] # 0 /\ index + count <= PerTable + 1
    /\ \E i \in {files[d]} : \E s \in {WriteBlocks(Begin(nodes[i]), i, index, count)} :
           /\ view' = s.v /\ maybe' = s.w /\ full' = (full \/ ~s.ok)
           /\ nodes' = [nodes EXCEPT ![i] = s.i]
    /\ UNCHANGED <<files, phase>>

(* VfsClose: the node goes with its last holder, and the cache is written  *)
(* back.                                                                   *)
CloseQuietly == "on"     \* mutant: nothing is written back
AfterClose == "syncing"
Close(d) ==
    /\ phase = "on" /\ files[d] # 0
    /\ files' = [files EXCEPT ![d] = 0]
    /\ nodes' = [i \in Inode |-> IF i = files[d] /\ \A e \in Descriptor \ {d} : files[e] # i
                                 THEN NoInode ELSE nodes[i]]
    /\ phase' = AfterClose
    /\ UNCHANGED <<view, maybe, full>>

----------------------------------------------------------------------------
(* Ext2VfsMount: a volume left open is read-only, unless it is the one     *)
(* PersistMountDevice marks clean first; one that may be written is marked *)
(* open, on the medium, before the mount returns.                          *)
MarkOpen(s) == Put(s, Super, [s.v[Super] EXCEPT !.valid = FALSE])
MarkClean(s) == Put(s, Super, [s.v[Super] EXCEPT !.valid = TRUE])
Mount ==
    /\ phase = "off"
    /\ IF view[Super].valid \/ PersistAdopts
       THEN LET s == MarkOpen(MarkClean(Begin(NoInode)))
            IN  view' = s.v /\ maybe' = s.w /\ phase' = "mounting"
       ELSE UNCHANGED <<view, maybe>> /\ phase' = "readonly"
    /\ nodes' = [nodes EXCEPT ![Root] = InodeIn(view, Root)]
    /\ UNCHANGED <<files, full>>

AllWritten == [x \in Structure |-> {view[x]}]
(* BufferSync has written every buffer.                                    *)
SyncDone ==
    /\ phase \in {"mounting", "syncing", "releasing"}
    /\ maybe' = AllWritten
    /\ phase' = IF phase = "releasing" THEN "off" ELSE "on"
    /\ UNCHANGED <<view, nodes, files, full>>

(* VfsUnmount, refused while a file is open: the synchronisation, then     *)
(* Ext2VfsUnmount, which marks the volume clean and synchronises again.    *)
NotYetWritten == maybe     \* mutant: the mark is written among the rest
WrittenFirst == AllWritten
Unmount ==
    /\ phase = "on" /\ \A d \in Descriptor : files[d] = 0
    /\ LET s == MarkClean([Begin(NoInode) EXCEPT !.w = WrittenFirst])
       IN  view' = s.v /\ maybe' = s.w
    /\ nodes' = [nodes EXCEPT ![Root] = NoInode]
    /\ phase' = "releasing"
    /\ UNCHANGED <<files, full>>

UnmountReadOnly ==
    /\ phase = "readonly"
    /\ nodes' = [nodes EXCEPT ![Root] = NoInode]
    /\ phase' = "off"
    /\ UNCHANGED <<view, maybe, files, full>>

(* The machine stops, and each buffer's place on the medium is found to    *)
(* hold one of its versions.  Of a volume that will be read-only ever      *)
(* after, nothing but the missing mark is remembered.                      *)
Unsettled == {x \in Structure : Cardinality(maybe[x]) > 1}
LeftOpen == [Made EXCEPT ![Super].valid = FALSE]
Stop ==
    /\ phase \notin {"off", "stopped"}
    /\ \E s \in maybe[Super] :
          IF s.valid \/ PersistAdopts
          THEN /\ view' = [view EXCEPT ![Super] = s]
               /\ maybe' = [maybe EXCEPT ![Super] = {s}]
          ELSE /\ view' = LeftOpen
               /\ maybe' = [x \in Structure |-> {LeftOpen[x]}]
    /\ nodes' = [i \in Inode |-> NoInode]
    /\ files' = [d \in Descriptor |-> 0]
    /\ phase' = "stopped"
    /\ UNCHANGED full

Settle ==
    /\ phase = "stopped"
    /\ IF Unsettled = {}
       THEN phase' = "off" /\ UNCHANGED <<view, maybe>>
       ELSE LET x == CHOOSE x \in Unsettled : TRUE
            IN  /\ \E version \in maybe[x] :
                      view' = [view EXCEPT ![x] = version] /\ maybe' = [maybe EXCEPT ![x] = {version}]
                /\ UNCHANGED phase
    /\ UNCHANGED <<nodes, files, full>>

VolumeNext ==
    \/ \E dir \in Inode, n \in Name :
          \/ Mkdir(dir, n) \/ Rmdir(dir, n) \/ Unlink(dir, n)
          \/ \E i \in Inode : Link(i, dir, n)
          \/ \E d \in Descriptor : OpenNew(d, dir, n)
          \/ \E d \in Descriptor, truncate \in BOOLEAN : Open(d, dir, n, truncate)
    \/ \E d \in Descriptor, index \in 0 .. PerTable, count \in 1 .. 2 : Write(d, index, count)
    \/ \E d \in Descriptor : Close(d)
    \/ Mount \/ SyncDone \/ Unmount \/ UnmountReadOnly
    \/ Stop \/ Settle

VolumeSpec == VolumeInit /\ [][VolumeNext]_volumeVars

----------------------------------------------------------------------------
(* What each buffer may hold.                                              *)
InodeRecord ==
    [kind : {"none", "file", "dir"}, links : Int, size : 0 .. PerTable + 1,
     direct : 0 .. DiskBlocks, table : 0 .. DiskBlocks]
Content ==
    {Zeroed} \cup {Data(i) : i \in Inode}
        \cup {Names(names) : names \in [Name -> 0 .. Inodes]}
        \cup {Pointers(to) : to \in [0 .. PerTable - 1 -> 0 .. DiskBlocks]}
Beside(i) == {j \in Inode : Table(j) = Table(i)}
MayHold(x, z) ==
    /\ x = Super => z \in [valid : BOOLEAN, freeBlocks : Int, freeInodes : Int]
    /\ x = Group => z \in [freeBlocks : Int, freeInodes : Int, directories : Int]
    /\ x = BlockMap => z \in SUBSET DiskBlock
    /\ x = InodeMap => z \in SUBSET Inode
    /\ \A i \in Inode : x = Table(i) => z \in [Beside(i) -> InodeRecord]
    /\ \A b \in DiskBlock : x = Area(b) => z \in Content

(* The type invariant: every version of every buffer, the one the calls of  *)
(* ext2.c read and those the medium may have, is one the buffer may hold.  *)
VolumeTypeOK ==
    /\ DOMAIN view = Structure /\ DOMAIN maybe = Structure
    /\ \A x \in Structure : view[x] \in maybe[x] /\ \A z \in maybe[x] : MayHold(x, z)
    /\ nodes \in [Inode -> InodeRecord]
    /\ files \in [Descriptor -> 0 .. Inodes]
    /\ phase \in {"off", "mounting", "on", "readonly", "syncing", "releasing", "stopped"}
    /\ full \in BOOLEAN

(* What an inode's pointers reach, its table included, as pairs of the     *)
(* pointer's place and the block.                                          *)
Reach(v, i) ==
    LET inode == InodeIn(v, i)
        all == {<<0, inode.direct>>, <<1, inode.table>>}
                 \cup (IF inode.table = 0 THEN {}
                       ELSE {<<2 + e, TableOf(v, inode.table)[e]>> : e \in 0 .. PerTable - 1})
    IN  {p \in all : p[2] # 0}
InUse(v) == {Root} \cup Named(v)
NamesOf(v) == {<<dir, n, Lookup(v, InodeIn(v, dir), n)>> : dir \in Directories(v), n \in Name}

NamesLeadToFiles(v) ==
    \A i \in Named(v) : i \in v[InodeMap] /\ InodeIn(v, i).links > 0
LinksAreNames(v) ==
    LET names == NamesOf(v)
    IN  \A i \in InUse(v) :
            InodeIn(v, i).links =
                IF i \in Directories(v)
                THEN 2 + Cardinality({e \in names : e[1] = i /\ e[3] \in Directories(v)})
                ELSE Cardinality({e \in names : e[3] = i})
BlocksAreUsed(v) == \A i \in InUse(v) : \A p \in Reach(v, i) : p[2] \in v[BlockMap]
BlocksAreOwnedOnce(v) ==
    LET pointers == UNION {{<<i, p[1], p[2]>> : p \in Reach(v, i)} : i \in InUse(v)}
    IN  \A p, q \in pointers : p[3] = q[3] => p = q
CountsAreRight(v) ==
    /\ v[Super].freeBlocks = DiskBlocks - Cardinality(v[BlockMap])
    /\ v[Super].freeInodes = Inodes - Cardinality(v[InodeMap])
    /\ v[Group].freeBlocks = v[Super].freeBlocks /\ v[Group].freeInodes = v[Super].freeInodes
Sound(v) ==
    /\ NamesLeadToFiles(v) /\ LinksAreNames(v)
    /\ BlocksAreUsed(v) /\ BlocksAreOwnedOnce(v) /\ CountsAreRight(v)

(* The inodes as the nodes in memory have them.                            *)
InMemory == [x \in Structure |->
    IF x[1] = "inodes" THEN [i \in DOMAIN view[x] |-> NodeOf(i)] ELSE view[x]]

(* Whatever calls went before, also ones that failed for want of room and  *)
(* left a table in memory alone: every name leads to a file that exists    *)
(* and is counted, every block reached is marked used and is reached once, *)
(* by the nodes in memory as by the inodes of the volume, and the counts   *)
(* are those of the bitmaps.  And nothing more is marked used than can be  *)
(* reached: blocks and inodes are lost only to a volume that ran full.     *)
MountedIsSound ==
    /\ phase \in {"mounting", "on", "syncing"} => Sound(view) /\ Sound(InMemory)
    /\ phase = "on" /\ ~full =>
          /\ view[InodeMap] = InUse(view)
          /\ view[BlockMap] = UNION {{p[2] : p \in Reach(view, i)} : i \in InUse(view)}
          /\ view[Group].directories = Cardinality({i \in InUse(view) : InodeIn(view, i).kind = "dir"})

(* A medium that bears the mark of a clean unmount is sound: whenever the  *)
(* machine stops, a volume left in the middle of something will be mounted *)
(* read-only.  (PersistAdopts FALSE.)                                      *)
CleanMeansSound ==
    (\E s \in maybe[Super] : s.valid) =>
        /\ Sound(view)
        /\ \A x \in Structure \ {Super} : maybe[x] = {view[x]}

(* With every file closed, and no call refused, a machine that stops loses *)
(* nothing (VfsMountIsDurable).                                            *)
ClosedIsDurable ==
    phase = "on" /\ ~full /\ (\A d \in Descriptor : files[d] = 0) =>
        \A x \in Structure : maybe[x] = {view[x]}
=============================================================================
