----------------------------- MODULE MCStorage -----------------------------
(* What the kernel keeps, in one run: the buffer cache (three blocks of    *)
(* two devices in two buffers), a volume (three inodes, four blocks), and  *)
(* the kernel's own memory (five pages, three frames, two size classes).   *)
(* They share no state, so a behaviour is one of the three, as `part`      *)
(* says, and the others stand still.                                       *)
EXTENDS BufferCache, Volume, Arena

VARIABLE part

ThreeBlocks == {<<"d1", 0>>, <<"d1", 1>>, <<"d2", 0>>}
TwoClasses == [small |-> 2, big |-> 1]

StorageInit ==
    /\ part \in {"cache", "volume", "arena"}
    /\ CacheInit /\ VolumeInit /\ ArenaInit
    /\ part # "cache" => medium = [b \in Block |-> 1]
StorageNext ==
    \/ part = "cache" /\ CacheNext /\ UNCHANGED <<part, volumeVars, arenaVars>>
    \/ part = "volume" /\ VolumeNext /\ UNCHANGED <<part, cacheVars, arenaVars>>
    \/ part = "arena" /\ ArenaNext /\ UNCHANGED <<part, cacheVars, volumeVars>>
StorageSpec ==
    StorageInit /\ [][StorageNext]_<<part, cacheVars, volumeVars, arenaVars>>
=============================================================================
