------------------------------- MODULE LklFs --------------------------------
(***************************************************************************)
(* arch/lkl/envs/lib/fs.c over arch/lkl/drivers/disk.c: host threads       *)
(* attach disks and mount and unmount them.  lkl_mount_dev and             *)
(* lkl_umount_dev are sequences of system calls with no lock around them:  *)
(* one step here is one system call, and other threads come in between.    *)
(* The names /dev/<devt> and /mnt/<devt> depend on the disk only.          *)
(***************************************************************************)
EXTENDS Integers, FiniteSets

CONSTANTS Threads,    \* host threads
          Disks,      \* device numbers; drivers/disk.c never uses one twice
          FsNames,    \* how many block file systems get_fs_names may find
          MaxFaults   \* bound: system calls that fail for want of something

ASSUME FsAssumption == FsNames \in SUBSET Nat /\ MaxFaults \in Nat

VARIABLES
    disk,      \* [Disks -> {"none", "added", "deleted"}]
    node,      \* disks with a device file
    mnt,       \* BOOLEAN: /mnt exists
    dir,       \* disks with a mount point
    mounted,   \* disks that are mounted on it
    pc,        \* [Threads -> the system call it makes next, or "out"]
    arg,       \* [Threads -> Disks]: the disk of the call it is in
    tries,     \* [Threads -> Nat]: file systems lkl_mount has still to try
    faults,    \* failed system calls so far
    left       \* history: disks for which a failure has left a file behind

files == <<node, mnt, dir, mounted>>
vars == <<disk, files, pc, arg, tries, faults, left>>

TypeOK ==
    /\ disk \in [Disks -> {"none", "added", "deleted"}]
    /\ node \subseteq Disks /\ dir \subseteq Disks /\ mounted \subseteq Disks
    /\ mnt \in BOOLEAN
    /\ pc \in [Threads -> {"out", "mknod", "access", "mkmnt", "mkdir", "mount",
                           "unlink", "unlinkdir", "rmdir", "umount"}]
    /\ arg \in [Threads -> Disks]
    /\ tries \in [Threads -> Nat]
    /\ faults \in 0 .. MaxFaults /\ left \subseteq Disks

Init ==
    /\ disk = [d \in Disks |-> "none"]
    /\ node = {} /\ mnt = FALSE /\ dir = {} /\ mounted = {}
    /\ pc = [t \in Threads |-> "out"] /\ arg \in {[t \in Threads |-> d] : d \in Disks}
    /\ tries = [t \in Threads |-> 0] /\ faults = 0 /\ left = {}

Goto(t, l) == pc' = [pc EXCEPT ![t] = l]
Fault == faults < MaxFaults /\ faults' = faults + 1
Leave(t) == left' = left \cup {arg[t]}

-----------------------------------------------------------------------------
(* drivers/disk.c, each one system call. *)

_lkl_disk_add_disk(d) ==
    /\ disk[d] = "none"
    /\ disk' = [disk EXCEPT ![d] = "added"]
    /\ UNCHANGED <<files, pc, arg, tries, faults, left>>

\* Nothing asks whether the disk is mounted.
_lkl_disk_del_disk(d) ==
    /\ disk[d] = "added"
    /\ disk' = [disk EXCEPT ![d] = "deleted"]
    /\ UNCHANGED <<files, pc, arg, tries, faults, left>>

-----------------------------------------------------------------------------
(* lkl_mount_dev and lkl_umount_dev. *)

\* With a file system type there is one attempt to mount; without it lkl_mount
\* makes one for each of get_fs_names.
Attempts == {1} \cup FsNames

lkl_mount_dev(t, d) ==
    /\ pc[t] = "out"
    /\ Goto(t, "mknod")
    /\ arg' = [arg EXCEPT ![t] = d]
    /\ \E n \in Attempts : tries' = [tries EXCEPT ![t] = n]
    /\ UNCHANGED <<disk, files, faults, left>>

lkl_umount_dev(t, d) ==
    /\ pc[t] = "out"
    /\ Goto(t, "umount")
    /\ arg' = [arg EXCEPT ![t] = d]
    /\ tries' = [tries EXCEPT ![t] = 0]
    /\ UNCHANGED <<disk, files, faults, left>>

\* Mutant: a device file that exists already will do.
NodeIgnored(t) == FALSE

\* mknod answers -EEXIST
NodeExists(t) == arg[t] \in node

\* lkl_sys_mknod(dev_str, S_IFBLK|0600, devt)
Mknod(t) ==
    /\ pc[t] = "mknod"
    /\ \/ /\ ~NodeExists(t)
          /\ node' = node \cup {arg[t]}
          /\ Goto(t, "access")
          /\ UNCHANGED faults
       \/ /\ NodeExists(t)
          /\ Goto(t, "out")
          /\ UNCHANGED <<node, faults>>
       \/ Fault /\ Goto(t, "out") /\ UNCHANGED node
    /\ UNCHANGED <<disk, mnt, dir, mounted, arg, tries, left>>

\* lkl_sys_access("/mnt", S_IRWXO): any error but -ENOENT ends the call.
Access(t) ==
    /\ pc[t] = "access"
    /\ \/ Goto(t, IF mnt THEN "mkdir" ELSE "mkmnt") /\ UNCHANGED <<faults, left>>
       \/ Fault /\ Goto(t, "out") /\ Leave(t)
    /\ UNCHANGED <<disk, files, arg, tries>>

\* lkl_sys_mkdir("/mnt", 0700): another thread may have made it meanwhile.
MkMnt(t) ==
    /\ pc[t] = "mkmnt"
    /\ \/ /\ ~mnt /\ mnt' = TRUE
          /\ Goto(t, "mkdir")
          /\ UNCHANGED <<faults, left>>
       \/ mnt /\ Goto(t, "out") /\ Leave(t) /\ UNCHANGED <<mnt, faults>>
       \/ Fault /\ Goto(t, "out") /\ Leave(t) /\ UNCHANGED mnt
    /\ UNCHANGED <<disk, node, dir, mounted, arg, tries>>

\* Mutant: the device file is not removed.
MkdirReturns == "out"

\* On an error of mkdir the device file is removed.
MkdirFailed == "unlink"

\* lkl_sys_mkdir(mnt_str, 0700)
Mkdir(t) ==
    /\ pc[t] = "mkdir"
    /\ \/ /\ arg[t] \notin dir
          /\ dir' = dir \cup {arg[t]}
          /\ Goto(t, "mount")
          /\ UNCHANGED faults
       \/ /\ arg[t] \in dir
          /\ Goto(t, MkdirFailed)
          /\ UNCHANGED <<dir, faults>>
       \/ Fault /\ Goto(t, MkdirFailed) /\ UNCHANGED dir
    /\ UNCHANGED <<disk, node, mnt, mounted, arg, tries, left>>

\* Mutant: p is advanced past the end of the list.
NamePastEnd(t) == tries' = [tries EXCEPT ![t] = @ - 2]

\* p += strlen(p)+1
NextName(t) == tries' = [tries EXCEPT ![t] = @ - 1]

\* One lkl_sys_mount.  It fails without a disk, or for any other reason; after
\* the last attempt both files are removed.  With none to make (lkl_mount
\* returns 1) the call succeeds with nothing mounted.
Mount(t) ==
    /\ pc[t] = "mount"
    /\ \/ /\ tries[t] = 0
          /\ Goto(t, "out") /\ Leave(t)
          /\ UNCHANGED <<mounted, tries>>
       \/ /\ tries[t] > 0 /\ disk[arg[t]] = "added"
          /\ mounted' = mounted \cup {arg[t]}
          /\ Goto(t, "out")
          /\ UNCHANGED <<tries, left>>
       \/ /\ tries[t] > 0
          /\ NextName(t)
          /\ Goto(t, IF tries[t] = 1 THEN "unlinkdir" ELSE "mount")
          /\ UNCHANGED <<mounted, left>>
    /\ UNCHANGED <<disk, node, mnt, dir, arg, faults>>

\* lkl_sys_unlink(dev_str), its result ignored
Unlink(t) ==
    /\ pc[t] \in {"unlink", "unlinkdir"}
    /\ Goto(t, IF pc[t] = "unlink" THEN "out" ELSE "rmdir")
    /\ \/ node' = node \ {arg[t]} /\ UNCHANGED <<faults, left>>
       \/ Fault /\ Leave(t) /\ UNCHANGED node
    /\ UNCHANGED <<disk, mnt, dir, mounted, arg, tries>>

\* lkl_sys_rmdir(mnt_str), its result ignored; a mount point is busy.
Rmdir(t) ==
    /\ pc[t] = "rmdir"
    /\ Goto(t, "out")
    /\ \/ dir' = dir \ ({arg[t]} \ mounted) /\ UNCHANGED <<faults, left>>
       \/ Fault /\ Leave(t) /\ UNCHANGED dir
    /\ UNCHANGED <<disk, node, mnt, mounted, arg, tries>>

\* lkl_sys_umount(mnt_str, flags)
Umount(t) ==
    /\ pc[t] = "umount"
    /\ \/ /\ arg[t] \in mounted
          /\ mounted' = mounted \ {arg[t]}
          /\ Goto(t, "unlinkdir")
          /\ UNCHANGED faults
       \/ arg[t] \notin mounted /\ Goto(t, "out") /\ UNCHANGED <<mounted, faults>>
       \/ Fault /\ Goto(t, "out") /\ UNCHANGED mounted
    /\ UNCHANGED <<disk, node, mnt, dir, arg, tries, left>>

Next ==
    \/ \E d \in Disks : _lkl_disk_add_disk(d) \/ _lkl_disk_del_disk(d)
    \/ \E t \in Threads :
          \/ \E d \in Disks : lkl_mount_dev(t, d) \/ lkl_umount_dev(t, d)
          \/ Mknod(t) \/ Access(t) \/ MkMnt(t) \/ Mkdir(t) \/ Mount(t)
          \/ Unlink(t) \/ Rmdir(t) \/ Umount(t)

Spec == Init /\ [][Next]_vars

-----------------------------------------------------------------------------
(* Properties. *)

\* Threads that have made files for d and not yet given them away, or that
\* are removing those of an umount.
Owners(d) ==
    {t \in Threads : arg[t] = d /\ pc[t] \notin {"out", "mknod", "umount"}}

(* However mounts and unmounts of one disk interleave: a mounted disk has  *)
(* its device file and its mount point, nobody is about to remove them,    *)
(* and two threads meet in one disk's files only while the first has just  *)
(* the mount point left to remove.  mknod is the lock.                     *)
MountExclusive ==
    \A d \in Disks :
        /\ d \in mounted => d \in node /\ d \in dir /\ Owners(d) = {}
        /\ Cardinality({t \in Owners(d) : pc[t] # "rmdir"}) <= 1

(* When no call on a disk is under way its files are there if and only if  *)
(* it is mounted: a call that fails half-way, or that finds the files of   *)
(* another, takes back what it has made.  The exceptions are removals that *)
(* fail, the error path of /mnt, which keeps the device file, and a mount  *)
(* without a type when no block file system is registered.                 *)
NothingLeft ==
    \A d \in Disks \ left :
        (\A t \in Threads : arg[t] = d => pc[t] = "out") =>
            (d \in node <=> d \in mounted) /\ (d \in dir <=> d \in mounted)
=============================================================================
