---------------------------- MODULE LklFs_proof -----------------------------
(***************************************************************************)
(* Proofs about LklFs, for any set of threads and of disks: the device     *)
(* file acts as a lock, and the mount point as a second one.               *)
(***************************************************************************)
EXTENDS LklFs, FiniteSetTheorems, TLAPS

\* t has made the device file of its disk, or removes one after an umount.
HasNode(t) ==
    pc[t] \in {"access", "mkmnt", "mkdir", "mount", "unlink", "unlinkdir"}

\* t has made the mount point of its disk, or removes one after an umount.
HasDir(t) == pc[t] \in {"mount", "unlinkdir", "rmdir"}

NodeInv ==
    /\ \A t \in Threads : HasNode(t) => arg[t] \in node /\ arg[t] \notin mounted
    /\ \A t, u \in Threads :
          HasNode(t) /\ HasNode(u) /\ arg[t] = arg[u] => t = u

DirInv ==
    /\ \A t \in Threads : HasDir(t) => arg[t] \in dir /\ arg[t] \notin mounted
    /\ \A t, u \in Threads :
          HasDir(t) /\ HasDir(u) /\ arg[t] = arg[u] => t = u

MountedInv == mounted \subseteq node \cap dir

IInv == TypeOK /\ NodeInv /\ DirInv /\ MountedInv

USE DEF HasNode, HasDir

\* The types, and the fault bound of LklFs's guards.
LEMMA TypeStep == TypeOK /\ [Next]_vars => TypeOK'
<1> SUFFICES ASSUME TypeOK, [Next]_vars PROVE TypeOK'
  OBVIOUS
<1> USE FsAssumption DEF TypeOK, files
<1>1. ASSUME NEW d \in Disks, _lkl_disk_add_disk(d) \/ _lkl_disk_del_disk(d)
      PROVE TypeOK'
  BY <1>1 DEF _lkl_disk_add_disk, _lkl_disk_del_disk
<1>2. ASSUME NEW t \in Threads, NEW d \in Disks,
             lkl_mount_dev(t, d) \/ lkl_umount_dev(t, d)
      PROVE TypeOK'
  BY <1>2 DEF lkl_mount_dev, lkl_umount_dev, Goto, Attempts
<1>3. ASSUME NEW t \in Threads, Mknod(t) \/ Access(t) PROVE TypeOK'
  BY <1>3 DEF Mknod, Access, Goto, Fault, Leave
<1>4. ASSUME NEW t \in Threads, MkMnt(t) PROVE TypeOK'
  <2>1. mnt' \in BOOLEAN
    BY <1>4, Zenon DEF MkMnt
  <2>2. /\ pc[t] = "mkmnt"
        /\ \/ Goto(t, "mkdir") /\ UNCHANGED <<faults, left>>
           \/ Goto(t, "out") /\ Leave(t) /\ (UNCHANGED faults \/ Fault)
        /\ UNCHANGED <<disk, node, dir, mounted, arg, tries>>
    BY <1>4, Zenon DEF MkMnt
  <2> QED
    BY <2>1, <2>2 DEF Goto, Fault, Leave
<1>5. ASSUME NEW t \in Threads, Mkdir(t) \/ Unlink(t) \/ Rmdir(t) \/ Umount(t)
      PROVE TypeOK'
  BY <1>5 DEF Mkdir, MkdirFailed, Unlink, Rmdir, Umount, Goto, Fault, Leave
<1>6. ASSUME NEW t \in Threads, Mount(t) PROVE TypeOK'
  BY <1>6 DEF Mount, NextName, Goto, Leave
<1>7. CASE UNCHANGED vars
  BY <1>7 DEF vars
<1> QED
  BY <1>1, <1>2, <1>3, <1>4, <1>5, <1>6, <1>7 DEF Next

\* Every system call keeps the two locks and what they protect.
LEMMA LocksStep ==
    IInv /\ [Next]_vars => NodeInv' /\ DirInv' /\ MountedInv'
<1> SUFFICES ASSUME IInv, [Next]_vars PROVE NodeInv' /\ DirInv' /\ MountedInv'
  OBVIOUS
<1> USE DEF IInv, TypeOK, NodeInv, DirInv, MountedInv, files
<1>1. ASSUME NEW d \in Disks, _lkl_disk_add_disk(d) \/ _lkl_disk_del_disk(d)
      PROVE NodeInv' /\ DirInv' /\ MountedInv'
  BY <1>1 DEF _lkl_disk_add_disk, _lkl_disk_del_disk
<1>2. ASSUME NEW t \in Threads, NEW d \in Disks,
             lkl_mount_dev(t, d) \/ lkl_umount_dev(t, d)
      PROVE NodeInv' /\ DirInv' /\ MountedInv'
  BY <1>2 DEF lkl_mount_dev, lkl_umount_dev, Goto
<1>3. ASSUME NEW t \in Threads, Mknod(t)
      PROVE NodeInv' /\ DirInv' /\ MountedInv'
  BY <1>3 DEF Mknod, NodeExists, Goto
<1>4. ASSUME NEW t \in Threads, Access(t) \/ MkMnt(t)
      PROVE NodeInv' /\ DirInv' /\ MountedInv'
  BY <1>4 DEF Access, MkMnt, Goto
<1>5. ASSUME NEW t \in Threads, Mkdir(t)
      PROVE NodeInv' /\ DirInv' /\ MountedInv'
  BY <1>5 DEF Mkdir, MkdirFailed, Goto
<1>6. ASSUME NEW t \in Threads, Mount(t)
      PROVE NodeInv' /\ DirInv' /\ MountedInv'
  BY <1>6 DEF Mount, Goto
<1>7. ASSUME NEW t \in Threads, Unlink(t)
      PROVE NodeInv' /\ DirInv' /\ MountedInv'
  BY <1>7 DEF Unlink, Goto
<1>8. ASSUME NEW t \in Threads, Rmdir(t)
      PROVE NodeInv' /\ DirInv' /\ MountedInv'
  BY <1>8 DEF Rmdir, Goto
<1>9. ASSUME NEW t \in Threads, Umount(t)
      PROVE NodeInv' /\ DirInv' /\ MountedInv'
  BY <1>9 DEF Umount, Goto
<1>10. CASE UNCHANGED vars
  BY <1>10 DEF vars
<1> QED
  BY <1>1, <1>2, <1>3, <1>4, <1>5, <1>6, <1>7, <1>8, <1>9, <1>10 DEF Next

\* A set whose elements are all equal has at most one.
LEMMA AtMostOne ==
    ASSUME NEW S, \A x, y \in S : x = y
    PROVE  Cardinality(S) <= 1
<1>1. CASE S = {}
  BY <1>1, FS_EmptySet
<1>2. CASE S # {}
  <2>1. PICK x \in S : S = {x}
    BY <1>2
  <2> QED
    BY <2>1, FS_Singleton
<1> QED
  BY <1>1, <1>2

\* The two locks give the property of the runs.
LEMMA Excludes == IInv => MountExclusive
<1> SUFFICES ASSUME IInv, NEW d \in Disks
             PROVE /\ d \in mounted => d \in node /\ d \in dir /\ Owners(d) = {}
                   /\ Cardinality({t \in Owners(d) : pc[t] # "rmdir"}) <= 1
  BY DEF MountExclusive
<1>1. \A t \in Owners(d) : HasNode(t) \/ pc[t] = "rmdir"
  BY DEF Owners, IInv, TypeOK
<1>2. d \in mounted => d \in node /\ d \in dir /\ Owners(d) = {}
  BY <1>1 DEF Owners, IInv, NodeInv, DirInv, MountedInv
<1>3. \A t, u \in {x \in Owners(d) : pc[x] # "rmdir"} : t = u
  BY <1>1 DEF Owners, IInv, NodeInv
<1>4. Cardinality({t \in Owners(d) : pc[t] # "rmdir"}) <= 1
  BY <1>3, AtMostOne
<1> QED
  BY <1>2, <1>4

\* The inductive invariant holds in every behaviour.
LEMMA Invariance == Spec => []IInv
<1>1. Init => IInv
  <2> SUFFICES ASSUME Init PROVE IInv
    OBVIOUS
  <2>1. PICK d \in Disks : arg = [t \in Threads |-> d]
    BY DEF Init
  <2>2. mnt \in BOOLEAN
    BY Zenon DEF Init
  <2>3. TypeOK
    BY <2>1, <2>2, FsAssumption DEF Init, TypeOK
  <2>4. NodeInv /\ DirInv /\ MountedInv
    BY DEF Init, NodeInv, DirInv, MountedInv
  <2> QED
    BY <2>3, <2>4 DEF IInv
<1>2. IInv /\ [Next]_vars => IInv'
  BY TypeStep, LocksStep DEF IInv
<1> QED
  BY <1>1, <1>2, PTL DEF Spec

(* The steps of lkl_mount_dev and lkl_umount_dev keep their place and the  *)
(* faults their bound: the names lkl_mount tries never run out below 0.    *)
THEOREM TypeCorrect == Spec => []TypeOK
<1>1. IInv => TypeOK
  BY DEF IInv
<1> QED
  BY <1>1, Invariance, PTL

(* However many threads mount and unmount however many disks: a mounted    *)
(* disk keeps its files, and lkl_mount_dev and lkl_umount_dev never work   *)
(* on the files of one disk at the same time.                              *)
THEOREM MountIsExclusive == Spec => []MountExclusive
BY Invariance, Excludes, PTL

-----------------------------------------------------------------------------
(* What is left behind. *)

\* Without a failure that leaves it behind, a file belongs to a mounted disk or
\* to a thread that will give it away or remove it.
NodeOwned ==
    \A d \in node : \/ d \in mounted \/ d \in left
                    \/ \E t \in Threads : HasNode(t) /\ arg[t] = d

DirOwned ==
    \A d \in dir : \/ d \in mounted \/ d \in left
                   \/ \E t \in Threads : HasDir(t) /\ arg[t] = d

\* The device file: from mknod to unlink it has an owner.
LEMMA NodeOwnedStep == IInv /\ NodeOwned /\ [Next]_vars => NodeOwned'
<1> SUFFICES ASSUME IInv, NodeOwned, [Next]_vars PROVE NodeOwned'
  OBVIOUS
<1> USE DEF IInv, TypeOK, NodeOwned, files
<1>1. ASSUME NEW d \in Disks, _lkl_disk_add_disk(d) \/ _lkl_disk_del_disk(d)
      PROVE NodeOwned'
  BY <1>1 DEF _lkl_disk_add_disk, _lkl_disk_del_disk
<1>2. ASSUME NEW t \in Threads, NEW d \in Disks,
             lkl_mount_dev(t, d) \/ lkl_umount_dev(t, d)
      PROVE NodeOwned'
  BY <1>2 DEF lkl_mount_dev, lkl_umount_dev, Goto
<1>3. ASSUME NEW t \in Threads, Mknod(t) PROVE NodeOwned'
  BY <1>3 DEF Mknod, NodeExists, Goto
<1>4. ASSUME NEW t \in Threads, Access(t) \/ MkMnt(t) PROVE NodeOwned'
  BY <1>4 DEF Access, MkMnt, Goto, Leave
<1>5. ASSUME NEW t \in Threads, Mkdir(t) PROVE NodeOwned'
  BY <1>5 DEF Mkdir, MkdirFailed, Goto
<1>6. ASSUME NEW t \in Threads, Mount(t) PROVE NodeOwned'
  BY <1>6 DEF Mount, Goto, Leave
<1>7. ASSUME NEW t \in Threads, Unlink(t) PROVE NodeOwned'
  BY <1>7 DEF Unlink, Goto, Leave
<1>8. ASSUME NEW t \in Threads, Rmdir(t) PROVE NodeOwned'
  BY <1>8 DEF Rmdir, Goto, Leave
<1>9. ASSUME NEW t \in Threads, Umount(t) PROVE NodeOwned'
  BY <1>9 DEF Umount, Goto
<1>10. CASE UNCHANGED vars
  BY <1>10 DEF vars
<1> QED
  BY <1>1, <1>2, <1>3, <1>4, <1>5, <1>6, <1>7, <1>8, <1>9, <1>10 DEF Next

\* The mount point: from mkdir to rmdir it has an owner.
LEMMA DirOwnedStep == IInv /\ DirOwned /\ [Next]_vars => DirOwned'
<1> SUFFICES ASSUME IInv, DirOwned, [Next]_vars PROVE DirOwned'
  OBVIOUS
<1> USE DEF IInv, TypeOK, DirOwned, files
<1>1. ASSUME NEW d \in Disks, _lkl_disk_add_disk(d) \/ _lkl_disk_del_disk(d)
      PROVE DirOwned'
  BY <1>1 DEF _lkl_disk_add_disk, _lkl_disk_del_disk
<1>2. ASSUME NEW t \in Threads, NEW d \in Disks,
             lkl_mount_dev(t, d) \/ lkl_umount_dev(t, d)
      PROVE DirOwned'
  BY <1>2 DEF lkl_mount_dev, lkl_umount_dev, Goto
<1>3. ASSUME NEW t \in Threads, Mknod(t) PROVE DirOwned'
  BY <1>3 DEF Mknod, NodeExists, Goto
<1>4. ASSUME NEW t \in Threads, Access(t) \/ MkMnt(t) PROVE DirOwned'
  BY <1>4 DEF Access, MkMnt, Goto, Leave
<1>5. ASSUME NEW t \in Threads, Mkdir(t) PROVE DirOwned'
  BY <1>5 DEF Mkdir, MkdirFailed, Goto
<1>6. ASSUME NEW t \in Threads, Mount(t) PROVE DirOwned'
  BY <1>6 DEF Mount, Goto, Leave
<1>7. ASSUME NEW t \in Threads, Unlink(t) PROVE DirOwned'
  BY <1>7 DEF Unlink, Goto, Leave
<1>8. ASSUME NEW t \in Threads, Rmdir(t) PROVE DirOwned'
  BY <1>8 DEF Rmdir, Goto, Leave, DirInv
<1>9. ASSUME NEW t \in Threads, Umount(t) PROVE DirOwned'
  BY <1>9 DEF Umount, Goto
<1>10. CASE UNCHANGED vars
  BY <1>10 DEF vars
<1> QED
  BY <1>1, <1>2, <1>3, <1>4, <1>5, <1>6, <1>7, <1>8, <1>9, <1>10 DEF Next

(* Whatever fails, and whoever else mounts and unmounts: when nobody works *)
(* on a disk its files are there exactly if it is mounted, but for the     *)
(* exceptions NothingLeft names.                                           *)
THEOREM FailureCleansUp == Spec => []NothingLeft
<1>1. Init => NodeOwned /\ DirOwned
  BY DEF Init, NodeOwned, DirOwned
<1>2. IInv /\ NodeOwned /\ DirOwned => NothingLeft
  BY DEF IInv, TypeOK, MountedInv, NodeOwned, DirOwned, NothingLeft
<1> QED
  BY <1>1, <1>2, NodeOwnedStep, DirOwnedStep, Invariance, PTL DEF Spec
=============================================================================
