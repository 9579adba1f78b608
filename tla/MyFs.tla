-------------------------------- MODULE MyFs --------------------------------
(***************************************************************************)
(* The file system of lab 7 (slab.c): myfs_init() registers it and makes a *)
(* slab cache, each mount takes one object of the cache for its root       *)
(* inode, and the inode gives it back when it is dropped.  Mounts may come *)
(* as soon as the file system is registered; a reference of each mount     *)
(* keeps the module loaded.  Any allocation may fail.                      *)
(***************************************************************************)
EXTENDS FiniteSets

CONSTANT Mounts  \* mount points

VARIABLES
  state,       \* the next statement of myfs_init() or myfs_exit(), or "oops"
  registered,  \* is myfs in the kernel's list of file systems?
  cache,       \* "null", "live" or "destroyed"
  mount,       \* mount point -> where its mount() or umount() is
  refs,        \* mount points that hold a reference on the module
  objects      \* mount points whose inode has an object of the cache

moduleVars == <<state, registered, cache>>
myfsVars == <<moduleVars, mount, refs, objects>>

MyFsInit ==
  /\ state = "absent" /\ registered = FALSE /\ cache = "null"
  /\ mount = [m \in Mounts |-> "none"]
  /\ refs = {} /\ objects = {}

Dies == state' = "oops" /\ UNCHANGED <<registered, cache, mount, refs, objects>>

(***************************************************************************)
(* myfs_init() and myfs_exit().                                            *)
(***************************************************************************)
\* insmod; myfs_init() returns the error of register_filesystem().
RegisterFilesystem ==
  /\ state = "absent"
  /\ state' = "kmem_cache_create" /\ registered' = TRUE /\ cache' = "null"
  /\ UNCHANGED <<mount, refs, objects>>

\* The result is not tested.
KmemCacheCreate ==
  /\ state = "kmem_cache_create"
  /\ state' = "live" /\ cache' \in {"live", "null"}
  /\ UNCHANGED <<registered, mount, refs, objects>>

\* rmmod of a module nobody refers to
RmmodMyFs ==
  /\ state = "live" /\ refs = {}
  /\ state' = "unregister_filesystem"
  /\ UNCHANGED <<registered, cache, mount, refs, objects>>

UnregisterFilesystem ==
  /\ state = "unregister_filesystem"
  /\ state' = "kmem_cache_destroy" /\ registered' = FALSE
  /\ UNCHANGED <<cache, mount, refs, objects>>

\* NULL is no cache to destroy.
KmemCacheDestroy ==
  /\ state = "kmem_cache_destroy"
  /\ state' = "absent"
  /\ cache' = IF cache = "live" THEN "destroyed" ELSE cache
  /\ UNCHANGED <<registered, mount, refs, objects>>

(***************************************************************************)
(* myfs_mount() and umount.                                                *)
(***************************************************************************)
Move(m, from, to) == mount[m] = from /\ mount' = [mount EXCEPT ![m] = to]

\* .owner = THIS_MODULE: the kernel takes a reference, which it does not get
\* on a module that is being unloaded.
Owner_none(m) == refs
Owner(m) == refs \cup {m}

Mount(m) ==
  /\ registered /\ state \in {"kmem_cache_create", "live"}
  /\ Move(m, "none", "new_inode")
  /\ refs' = Owner(m)
  /\ UNCHANGED <<moduleVars, objects>>

\* new_inode() gives an inode; kmem_cache_alloc() is not tested, and fails
\* for want of memory or because there is no cache.
MakeInode(m) ==
  /\ mount[m] = "new_inode" /\ state # "oops"
  /\ \/ /\ cache = "live"
        /\ Move(m, "new_inode", "d_make_root")
        /\ objects' = objects \cup {m}
        /\ UNCHANGED <<moduleVars, refs>>
     \/ Dies

\* mount_nodev() kills the super block of a mount that failed.
NewInodeFails(m) ==
  /\ state # "oops"
  /\ Move(m, "new_inode", "kill_sb")
  /\ UNCHANGED <<moduleVars, refs, objects>>

MakeRoot(m) ==
  /\ state # "oops"
  /\ Move(m, "d_make_root", "mounted")
  /\ UNCHANGED <<moduleVars, refs, objects>>

\* d_make_root() drops the inode when it fails, and myfs_fill_sb() drops it
\* once more.
MakeRootFails(m) == mount[m] = "d_make_root" /\ Dies

Umount(m) ==
  /\ state # "oops"
  /\ Move(m, "mounted", "kill_sb")
  /\ UNCHANGED <<moduleVars, refs, objects>>

\* kill_block_super() of a super block without a device reads through NULL:
\* it dies of that, or drops the inode, whose free_alloc_inodes() gives the
\* object back, and returns the reference.
KillBlockSuper(m) ==
  /\ mount[m] = "kill_sb" /\ state # "oops"
  /\ \/ /\ Move(m, "kill_sb", "none")
        /\ objects' = objects \ {m}
        /\ refs' = refs \ {m}
        /\ UNCHANGED moduleVars
     \/ Dies

Restart ==
  /\ state = "oops"
  /\ state' = "absent" /\ registered' = FALSE /\ cache' = "null"
  /\ mount' = [m \in Mounts |-> "none"]
  /\ refs' = {} /\ objects' = {}

MyFsNext ==
  \/ RegisterFilesystem \/ KmemCacheCreate
  \/ RmmodMyFs \/ UnregisterFilesystem \/ KmemCacheDestroy
  \/ \E m \in Mounts :
       \/ Mount(m) \/ MakeInode(m) \/ NewInodeFails(m)
       \/ MakeRoot(m) \/ MakeRootFails(m) \/ Umount(m) \/ KillBlockSuper(m)
  \/ Restart

MyFsSpec == MyFsInit /\ [][MyFsNext]_myfsVars
-----------------------------------------------------------------------------
(***************************************************************************)
(* Properties.                                                             *)
(***************************************************************************)
\* However mounts, failures, umounts and rmmod come together, an inode that
\* still has an object, or a mount that is about to take one, finds the file
\* system registered, and an object its cache alive: myfs_exit()
\* (slab.c:254-269) runs only when every object is back.
CacheOutlivesObjects ==
  /\ \A m \in Mounts : mount[m] # "none" => registered
  /\ \A m \in objects : cache = "live"
=============================================================================
