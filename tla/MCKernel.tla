------------------------------ MODULE MCKernel ------------------------------
(* Kernel with the bounds of its .cfg files, for guests that call what they  *)
(* like, in any order, with these limits.  A standard descriptor that a child *)
(* gets from its parent has the same number in both, unless it comes from     *)
(* fd_pipe, and only descriptor 1 may be a file.  Guests close no descriptor  *)
(* (fd_close takes an entry out of their own table, so they can do less       *)
(* afterwards and nothing else), and they read and write at standard          *)
(* descriptors only, which for a child may be the ends of an fd_pipe.  The    *)
(* run of module Shell closes descriptors too.                                *)
EXTENDS Kernel

HandedOn(p) == {m \in FdMaps(p) : \A c \in DOMAIN m : m[c] = c \/ m[c] \notin Std}

MCGuest(p) ==
    \/ FdPipe(p)
    \/ \E fd \in Std : FdRead(p, fd) \/ FdWrite(p, fd)
    \/ \E q \in Proc \ {Root}, fdmap \in HandedOn(p), files \in SUBSET {1} :
          ProcSpawn(p, q, fdmap, files)
    \/ \E q \in Proc : ProcJoin(p, q)
    \/ Exit(p)
    \/ Crash(p)

MCNext == KernelStep \/ \E p \in Proc : MCGuest(p)

MCSpec == Init /\ [][MCNext]_vars

MCFairSpec == MCSpec /\ Fairness
=============================================================================
