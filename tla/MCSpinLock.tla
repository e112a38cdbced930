----------------------------- MODULE MCSpinLock -----------------------------
(***************************************************************************)
(* SpinLock with three of the kernel's locks as the syscalls nest them:    *)
(* KERNEL_FS, then READY_QUEUE (exec) or the heap, then the heap.          *)
(***************************************************************************)
EXTENDS SpinLock

MCNesting == {<<"fs", "queue">>, <<"fs", "heap">>, <<"queue", "heap">>}
=============================================================================
