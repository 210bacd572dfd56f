--------------------------- MODULE HandlerMemory ---------------------------
(***************************************************************************)
(* HandlerAllocator: one block of memory for the handler of an operation,  *)
(* which falls back on the heap while the block is in use. in_use_ is      *)
(* tested and set without a lock, by all threads that start an operation   *)
(* on the socket. Operations are numbers.                                  *)
(***************************************************************************)
EXTENDS Integers

VARIABLES
    inUse,      \* in_use_
    testing,    \* operations whose thread has seen ~in_use_ and not yet set it
    holders,    \* operations whose handler lies in the block
    overlapped  \* whether two threads were in allocate at a time

memoryVars == <<inUse, testing, holders, overlapped>>

MemoryInit ==
    /\ inUse = FALSE
    /\ testing = {}
    /\ holders = {}
    /\ overlapped = FALSE

\* Mutant of SeesFree: in_use_ is not looked at.
SeesFreeAlways == TRUE

\* allocate up to its test of in_use_; without it the heap is used.
SeesFree == ~inUse

TestInUse(op) ==
    /\ testing' = IF SeesFree THEN testing \cup {op} ELSE testing
    /\ overlapped' = (overlapped \/ testing # {})
    /\ UNCHANGED <<inUse, holders>>

TakeBlock(op) ==
    /\ op \in testing
    /\ testing' = testing \ {op}
    /\ inUse' = TRUE
    /\ holders' = holders \cup {op}
    /\ UNCHANGED overlapped

\* deallocate, before the handler is called.
Deallocate(op) ==
    /\ inUse' = (inUse /\ op \notin holders)
    /\ holders' = holders \ {op}
    /\ UNCHANGED <<testing, overlapped>>

(***************************************************************************)
(* The handler of a pending operation is not overwritten by that of        *)
(* another, and the block is not lost, as long as no two threads were in   *)
(* allocate at the same time: the sends and the receive of a socket share  *)
(* the block (HandlerAllocator.h:22-45, SFUDPSocket.h:145-176).            *)
(***************************************************************************)
OneHolder ==
    ~overlapped => /\ \A p, q \in holders : p = q
                   /\ inUse <=> holders # {}
                   /\ holders # {} => testing = {}
=============================================================================
