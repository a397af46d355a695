---------------------------- MODULE BufferManager ----------------------------
(***************************************************************************)
(* The buffer manager: blocks of the database file and temporary buffers   *)
(* are pinned while they are used; unpinned ones are evicted when memory   *)
(* runs out, temporary ones to a file of their own                         *)
(* (src/src/storage/buffer_manager.cpp, buffer/buffer_handle.cpp).         *)
(*                                                                         *)
(* Threads call it concurrently.  A step ends where the code takes or      *)
(* releases a lock or touches one of the atomics or the eviction queue; a  *)
(* critical section that waits for nothing is one step, which waits for    *)
(* its lock.  Every block takes one unit of memory.                        *)
(*                                                                         *)
(* A handle is an object: a slot of Handles, free when no object is in it. *)
(* It lives as long as a shared pointer to it does: of a table or operator *)
(* (owned), of a BufferHandle (a pin), or of a running call.  Nodes of the *)
(* eviction queue and the map of blocks are weak pointers; the nodes of a  *)
(* destroyed handle, which EvictBlocks skips, leave the queue with it.     *)
(* The queue is moodycamel's, which keeps no order between producers: a    *)
(* set.                                                                    *)
(***************************************************************************)
EXTENDS Integers, FiniteSets

CONSTANTS
    Threads,
    Handles,       \* bound: handle objects at a time
    DiskBlocks,    \* the blocks of the database file
    None,
    Limits,        \* the memory limits a database is opened with
    NewLimits,     \* those that SET memory_limit sets
    MaxTemporary,  \* bound: temporary buffers that are created
    MaxTimestamp,  \* bound: eviction timestamps of a handle that are told apart
    Faults         \* read_fails, write_fails: a block or temporary file cannot be
                   \* read or written

ASSUME BufferAssumption ==
    /\ IsFiniteSet(Threads) /\ IsFiniteSet(Handles)
    /\ None \notin Threads \cup Handles \cup DiskBlocks \cup (1 .. MaxTemporary)
    /\ Limits \subseteq Nat /\ Limits # {} /\ NewLimits \subseteq Nat
    /\ MaxTemporary \in Nat /\ MaxTimestamp \in Nat \ {0}
    /\ DiskBlocks \cap (1 .. MaxTemporary) = {}
    /\ Faults \subseteq {"read_fails", "write_fails"}

VARIABLES
    handle,          \* the handle objects
    owned,           \* handles that tables and operators hold
    pins,            \* thread -> handles it has a BufferHandle of
    blocks,          \* block id -> registered handle, a weak pointer
    queue,           \* eviction nodes: handle and timestamp
    file,            \* temporary id -> contents of its file, None without one
    temporary_id,
    current_memory,
    maximum_memory,
    manager_lock,
    call,            \* thread -> the call it is in
    latest,          \* history: handle -> what was last written to it
    shared,          \* history: handles that shared their temporary file with another
    stale            \* history: memory was reserved under a limit that was lowered since

memory == <<current_memory, maximum_memory>>
vars == <<handle, owned, pins, blocks, queue, file, temporary_id, memory, manager_lock,
          call, latest, shared, stale>>

TemporaryIds == 1 .. MaxTemporary
BlockIds == DiskBlocks \cup TemporaryIds
\* What a buffer holds: whose it is, and one of two contents, at first 0.
Contents == (Handles \cup DiskBlocks) \X {0, 1}
HandleObjects ==
    [block_id : BlockIds \cup {None}, can_destroy : BOOLEAN, loaded : BOOLEAN,
     buffer : Contents \cup {None}, readers : Nat, eviction_timestamp : Nat,
     lock : Threads \cup {None}]

NoObject == [block_id |-> None, can_destroy |-> FALSE, loaded |-> FALSE, buffer |-> None,
             readers |-> 0, eviction_timestamp |-> 0, lock |-> None]
\* The two constructors: of a block of the file, unloaded, and of a buffer in memory.
BlockHandle(b) == [NoObject EXCEPT !.block_id = b]
MemoryHandle(id, can_destroy, contents, readers) ==
    [NoObject EXCEPT !.block_id = id, !.can_destroy = can_destroy, !.loaded = TRUE,
                     !.buffer = contents, !.readers = readers]

Exists(h) == handle[h].block_id # None
OnDisk(h) == handle[h].block_id \in DiskBlocks
Loaded == {h \in Handles : handle[h].loaded}

(***************************************************************************)
(* Calls.  kind is what was called; pc is where in it the thread is:       *)
(*   reserve  EvictBlocks is about to add extra_memory to current_memory   *)
(*   check    at the head of its loop                                      *)
(*   dequeue  current_memory exceeded the limit                            *)
(*   victim   about to lock the handle of a node that passed the first     *)
(*            CanUnload                                                    *)
(*   release  about to let go of that handle                               *)
(*   load     memory was granted to Pin                                    *)
(*   number, store   memory was granted to RegisterMemory, which reads and *)
(*            then writes temporary_id                                     *)
(*   set      room was made for SetLimit                                   *)
(*   drop     about to let go of a BufferHandle or of an owner's handle    *)
(*   unregister  in the destructor of a handle of a block of the file      *)
(***************************************************************************)
Kinds == {"none", "pin", "temporary", "once", "limit", "limit_again", "drop"}
Idle == [kind |-> "none", pc |-> "idle", target |-> None, victim |-> None, timestamp |-> 0,
         limit |-> 0, old_limit |-> 0, id |-> 0, then |-> "idle"]
Calls ==
    [kind : Kinds,
     pc : {"idle", "reserve", "check", "dequeue", "victim", "release", "load", "number",
           "store", "set", "drop", "unregister"},
     target : Handles \cup {None}, victim : Handles \cup {None}, timestamp : Nat,
     limit : Nat, old_limit : Nat, id : 0 .. MaxTemporary, then : {"idle", "check"}]

At(t, pc) == call[t].pc = pc
IsIdle(t) == At(t, "idle")
Goto(t, pc) == call' = [call EXCEPT ![t].pc = pc]

\* SetLimit evicts for no memory of its own.
Extra(t) == IF call[t].kind \in {"limit", "limit_again"} THEN 0 ELSE 1

\* The shared pointers of thread u to h.  A handle in its destructor has none.
Holds(u, h) ==
    \/ h \in pins[u]
    \/ call[u].kind = "pin" /\ call[u].target = h
    \/ call[u].pc \in {"victim", "release"} /\ call[u].victim = h
    \/ At(u, "drop") /\ call[u].target = h
Referenced(h) == h \in owned \/ \E u \in Threads : Holds(u, h)
\* Those that are left when t lets go of the handle it drops or chose as a victim.
HeldBesides(t, h) ==
    \/ h \in owned
    \/ h \in pins[t]
    \/ call[t].kind = "pin" /\ call[t].target = h
    \/ \E u \in Threads \ {t} : Holds(u, h)

Init ==
    /\ handle = [h \in Handles |-> NoObject]
    /\ owned = {}
    /\ pins = [t \in Threads |-> {}]
    /\ blocks = [b \in DiskBlocks |-> None]
    /\ queue = {}
    /\ file = [i \in TemporaryIds |-> None]
    /\ temporary_id = 0
    /\ current_memory = 0
    /\ maximum_memory \in Limits
    /\ manager_lock = None
    /\ call = [t \in Threads |-> Idle]
    /\ latest = [h \in Handles |-> None]
    /\ shared = {}
    /\ stale = FALSE

\* Bounds: a slot is left for a new handle, besides those for the calls under way, and a
\* temporary id.
Registering == {t \in Threads : call[t].kind \in {"temporary", "once"}}
SlotLeft == Cardinality({h \in Handles : ~Exists(h)}) > Cardinality(Registering)
IdLeft == temporary_id + Cardinality(Registering) < MaxTemporary

(***************************************************************************)
(* Getting a handle                                                        *)
(***************************************************************************)
RegisterBlock(t, b) ==
    /\ IsIdle(t)
    /\ manager_lock = None
    /\ IF blocks[b] # None /\ Referenced(blocks[b])
         THEN /\ owned' = owned \cup {blocks[b]}
              /\ UNCHANGED <<handle, blocks, latest>>
         ELSE \E h \in Handles :
                /\ SlotLeft /\ ~Exists(h)
                /\ handle' = [handle EXCEPT ![h] = BlockHandle(b)]
                /\ blocks' = [blocks EXCEPT ![b] = h]
                /\ owned' = owned \cup {h}
                /\ latest' = [latest EXCEPT ![h] = <<b, 0>>]
    /\ UNCHANGED <<pins, queue, file, temporary_id, memory, manager_lock, call, shared,
                   stale>>

\* RegisterMemory, and Allocate, whose buffer lives for one pin.
RegisterMemory(t, kind) ==
    /\ IsIdle(t)
    /\ IdLeft /\ SlotLeft
    /\ call' = [call EXCEPT ![t] = [Idle EXCEPT !.kind = kind, !.pc = "reserve",
                                                !.limit = maximum_memory]]
    /\ UNCHANGED <<handle, owned, pins, blocks, queue, file, temporary_id, memory,
                   manager_lock, latest, shared, stale>>

\* ++temporary_id is neither atomic nor under a lock.
ReadTemporaryId(t) ==
    /\ At(t, "number")
    /\ temporary_id < MaxTemporary
    /\ call' = [call EXCEPT ![t].pc = "store", ![t].id = temporary_id + 1]
    /\ UNCHANGED <<handle, owned, pins, blocks, queue, file, temporary_id, memory,
                   manager_lock, latest, shared, stale>>

\* The handles whose temporary file is that of id.
FileOf(id) == {h \in Handles : handle[h].block_id = id /\ ~handle[h].can_destroy}

\* Allocate pins the handle nobody else knows of.
CreateMemory(t) ==
    /\ At(t, "store")
    /\ temporary_id' = call[t].id
    /\ \E h \in Handles :
         /\ ~Exists(h)
         /\ handle' = [handle EXCEPT ![h] =
              IF call[t].kind = "once" THEN MemoryHandle(call[t].id, TRUE, <<h, 0>>, 1)
                                       ELSE MemoryHandle(call[t].id, FALSE, <<h, 0>>, 0)]
         /\ latest' = [latest EXCEPT ![h] = <<h, 0>>]
         /\ IF call[t].kind = "once"
              THEN pins' = [pins EXCEPT ![t] = @ \cup {h}] /\ UNCHANGED owned
              ELSE owned' = owned \cup {h} /\ UNCHANGED pins
         /\ shared' = IF call[t].kind = "once" \/ FileOf(call[t].id) = {} THEN shared
                      ELSE shared \cup FileOf(call[t].id) \cup {h}
    /\ call' = [call EXCEPT ![t] = Idle]
    /\ UNCHANGED <<blocks, queue, file, memory, manager_lock, stale>>

(***************************************************************************)
(* Pinning                                                                 *)
(***************************************************************************)
\* A loaded block is pinned at once; for another one the thread keeps the lock
\* while it makes room.
Pin(t, h) ==
    /\ IsIdle(t)
    /\ h \in owned
    /\ h \notin pins[t]
    /\ handle[h].lock = None
    /\ IF handle[h].loaded
         THEN /\ handle' = [handle EXCEPT ![h].readers = @ + 1]
              /\ pins' = [pins EXCEPT ![t] = @ \cup {h}]
              /\ UNCHANGED call
         ELSE /\ handle' = [handle EXCEPT ![h].lock = t]
              /\ call' = [call EXCEPT ![t] = [Idle EXCEPT !.kind = "pin", !.pc = "reserve",
                                                !.target = h, !.limit = maximum_memory]]
              /\ UNCHANGED pins
    /\ UNCHANGED <<owned, blocks, queue, file, temporary_id, memory, manager_lock, latest,
                   shared, stale>>

\* Reading a block of the file takes manager_lock.  The state is changed before
\* the read and the reader counted, whether the read succeeds or not.
Load(t) ==
    LET h == call[t].target
    IN  /\ At(t, "load")
        /\ OnDisk(h) => manager_lock = None
        /\ \E ok \in {TRUE} \cup (IF "read_fails" \in Faults THEN {FALSE} ELSE {}) :
             /\ handle' = [handle EXCEPT ![h] =
                  [@ EXCEPT !.loaded = TRUE, !.readers = 1, !.lock = None,
                            !.buffer = IF ~ok THEN None
                                       ELSE IF OnDisk(h) THEN <<handle[h].block_id, 0>>
                                       ELSE file[handle[h].block_id]]]
             /\ pins' = IF ok THEN [pins EXCEPT ![t] = @ \cup {h}] ELSE pins
        /\ call' = [call EXCEPT ![t] = Idle]
        /\ UNCHANGED <<owned, blocks, queue, file, temporary_id, memory, manager_lock,
                       latest, shared, stale>>

\* Users fill temporary buffers they have pinned, with 1 here; blocks of the file they
\* only read.
Write(t, h) ==
    /\ IsIdle(t)
    /\ h \in pins[t]
    /\ ~OnDisk(h)
    /\ latest' = [latest EXCEPT ![h] = <<h, 1>>]
    /\ handle' = [handle EXCEPT ![h].buffer = <<h, 1>>]
    /\ UNCHANGED <<owned, pins, blocks, queue, file, temporary_id, memory, manager_lock,
                   call, shared, stale>>

\* Mutant: the node has the timestamp from before the increment.
EnqueueNode_OldTimestamp(h) ==
    queue' = queue \cup {[handle |-> h, timestamp |-> handle[h].eviction_timestamp]}

\* The timestamp is raised by one.  It is only compared for equality, so one that no node
\* of the handle has any more, nor a thread that took one from the queue, is used again.
NextTimestamp(h) == (handle[h].eviction_timestamp % MaxTimestamp) + 1
TimestampLeft(h) ==
    /\ [handle |-> h, timestamp |-> NextTimestamp(h)] \notin queue
    /\ \A u \in Threads : ~(/\ At(u, "victim") /\ call[u].victim = h
                            /\ call[u].timestamp = NextTimestamp(h))

EnqueueNode(h) ==
    queue' = queue \cup {[handle |-> h, timestamp |-> NextTimestamp(h)]}

Unpin(t, h) ==
    /\ IsIdle(t)
    /\ h \in pins[t]
    /\ handle[h].lock = None
    /\ IF handle[h].readers = 1
         THEN /\ TimestampLeft(h)
              /\ handle' = [handle EXCEPT ![h].readers = 0,
                                          ![h].eviction_timestamp = NextTimestamp(h)]
              /\ EnqueueNode(h)
         ELSE /\ handle' = [handle EXCEPT ![h].readers = @ - 1]
              /\ UNCHANGED queue
    /\ pins' = [pins EXCEPT ![t] = @ \ {h}]
    /\ call' = [call EXCEPT ![t] = [Idle EXCEPT !.kind = "drop", !.pc = "drop", !.target = h]]
    /\ UNCHANGED <<owned, blocks, file, temporary_id, memory, manager_lock, latest, shared, stale>>

\* A table or operator lets go of a handle, never of one it is pinning.
DropOwned(t, h) ==
    /\ IsIdle(t)
    /\ h \in owned
    /\ \A u \in Threads : call[u].kind = "pin" => call[u].target # h
    /\ owned' = owned \ {h}
    /\ call' = [call EXCEPT ![t] = [Idle EXCEPT !.kind = "drop", !.pc = "drop", !.target = h]]
    /\ UNCHANGED <<handle, pins, blocks, queue, file, temporary_id, memory, manager_lock,
                   latest, shared, stale>>

(***************************************************************************)
(* Letting go of a handle.  The last one out runs the destructor, which    *)
(* lowers current_memory if the block is loaded and unregisters it: a      *)
(* temporary one loses its file, one of the database file leaves the map   *)
(* of blocks under manager_lock.                                           *)
(***************************************************************************)

FreedMemory(h) == IF handle[h].loaded THEN 1 ELSE 0

\* A buffer that can be destroyed never had a file.
DeleteTemporaryFile(h) ==
    file' = IF handle[h].can_destroy THEN file ELSE [file EXCEPT ![handle[h].block_id] = None]

\* Thread t lets go of h and goes on at pc.
LetGo(t, h, pc) ==
    IF HeldBesides(t, h)
      THEN /\ call' = [call EXCEPT ![t] = IF pc = "idle" THEN Idle
                                          ELSE [@ EXCEPT !.pc = pc, !.victim = None]]
           /\ UNCHANGED <<handle, queue, file, current_memory, latest, shared>>
      ELSE /\ current_memory' = current_memory - FreedMemory(h)
           /\ queue' = {node \in queue : node.handle # h}
           /\ IF OnDisk(h)
                THEN /\ handle' = [handle EXCEPT ![h].loaded = FALSE, ![h].buffer = None]
                     /\ call' = [call EXCEPT ![t] = [@ EXCEPT !.pc = "unregister",
                                   !.victim = h, !.then = pc]]
                     /\ UNCHANGED <<file, latest, shared>>
                ELSE /\ DeleteTemporaryFile(h)
                     /\ shared' = shared \ {h}
                     /\ handle' = [handle EXCEPT ![h] = NoObject]
                     /\ latest' = [latest EXCEPT ![h] = None]
                     /\ call' = [call EXCEPT ![t] = IF pc = "idle" THEN Idle
                                                   ELSE [@ EXCEPT !.pc = pc, !.victim = None]]

Drop(t) ==
    /\ At(t, "drop")
    /\ LetGo(t, call[t].target, "idle")
    /\ UNCHANGED <<owned, pins, blocks, temporary_id, maximum_memory, manager_lock, stale>>

\* The end of the destructor of a block of the file; it erases whatever is
\* registered under its id.
UnregisterBlock(t) ==
    LET h == call[t].victim
    IN  /\ At(t, "unregister")
        /\ manager_lock = None
        /\ blocks' = [blocks EXCEPT ![handle[h].block_id] = None]
        /\ handle' = [handle EXCEPT ![h] = NoObject]
        /\ latest' = [latest EXCEPT ![h] = None]
        /\ call' = [call EXCEPT ![t] = IF call[t].then = "idle" THEN Idle
                                       ELSE [@ EXCEPT !.pc = "check", !.victim = None]]
        /\ UNCHANGED <<owned, pins, queue, file, temporary_id, memory, manager_lock, shared,
                       stale>>

(***************************************************************************)
(* EvictBlocks                                                             *)
(***************************************************************************)
\* Mutant: memory is not counted before it is granted.
ReservedMemory_Late(t) == current_memory

ReservedMemory(t) == current_memory + 1

Reserve(t) ==
    /\ At(t, "reserve")
    /\ current_memory' = ReservedMemory(t)
    /\ stale' = (stale \/ /\ call[t].limit > maximum_memory
                          /\ \A u \in Threads : call[u].kind = "limit_again"
                                                   => call[u].old_limit < call[t].limit)
    /\ Goto(t, "check")
    /\ UNCHANGED <<handle, owned, pins, blocks, queue, file, temporary_id, maximum_memory,
                   manager_lock, latest, shared>>

\* A call ends; that of SetLimit releases manager_lock.
EndOfCall(t) ==
    /\ call' = [call EXCEPT ![t] = Idle]
    /\ manager_lock' = IF manager_lock = t THEN None ELSE manager_lock

\* The head of the loop.
CheckLimit(t) ==
    /\ At(t, "check")
    /\ IF current_memory > call[t].limit
         THEN Goto(t, "dequeue") /\ UNCHANGED manager_lock
         ELSE \/ /\ call[t].kind = "pin"
                 /\ Goto(t, "load")
                 /\ UNCHANGED manager_lock
              \/ /\ call[t].kind \in {"temporary", "once"}
                 /\ Goto(t, "number")
                 /\ UNCHANGED manager_lock
              \/ /\ call[t].kind = "limit"
                 /\ Goto(t, "set")
                 /\ UNCHANGED manager_lock
              \/ /\ call[t].kind = "limit_again"
                 /\ EndOfCall(t)
    /\ UNCHANGED <<handle, owned, pins, blocks, queue, file, temporary_id, memory, latest,
                   shared, stale>>

\* BufferEvictionNode::CanUnload and BlockHandle::CanUnload; there is a temporary
\* directory.
CanUnload(h, timestamp) ==
    /\ handle[h].eviction_timestamp = timestamp
    /\ handle[h].loaded
    /\ handle[h].readers = 0

\* Pin releases its handle's lock.
Unlocked(t) ==
    IF call[t].kind = "pin" THEN [handle EXCEPT ![call[t].target].lock = None] ELSE handle

\* Nothing is left to evict: the memory is given back and the call throws.
OutOfMemory(t) ==
    /\ At(t, "dequeue")
    /\ queue = {}
    /\ current_memory' = current_memory - Extra(t)
    /\ maximum_memory' = IF call[t].kind = "limit_again" THEN call[t].old_limit
                                                         ELSE maximum_memory
    /\ stale' = (stale \/ /\ call[t].kind = "limit_again"
                          /\ call[t].old_limit < call[t].limit)
    /\ handle' = Unlocked(t)
    /\ EndOfCall(t)
    /\ UNCHANGED <<owned, pins, blocks, queue, file, temporary_id, latest, shared>>

\* Mutant: without the early out.
Candidate_Any(node) == TRUE

\* The first CanUnload, without the lock.
Candidate(node) == CanUnload(node.handle, node.timestamp)

\* Mutant: a node whose handle cannot be unloaded goes back to the queue.
Dequeued_PutBack(node) == IF Candidate(node) THEN queue \ {node} ELSE queue

Dequeued(node) == queue \ {node}

\* A node leaves the queue.
Dequeue(t) ==
    /\ At(t, "dequeue")
    /\ \E node \in queue :
         /\ queue' = Dequeued(node)
         /\ call' = IF Candidate(node)
                      THEN [call EXCEPT ![t] = [@ EXCEPT !.pc = "victim",
                              !.victim = node.handle, !.timestamp = node.timestamp]]
                      ELSE [call EXCEPT ![t].pc = "check"]
    /\ UNCHANGED <<handle, owned, pins, blocks, file, temporary_id, memory, manager_lock,
                   latest, shared, stale>>

\* Mutant: a temporary buffer is not written.
WriteTemporaryBuffer_Never(h) == UNCHANGED file

\* A temporary buffer goes to its file.
WriteTemporaryBuffer(h) ==
    file' = IF OnDisk(h) \/ handle[h].can_destroy THEN file
            ELSE [file EXCEPT ![handle[h].block_id] = handle[h].buffer]

\* Mutant: the timestamp and the readers are not looked at again under the lock.
StillUnloadable_Loaded(t) == handle[call[t].victim].loaded

\* The second CanUnload, under the lock.
StillUnloadable(t) == CanUnload(call[t].victim, call[t].timestamp)

GotoRelease(t) == call' = [call EXCEPT ![t] = [@ EXCEPT !.pc = "release", !.timestamp = 0]]

\* The lock is taken; if the block can still be unloaded it is.  The state is changed
\* first: when the file cannot be written the buffer and its memory stay, and the
\* error leaves EvictBlocks with the memory it asked for still counted.
UnloadVictim(t) ==
    LET h == call[t].victim
    IN  /\ At(t, "victim")
        /\ handle[h].lock = None
        /\ \/ /\ ~StillUnloadable(t)
              /\ GotoRelease(t)
              /\ UNCHANGED <<handle, file, current_memory, manager_lock>>
           \/ /\ StillUnloadable(t)
              /\ \E ok \in {TRUE} \cup (IF "write_fails" \in Faults /\ ~OnDisk(h) THEN {FALSE} ELSE {}) :
                   IF ok
                     THEN /\ WriteTemporaryBuffer(h)
                          /\ handle' = [handle EXCEPT ![h].loaded = FALSE, ![h].buffer = None]
                          /\ current_memory' = current_memory - 1
                          /\ GotoRelease(t)
                          /\ UNCHANGED manager_lock
                     ELSE /\ handle' = [Unlocked(t) EXCEPT ![h].loaded = FALSE]
                          /\ call' = [call EXCEPT ![t] = [Idle EXCEPT !.kind = "drop",
                                                            !.pc = "drop", !.target = h]]
                          /\ manager_lock' = IF manager_lock = t THEN None ELSE manager_lock
                          /\ UNCHANGED <<file, current_memory>>
        /\ UNCHANGED <<owned, pins, blocks, queue, temporary_id, maximum_memory,
                       latest, shared, stale>>

ReleaseVictim(t) ==
    /\ At(t, "release")
    /\ LetGo(t, call[t].victim, "check")
    /\ UNCHANGED <<owned, pins, blocks, temporary_id, maximum_memory, manager_lock, stale>>

\* Mutant: without the second eviction.
EvictAgain_Done(t) == EndOfCall(t)

EvictAgain(t) ==
    /\ call' = [call EXCEPT ![t] = [@ EXCEPT !.kind = "limit_again", !.pc = "check",
                                             !.old_limit = maximum_memory]]
    /\ UNCHANGED manager_lock

\* SetLimit changes the limit once there is room, and then evicts again.
ChangeLimit(t) ==
    /\ At(t, "set")
    /\ maximum_memory' = call[t].limit
    /\ EvictAgain(t)
    /\ UNCHANGED <<handle, owned, pins, blocks, queue, file, temporary_id, current_memory,
                   latest, shared, stale>>

\* SetLimit keeps manager_lock.
SetLimit(t, limit) ==
    /\ IsIdle(t)
    /\ manager_lock = None
    /\ manager_lock' = t
    /\ call' = [call EXCEPT ![t] = [Idle EXCEPT !.kind = "limit", !.pc = "check",
                                                !.limit = limit]]
    /\ UNCHANGED <<handle, owned, pins, blocks, queue, file, temporary_id, memory, latest,
                   shared, stale>>

(***************************************************************************)
(* The specification                                                       *)
(***************************************************************************)
\* The steps of a call that was begun.
Step(t) ==
    \/ ReadTemporaryId(t) \/ CreateMemory(t) \/ Load(t) \/ Drop(t) \/ UnregisterBlock(t)
    \/ ChangeLimit(t) \/ Reserve(t) \/ CheckLimit(t) \/ OutOfMemory(t) \/ Dequeue(t) \/ ReleaseVictim(t)

Next ==
    \E t \in Threads :
      \/ Step(t)
      \/ UnloadVictim(t)
      \/ \E b \in DiskBlocks : RegisterBlock(t, b)
      \/ \E kind \in {"temporary", "once"} : RegisterMemory(t, kind)
      \/ \E h \in Handles : Pin(t, h) \/ Write(t, h) \/ Unpin(t, h) \/ DropOwned(t, h)
      \/ \E limit \in NewLimits : SetLimit(t, limit)

Spec == Init /\ [][Next]_vars

\* A thread in a call goes on, and one that waits for the lock of a handle gets it
\* when it is free again and again.
Fairness == \A t \in Threads : WF_vars(Step(t)) /\ SF_vars(UnloadVictim(t))
FairSpec == Spec /\ Fairness

(***************************************************************************)
(* Properties                                                              *)
(***************************************************************************)
TypeOK ==
    /\ handle \in [Handles -> HandleObjects]
    /\ owned \subseteq Handles
    /\ pins \in [Threads -> SUBSET Handles]
    /\ blocks \in [DiskBlocks -> Handles \cup {None}]
    /\ queue \subseteq [handle : Handles, timestamp : Nat]
    /\ file \in [TemporaryIds -> Contents \cup {None}]
    /\ temporary_id \in 0 .. MaxTemporary
    /\ current_memory \in Nat
    /\ maximum_memory \in Nat
    /\ manager_lock \in Threads \cup {None}
    /\ call \in [Threads -> Calls]
    /\ latest \in [Handles -> Contents \cup {None}]
    /\ shared \subseteq Handles
    /\ stale \in BOOLEAN

\* Calls whose extra memory is counted in current_memory, and those of them that
\* EvictBlocks has let pass.
Reserved == {t \in Threads : call[t].kind \in {"pin", "temporary", "once"} /\ ~At(t, "reserve")}
Granted == {t \in Threads : call[t].pc \in {"load", "number", "store"}}

\* current_memory is the memory of the loaded blocks and of the calls that reserved
\* some, whoever of the evicting threads, the last BufferHandle and the destructor
\* gets to a block first.
MemoryAccounted == current_memory = Cardinality(Loaded) + Cardinality(Reserved)

\* The memory in use stays within the limit, also when SetLimit lowers it while
\* other threads make room for themselves, unless a thread had read the old limit
\* and reserved its memory only after SetLimit was through, or SetLimit took back a
\* higher limit that others had begun to use.
LimitRespected ==
    (~stale /\ \A t \in Threads : call[t].kind # "limit_again")
        => Cardinality(Loaded) + Cardinality(Granted) <= maximum_memory

\* A pinned block is in memory until its last BufferHandle is gone, and counted as
\* being read by each of them.
PinnedStaysLoaded ==
    \A h \in Handles :
      /\ (\E t \in Threads : h \in pins[t]) => handle[h].loaded
      /\ Exists(h) => handle[h].readers = Cardinality({t \in Threads : h \in pins[t]})

\* What was last written to h is what its buffer holds, or its temporary file while it is
\* evicted.  Only a buffer allocated for one pin is forgotten.
Keeps(h) ==
    /\ handle[h].loaded => handle[h].buffer = latest[h]
    /\ (Exists(h) /\ ~OnDisk(h) /\ ~handle[h].loaded /\ ~handle[h].can_destroy)
         => file[handle[h].block_id] = latest[h]

\* Every block keeps what was written to it while threads evict, reload and destroy
\* others, but for buffers that were given one temporary_id (buffer_manager.cpp:176).
ContentKept == \A h \in Handles \ shared : Keeps(h)

\* A buffer that cannot be destroyed is "written to a temporary file so it can be reloaded"
\* (buffer_manager.hpp:41).
EveryContentKept == \A h \in Handles : Keeps(h)

\* A block that was used and could be evicted is in the queue, or in the hands of a
\* thread that is about to evict it: memory is not lost to blocks nobody finds.
EvictableIsQueued ==
    \A h \in Handles :
      (handle[h].loaded /\ handle[h].readers = 0 /\ handle[h].eviction_timestamp > 0) =>
        LET timestamp == handle[h].eviction_timestamp
        IN  \/ [handle |-> h, timestamp |-> timestamp] \in queue
            \/ \E t \in Threads : /\ At(t, "victim")
                                  /\ call[t].victim = h
                                  /\ call[t].timestamp = timestamp

\* Who waits for a lock that u holds.
WaitsFor(t, u) ==
    \/ At(t, "victim") /\ handle[call[t].victim].lock = u
    \/ At(t, "load") /\ OnDisk(call[t].target) /\ manager_lock = u
    \/ At(t, "unregister") /\ manager_lock = u

Circle(S) == S # {} /\ \A t \in S : \E u \in S : WaitsFor(t, u)

\* Pin keeps the lock of its handle while it locks others to evict them, in no order at
\* all; still threads wait for each other in a circle, or for themselves, only when one
\* of them is in SetLimit.
NoCircularWait ==
    \A S \in SUBSET Threads :
      Circle(S) => \E t \in S : call[t].kind \in {"limit", "limit_again"}

\* SetLimit sets the limit or "throws an exception" (buffer_manager.hpp:54): it does not wait
\* for a lock of somebody that waits for its own.
SetLimitReturns == \A S \in SUBSET Threads : ~Circle(S)

\* Puts a node into the queue.
Requeues(u, h) == Unpin(u, h) /\ queue' # queue

\* A call that takes from the queue and locks what others lock and unload meanwhile ends,
\* with memory or with an error, unless others put blocks back into the queue for ever.
CallsEnd ==
    \A t \in Threads :
      \/ []<>IsIdle(t)
      \/ []<><<\E u \in Threads \ {t}, h \in Handles : Requeues(u, h)>>_vars

\* EvictBlocks makes the memory fit or "returns false if this was not possible"
\* (buffer_manager.hpp:69).
EvictionEnds == \A t \in Threads : At(t, "check") ~> IsIdle(t)

=============================================================================
