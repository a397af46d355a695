------------------------ MODULE BufferManagerProofs ------------------------
(***************************************************************************)
(* Proofs about module BufferManager, for any number of threads, handles,  *)
(* blocks, limits and temporary buffers: its types, that memory is         *)
(* accounted for and stays within the limit, that pinned blocks stay       *)
(* loaded, that contents are kept, that what can be evicted is found, and  *)
(* that threads wait for each other in a circle only through SetLimit.     *)
(***************************************************************************)
EXTENDS BufferManager, FiniteSetTheorems, TLAPS

(***************************************************************************)
(* What the theorems assume of the constants.  With the faults they leave  *)
(* out the properties do not hold.                                         *)
(***************************************************************************)
\* Files can be read and written.
ReliableFiles == "read_fails" \notin Faults /\ "write_fails" \notin Faults

(***************************************************************************)
(* The inductive invariant.                                                *)
(***************************************************************************)
Evicting == {"pin", "temporary", "once", "limit", "limit_again"}

\* Which calls get where.
PlaceInv ==
    \A t \in Threads :
      /\ At(t, "idle") => call[t].kind = "none"
      /\ At(t, "reserve") => call[t].kind \in {"pin", "temporary", "once"}
      /\ call[t].pc \in {"check", "dequeue", "victim", "release"} => call[t].kind \in Evicting
      /\ At(t, "load") => call[t].kind = "pin"
      /\ call[t].pc \in {"number", "store"} => call[t].kind \in {"temporary", "once"}
      /\ At(t, "set") => call[t].kind = "limit"
      /\ At(t, "drop") => call[t].kind = "drop" /\ call[t].target \in Handles
      /\ At(t, "unregister") => IF call[t].then = "idle" THEN call[t].kind = "drop"
                                                         ELSE call[t].kind \in Evicting
      /\ call[t].pc \in {"victim", "release", "unregister"} => call[t].victim \in Handles
      /\ At(t, "store") => call[t].id \in TemporaryIds

\* A slot without an object has nothing in it.
SlotInv == \A h \in Handles : ~Exists(h) => handle[h] = NoObject

\* A handle lives as long as someone refers to it.
LifeInv ==
    /\ \A h \in owned : Exists(h)
    /\ \A t \in Threads, h \in Handles : Holds(t, h) => Exists(h)

\* A handle in its destructor is unloaded, and nobody refers to it any more.
DestructorInv ==
    \A t \in Threads : At(t, "unregister") =>
      LET h == call[t].victim
      IN  /\ OnDisk(h) /\ ~handle[h].loaded
          /\ h \notin owned
          /\ \A u \in Threads : ~Holds(u, h)
          /\ \A u \in Threads \ {t} : At(u, "unregister") => call[u].victim # h

\* Pin holds the lock of its handle, which stays unloaded, and nobody else holds a
\* lock across a step.
PinInv ==
    /\ \A t \in Threads : call[t].kind = "pin" =>
         /\ call[t].target \in owned
         /\ handle[call[t].target].lock = t
         /\ ~handle[call[t].target].loaded
    /\ \A h \in Handles : handle[h].lock # None =>
         /\ call[handle[h].lock].kind = "pin"
         /\ call[handle[h].lock].target = h

\* The BufferHandles of h.
Pinners(h) == {t \in Threads : h \in pins[t]}

\* Every BufferHandle is counted, and its block in memory.
ReadersInv ==
    /\ \A t \in Threads : \A h \in pins[t] : handle[h].loaded
    /\ \A h \in Handles : handle[h].readers = Cardinality(Pinners(h))

StructInv ==
    TypeOK /\ PlaceInv /\ SlotInv /\ LifeInv /\ DestructorInv /\ PinInv /\ ReadersInv

\* SetLimit has manager_lock until it returns.
LimitLockInv ==
    /\ \A t \in Threads : call[t].kind \in {"limit", "limit_again"} <=> manager_lock = t
    /\ \A t \in Threads : call[t].kind = "limit_again" => call[t].limit = maximum_memory

\* The calls that have memory or will be granted it whatever the limit is now.
Entitled(limit) == Granted \cup {t \in Reserved : call[t].limit > limit}
Within(limit) == Cardinality(Loaded) + Cardinality(Entitled(limit)) <= limit

\* Why LimitRespected holds: the memory of the calls that read a higher limit is counted
\* when the limit is lowered, and when lowering it fails the old limit still holds.
LimitInv ==
    ~stale =>
      /\ (\A t \in Threads : call[t].kind # "limit_again") => Within(maximum_memory)
      /\ \A t \in Threads :
           call[t].kind = "limit_again" /\ call[t].old_limit >= call[t].limit
             => Within(call[t].old_limit)

\* Two handles that have the same temporary file.
OneFile(g, h) ==
    /\ g # h /\ Exists(h) /\ ~OnDisk(h)
    /\ handle[g].block_id = handle[h].block_id
    /\ ~handle[g].can_destroy /\ ~handle[h].can_destroy

\* They are the ones that shared records.
SharedInv == \A g, h \in Handles : OneFile(g, h) => h \in shared

\* Only buffers that no table owns, and that are not found in the map of blocks, are
\* forgotten when they are evicted; blocks of the file are not written.
OwnerInv ==
    /\ \A b \in DiskBlocks : blocks[b] # None => handle[blocks[b]].block_id = b
    /\ \A h \in Handles : OnDisk(h) => /\ ~handle[h].can_destroy
                                       /\ latest[h] = <<handle[h].block_id, 0>>
    /\ \A h \in owned : ~handle[h].can_destroy


-----------------------------------------------------------------------------
(***************************************************************************)
(* Counting.                                                               *)
(***************************************************************************)
LEMMA CountAdded ==
    ASSUME NEW S, IsFiniteSet(S), NEW x, x \notin S
    PROVE  /\ IsFiniteSet(S \cup {x})
           /\ Cardinality(S \cup {x}) = Cardinality(S) + 1
BY FS_AddElement

LEMMA CountRemoved ==
    ASSUME NEW S, IsFiniteSet(S), NEW x, x \in S
    PROVE  /\ IsFiniteSet(S \ {x})
           /\ Cardinality(S \ {x}) = Cardinality(S) - 1
           /\ Cardinality(S) >= 1
<1>1. IsFiniteSet(S \ {x}) /\ Cardinality(S \ {x}) = Cardinality(S) - 1
    BY FS_RemoveElement
<1>2. Cardinality(S) \in Nat /\ Cardinality(S \ {x}) \in Nat
    BY <1>1, FS_CardinalityType
<1> QED
    BY <1>1, <1>2

\* The sets that are counted are finite.
LEMMA CountedFinite ==
    /\ IsFiniteSet(Loaded) /\ Cardinality(Loaded) \in Nat
    /\ IsFiniteSet(Reserved) /\ Cardinality(Reserved) \in Nat
    /\ \A h : IsFiniteSet(Pinners(h)) /\ Cardinality(Pinners(h)) \in Nat
<1>1. Loaded \in SUBSET Handles /\ Reserved \in SUBSET Threads
    BY DEF Loaded, Reserved
<1>2. \A h : Pinners(h) \in SUBSET Threads
    BY DEF Pinners
<1>3. IsFiniteSet(Handles) /\ IsFiniteSet(Threads)
    BY BufferAssumption
<1>4. IsFiniteSet(Loaded) /\ IsFiniteSet(Reserved) /\ \A h : IsFiniteSet(Pinners(h))
    BY <1>1, <1>2, <1>3, FS_Subset
<1> QED
    BY <1>4, FS_CardinalityType

\* A block with a BufferHandle has a reader, and one with a single reader has no other.
LEMMA PinnedIsRead ==
    ASSUME StructInv, NEW t \in Threads, NEW h \in Handles, h \in pins[t]
    PROVE  /\ handle[h].readers >= 1
           /\ handle[h].readers = 1 => Pinners(h) = {t}
<1>1. t \in Pinners(h) /\ IsFiniteSet(Pinners(h))
    BY CountedFinite DEF Pinners
<1>2. Cardinality(Pinners(h)) >= 1
    BY <1>1, CountRemoved
<1>3. Cardinality(Pinners(h)) = 1 => Pinners(h) = {t}
    BY <1>1, FS_Singleton
<1> QED
    BY <1>2, <1>3 DEF StructInv, ReadersInv

\* What can be evicted has no BufferHandle.
LEMMA UnreadIsUnpinned ==
    ASSUME StructInv, NEW t \in Threads, NEW h \in Handles, handle[h].readers = 0
    PROVE  h \notin pins[t]
BY PinnedIsRead

-----------------------------------------------------------------------------
(***************************************************************************)
(* Types.                                                                  *)
(***************************************************************************)
\* TypeOK, but that current_memory is not negative, which takes counting.
ShapeOK ==
    /\ handle \in [Handles -> HandleObjects]
    /\ owned \subseteq Handles
    /\ pins \in [Threads -> SUBSET Handles]
    /\ blocks \in [DiskBlocks -> Handles \cup {None}]
    /\ queue \subseteq [handle : Handles, timestamp : Nat]
    /\ file \in [TemporaryIds -> Contents \cup {None}]
    /\ temporary_id \in 0 .. MaxTemporary
    /\ current_memory \in Int
    /\ maximum_memory \in Nat
    /\ manager_lock \in Threads \cup {None}
    /\ call \in [Threads -> Calls]
    /\ latest \in [Handles -> Contents \cup {None}]
    /\ shared \subseteq Handles
    /\ stale \in BOOLEAN

\* No object, the handles that are made, and no call have their types.
LEMMA ConstructorTypes ==
    /\ NoObject \in HandleObjects
    /\ \A b \in DiskBlocks : BlockHandle(b) \in HandleObjects
    /\ \A id \in TemporaryIds, c \in Contents :
         /\ MemoryHandle(id, TRUE, c, 1) \in HandleObjects
         /\ MemoryHandle(id, FALSE, c, 0) \in HandleObjects
    /\ Idle \in Calls
    /\ Idle.kind = "none" /\ Idle.pc = "idle" /\ Idle.target = None /\ Idle.victim = None
<1>1. NoObject \in HandleObjects /\ \A b \in DiskBlocks : BlockHandle(b) \in HandleObjects
    BY BufferAssumption DEF NoObject, BlockHandle, HandleObjects, BlockIds
<1>2. ASSUME NEW id \in TemporaryIds, NEW c \in Contents
      PROVE  /\ MemoryHandle(id, TRUE, c, 1) \in HandleObjects
             /\ MemoryHandle(id, FALSE, c, 0) \in HandleObjects
    BY BufferAssumption DEF NoObject, MemoryHandle, HandleObjects, BlockIds
<1>3. Idle \in Calls
    BY BufferAssumption DEF Idle, Calls, Kinds
<1>4. Idle.kind = "none" /\ Idle.pc = "idle" /\ Idle.target = None /\ Idle.victim = None
    BY DEF Idle
<1> QED
    BY <1>1, <1>2, <1>3, <1>4

\* What a step does to the calls: only t's changes, to one with these fields.
CallStep(t, kind, pc, target, victim) ==
    /\ \A u \in Threads \ {t} : call'[u] = call[u]
    /\ call'[t].kind = kind /\ call'[t].pc = pc
    /\ call'[t].target = target /\ call'[t].victim = victim
Moved(t, pc) ==
    /\ CallStep(t, call[t].kind, pc, call[t].target, call[t].victim)
    /\ call'[t].limit = call[t].limit /\ call'[t].old_limit = call[t].old_limit
Ended(t) == CallStep(t, "none", "idle", None, None)
\* A call goes on after a handle was let go.
GoesOn(t, pc) ==
    \/ pc = "idle" /\ Ended(t)
    \/ /\ pc = "check"
       /\ CallStep(t, call[t].kind, "check", call[t].target, None)
       /\ call'[t].limit = call[t].limit /\ call'[t].old_limit = call[t].old_limit
\* What it does to the handles: only h changes, to an object with these fields.
HandleStep(h, id, can_destroy, loaded, buffer, readers, timestamp, lock) ==
    /\ \A g \in Handles \ {h} : handle'[g] = handle[g]
    /\ handle'[h].block_id = id /\ handle'[h].can_destroy = can_destroy
    /\ handle'[h].loaded = loaded /\ handle'[h].buffer = buffer
    /\ handle'[h].readers = readers /\ handle'[h].eviction_timestamp = timestamp
    /\ handle'[h].lock = lock

HandleGone(h) ==
    /\ \A g \in Handles \ {h} : handle'[g] = handle[g]
    /\ handle'[h] = NoObject
PinsStep(t, S) == (\A u \in Threads \ {t} : pins'[u] = pins[u]) /\ pins'[t] = S
LatestStep(h, v) == (\A g \in Handles \ {h} : latest'[g] = latest[g]) /\ latest'[h] = v

\* These are what the assignments of the actions do.
LEMMA Assignments ==
    ASSUME StructInv, NEW t \in Threads, NEW h \in Handles
    PROVE  /\ handle' = [handle EXCEPT ![h] = NoObject] => HandleGone(h)
           /\ \A S : pins' = [pins EXCEPT ![t] = S] => PinsStep(t, S)
           /\ \A v : latest' = [latest EXCEPT ![h] = v] => LatestStep(h, v)
BY DEF StructInv, TypeOK, HandleGone, PinsStep, LatestStep

LEMMA GotoUpdate ==
    ASSUME call \in [Threads -> Calls], NEW t \in Threads,
           NEW pc \in {"check", "dequeue", "load", "number", "set"},
           call' = [call EXCEPT ![t].pc = pc]
    PROVE  call' \in [Threads -> Calls] /\ Moved(t, pc)
BY DEF Moved, CallStep, Calls

LEMMA StoreUpdate ==
    ASSUME call \in [Threads -> Calls], NEW t \in Threads, NEW id \in 0 .. MaxTemporary,
           call' = [call EXCEPT ![t].pc = "store", ![t].id = id]
    PROVE  call' \in [Threads -> Calls] /\ Moved(t, "store") /\ call'[t].id = id
<1>1. PICK r \in Calls : r = call[t]
    OBVIOUS
<1>2. PICK s : s = [r EXCEPT !.pc = "store", !.id = id]
    OBVIOUS
<1>3. /\ s \in Calls /\ s.kind = r.kind /\ s.pc = "store" /\ s.id = id
      /\ s.target = r.target /\ s.victim = r.victim
      /\ s.limit = r.limit /\ s.old_limit = r.old_limit
    BY <1>2 DEF Calls
<1>4. call' = [call EXCEPT ![t] = s]
    BY <1>1, <1>2
<1> QED
    BY <1>1, <1>3, <1>4 DEF Moved, CallStep

LEMMA CheckUpdate ==
    ASSUME call \in [Threads -> Calls], NEW t \in Threads,
           call' = [call EXCEPT ![t] = [@ EXCEPT !.pc = "check", !.victim = None]]
    PROVE  call' \in [Threads -> Calls] /\ GoesOn(t, "check")
<1>1. PICK r \in Calls : r = call[t]
    OBVIOUS
<1>2. PICK s : s = [r EXCEPT !.pc = "check", !.victim = None]
    OBVIOUS
<1>3. /\ s \in Calls /\ s.kind = r.kind /\ s.pc = "check"
      /\ s.target = r.target /\ s.victim = None
      /\ s.limit = r.limit /\ s.old_limit = r.old_limit
    BY <1>2 DEF Calls
<1>4. call' = [call EXCEPT ![t] = s]
    BY <1>1, <1>2
<1> QED
    BY <1>1, <1>3, <1>4 DEF GoesOn, CallStep

LEMMA UnregisterUpdate ==
    ASSUME call \in [Threads -> Calls], NEW t \in Threads, NEW h \in Handles,
           NEW pc \in {"idle", "check"},
           call' = [call EXCEPT ![t] = [@ EXCEPT !.pc = "unregister", !.victim = h,
                                                 !.then = pc]]
    PROVE  /\ call' \in [Threads -> Calls]
           /\ CallStep(t, call[t].kind, "unregister", call[t].target, h)
           /\ call'[t].then = pc
           /\ call'[t].limit = call[t].limit /\ call'[t].old_limit = call[t].old_limit
<1>1. PICK r \in Calls : r = call[t]
    OBVIOUS
<1>2. PICK s : s = [r EXCEPT !.pc = "unregister", !.victim = h, !.then = pc]
    OBVIOUS
<1>3. /\ s \in Calls /\ s.kind = r.kind /\ s.pc = "unregister" /\ s.then = pc
      /\ s.target = r.target /\ s.victim = h
      /\ s.limit = r.limit /\ s.old_limit = r.old_limit
    BY <1>2 DEF Calls
<1>4. call' = [call EXCEPT ![t] = s]
    BY <1>1, <1>2
<1> QED
    BY <1>1, <1>3, <1>4 DEF CallStep

LEMMA PinnedUpdate ==
    ASSUME handle \in [Handles -> HandleObjects], NEW h \in Handles,
           handle' = [handle EXCEPT ![h].readers = @ + 1]
    PROVE  /\ handle' \in [Handles -> HandleObjects]
           /\ HandleStep(h, handle[h].block_id, handle[h].can_destroy, handle[h].loaded,
                         handle[h].buffer, handle[h].readers + 1,
                         handle[h].eviction_timestamp, handle[h].lock)
<1>1. PICK r \in HandleObjects : r = handle[h]
    OBVIOUS
<1>2. PICK s : s = [r EXCEPT !.readers = @ + 1]
    OBVIOUS
<1>3. /\ s \in HandleObjects /\ s.block_id = r.block_id /\ s.can_destroy = r.can_destroy
      /\ s.loaded = r.loaded /\ s.buffer = r.buffer /\ s.readers = r.readers + 1
      /\ s.eviction_timestamp = r.eviction_timestamp /\ s.lock = r.lock
    BY <1>2 DEF HandleObjects
<1>4. handle' = [handle EXCEPT ![h] = s]
    BY <1>1, <1>2
<1> QED
    BY <1>1, <1>3, <1>4 DEF HandleStep

LEMMA UnloadUpdate ==
    ASSUME handle \in [Handles -> HandleObjects], NEW h \in Handles,
           handle' = [handle EXCEPT ![h].loaded = FALSE, ![h].buffer = None]
    PROVE  /\ handle' \in [Handles -> HandleObjects]
           /\ HandleStep(h, handle[h].block_id, handle[h].can_destroy, FALSE, None,
                         handle[h].readers, handle[h].eviction_timestamp, handle[h].lock)
<1>1. PICK r \in HandleObjects : r = handle[h]
    OBVIOUS
<1>2. PICK s : s = [r EXCEPT !.loaded = FALSE, !.buffer = None]
    OBVIOUS
<1>3. /\ s \in HandleObjects /\ s.block_id = r.block_id /\ s.can_destroy = r.can_destroy
      /\ s.loaded = FALSE /\ s.buffer = None /\ s.readers = r.readers
      /\ s.eviction_timestamp = r.eviction_timestamp /\ s.lock = r.lock
    BY <1>2 DEF HandleObjects
<1>4. handle' = [handle EXCEPT ![h] = s]
    BY <1>1, <1>2
<1> QED
    BY <1>1, <1>3, <1>4 DEF HandleStep

-----------------------------------------------------------------------------
(***************************************************************************)
(* The steps, field by field.                                              *)
(***************************************************************************)
RegisteredAgain(t, h) ==
    /\ IsIdle(t) /\ Referenced(h) /\ \E b \in DiskBlocks : blocks[b] = h
    /\ owned' = owned \cup {h}
    /\ UNCHANGED <<handle, pins, blocks, queue, file, temporary_id, memory, manager_lock,
                   call, latest, shared, stale>>

RegisteredFirst(t, b, h) ==
    /\ IsIdle(t) /\ ~Exists(h)
    /\ HandleStep(h, b, FALSE, FALSE, None, 0, 0, None)
    /\ owned' = owned \cup {h}
    /\ (\A c \in DiskBlocks \ {b} : blocks'[c] = blocks[c]) /\ blocks'[b] = h
    /\ LatestStep(h, <<b, 0>>)
    /\ UNCHANGED <<pins, queue, file, temporary_id, memory, manager_lock, call, shared, stale>>

MemoryStarted(t, kind) ==
    /\ IsIdle(t)
    /\ CallStep(t, kind, "reserve", None, None)
    /\ call'[t].limit = maximum_memory
    /\ UNCHANGED <<handle, owned, pins, blocks, queue, file, temporary_id, memory,
                   manager_lock, latest, shared, stale>>

Numbered(t) ==
    /\ At(t, "number")
    /\ Moved(t, "store")
    /\ call'[t].id = temporary_id + 1 /\ temporary_id + 1 \in TemporaryIds
    /\ UNCHANGED <<handle, owned, pins, blocks, queue, file, temporary_id, memory,
                   manager_lock, latest, shared, stale>>

OnceCreated(t, h) ==
    /\ At(t, "store") /\ call[t].kind = "once" /\ ~Exists(h)
    /\ temporary_id' = call[t].id
    /\ HandleStep(h, call[t].id, TRUE, TRUE, <<h, 0>>, 1, 0, None)
    /\ LatestStep(h, <<h, 0>>)
    /\ PinsStep(t, pins[t] \cup {h})
    /\ Ended(t)
    /\ UNCHANGED <<owned, blocks, queue, file, memory, manager_lock, shared, stale>>

TemporaryCreated(t, h) ==
    /\ At(t, "store") /\ call[t].kind = "temporary" /\ ~Exists(h)
    /\ temporary_id' = call[t].id
    /\ HandleStep(h, call[t].id, FALSE, TRUE, <<h, 0>>, 0, 0, None)
    /\ LatestStep(h, <<h, 0>>)
    /\ owned' = owned \cup {h}
    /\ shared' = IF FileOf(call[t].id) = {} THEN shared ELSE shared \cup FileOf(call[t].id) \cup {h}
    /\ Ended(t)
    /\ UNCHANGED <<pins, blocks, queue, file, memory, manager_lock, stale>>

PinnedLoaded(t, h) ==
    /\ IsIdle(t) /\ h \in owned /\ h \notin pins[t]
    /\ handle[h].lock = None /\ handle[h].loaded
    /\ HandleStep(h, handle[h].block_id, handle[h].can_destroy, TRUE, handle[h].buffer,
                  handle[h].readers + 1, handle[h].eviction_timestamp, None)
    /\ PinsStep(t, pins[t] \cup {h})
    /\ UNCHANGED <<owned, blocks, queue, file, temporary_id, memory, manager_lock, call,
                   latest, shared, stale>>

PinStarted(t, h) ==
    /\ IsIdle(t) /\ h \in owned
    /\ handle[h].lock = None /\ ~handle[h].loaded
    /\ HandleStep(h, handle[h].block_id, handle[h].can_destroy, FALSE, handle[h].buffer,
                  handle[h].readers, handle[h].eviction_timestamp, t)
    /\ CallStep(t, "pin", "reserve", h, None)
    /\ call'[t].limit = maximum_memory
    /\ UNCHANGED <<owned, pins, blocks, queue, file, temporary_id, memory, manager_lock,
                   latest, shared, stale>>

TargetLoaded(t, h) ==
    /\ At(t, "load") /\ h = call[t].target
    /\ HandleStep(h, handle[h].block_id, handle[h].can_destroy, TRUE,
                  IF OnDisk(h) THEN <<handle[h].block_id, 0>> ELSE file[handle[h].block_id],
                  1, handle[h].eviction_timestamp, None)
    /\ PinsStep(t, pins[t] \cup {h})
    /\ Ended(t)
    /\ UNCHANGED <<owned, blocks, queue, file, temporary_id, memory, manager_lock, latest,
                   shared, stale>>

Written(t, h) ==
    /\ IsIdle(t) /\ h \in pins[t] /\ ~OnDisk(h)
    /\ LatestStep(h, <<h, 1>>)
    /\ HandleStep(h, handle[h].block_id, handle[h].can_destroy, handle[h].loaded, <<h, 1>>,
                  handle[h].readers, handle[h].eviction_timestamp, handle[h].lock)
    /\ UNCHANGED <<owned, pins, blocks, queue, file, temporary_id, memory, manager_lock,
                   call, shared, stale>>

\* One of the BufferHandles of h is gone, the last one or another.
Unpinned(t, h, readers, timestamp) ==
    /\ IsIdle(t) /\ h \in pins[t]
    /\ HandleStep(h, handle[h].block_id, handle[h].can_destroy, handle[h].loaded,
                  handle[h].buffer, readers, timestamp, handle[h].lock)
    /\ PinsStep(t, pins[t] \ {h})
    /\ CallStep(t, "drop", "drop", h, None)
    /\ UNCHANGED <<owned, blocks, file, temporary_id, memory, manager_lock, latest, shared, stale>>
UnpinnedLast(t, h) ==
    /\ handle[h].readers = 1
    /\ Unpinned(t, h, 0, NextTimestamp(h))
    /\ NextTimestamp(h) \in Nat
    /\ queue' = queue \cup {[handle |-> h, timestamp |-> NextTimestamp(h)]}
UnpinnedOne(t, h) ==
    /\ handle[h].readers # 1
    /\ Unpinned(t, h, handle[h].readers - 1, handle[h].eviction_timestamp)
    /\ UNCHANGED queue

OwnerDrops(t, h) ==
    /\ IsIdle(t) /\ h \in owned
    /\ \A u \in Threads : call[u].kind = "pin" => call[u].target # h
    /\ owned' = owned \ {h}
    /\ CallStep(t, "drop", "drop", h, None)
    /\ UNCHANGED <<handle, pins, blocks, queue, file, temporary_id, memory, manager_lock,
                   latest, shared, stale>>

\* How t comes to let go of h.
LetsGo(t, h, pc) ==
    \/ At(t, "drop") /\ h = call[t].target /\ pc = "idle"
    \/ At(t, "release") /\ h = call[t].victim /\ pc = "check"

Kept(t, h, pc) ==
    /\ LetsGo(t, h, pc) /\ HeldBesides(t, h)
    /\ GoesOn(t, pc)
    /\ UNCHANGED <<handle, owned, pins, blocks, queue, file, temporary_id, memory,
                   manager_lock, latest, shared, stale>>

Destroyed(t, h, pc) ==
    /\ LetsGo(t, h, pc) /\ ~HeldBesides(t, h) /\ ~OnDisk(h)
    /\ GoesOn(t, pc)
    /\ current_memory' = current_memory - FreedMemory(h)
    /\ queue' = {node \in queue : node.handle # h}
    /\ DeleteTemporaryFile(h)
    /\ shared' = shared \ {h}
    /\ HandleGone(h)
    /\ LatestStep(h, None)
    /\ UNCHANGED <<owned, pins, blocks, temporary_id, maximum_memory, manager_lock, stale>>

Destructing(t, h, pc) ==
    /\ LetsGo(t, h, pc) /\ ~HeldBesides(t, h) /\ OnDisk(h)
    /\ CallStep(t, call[t].kind, "unregister", call[t].target, h)
    /\ call'[t].then = pc
    /\ call'[t].limit = call[t].limit /\ call'[t].old_limit = call[t].old_limit
    /\ current_memory' = current_memory - FreedMemory(h)
    /\ queue' = {node \in queue : node.handle # h}
    /\ HandleStep(h, handle[h].block_id, handle[h].can_destroy, FALSE, None,
                  handle[h].readers, handle[h].eviction_timestamp, handle[h].lock)
    /\ UNCHANGED <<owned, pins, blocks, file, temporary_id, maximum_memory, manager_lock,
                   latest, shared, stale>>

Unregistered(t, h) ==
    /\ At(t, "unregister") /\ h = call[t].victim
    /\ GoesOn(t, call[t].then)
    /\ HandleGone(h)
    /\ \A c \in DiskBlocks : blocks'[c] = IF c = handle[h].block_id THEN None ELSE blocks[c]
    /\ LatestStep(h, None)
    /\ UNCHANGED <<owned, pins, queue, file, temporary_id, memory, manager_lock, shared, stale>>

MemoryReserved(t) ==
    /\ At(t, "reserve")
    /\ Moved(t, "check")
    /\ current_memory' = current_memory + 1
    /\ stale' = (stale \/ /\ call[t].limit > maximum_memory
                          /\ \A u \in Threads : call[u].kind = "limit_again"
                                                   => call[u].old_limit < call[t].limit)
    /\ UNCHANGED <<handle, owned, pins, blocks, queue, file, temporary_id, maximum_memory,
                   manager_lock, latest, shared>>

\* Where EvictBlocks lets a call pass to.
Passes(kind) == CASE kind = "pin" -> "load" [] kind \in {"temporary", "once"} -> "number"
                  [] kind = "limit" -> "set" [] OTHER -> "idle"

LimitExceeded(t) ==
    /\ At(t, "check") /\ current_memory > call[t].limit
    /\ Moved(t, "dequeue")
    /\ UNCHANGED <<handle, owned, pins, blocks, queue, file, temporary_id, memory,
                   manager_lock, latest, shared, stale>>
RoomFound(t) ==
    /\ At(t, "check") /\ current_memory <= call[t].limit
    /\ call[t].kind \in {"pin", "temporary", "once", "limit"}
    /\ Moved(t, Passes(call[t].kind))
    /\ UNCHANGED <<handle, owned, pins, blocks, queue, file, temporary_id, memory,
                   manager_lock, latest, shared, stale>>
LimitSet(t) ==
    /\ At(t, "check") /\ current_memory <= call[t].limit
    /\ call[t].kind = "limit_again"
    /\ Ended(t)
    /\ manager_lock' = IF manager_lock = t THEN None ELSE manager_lock
    /\ UNCHANGED <<handle, owned, pins, blocks, queue, file, temporary_id, memory, latest,
                   shared, stale>>

Refused(t) ==
    /\ At(t, "dequeue")
    /\ Ended(t)
    /\ current_memory' = current_memory - Extra(t)
    /\ maximum_memory' = IF call[t].kind = "limit_again" THEN call[t].old_limit
                                                         ELSE maximum_memory
    /\ stale' = (stale \/ /\ call[t].kind = "limit_again"
                          /\ call[t].old_limit < call[t].limit)
    /\ manager_lock' = IF manager_lock = t THEN None ELSE manager_lock
    /\ IF call[t].kind = "pin"
         THEN LET h == call[t].target
              IN  HandleStep(h, handle[h].block_id, handle[h].can_destroy, handle[h].loaded,
                             handle[h].buffer, handle[h].readers,
                             handle[h].eviction_timestamp, None)
         ELSE handle' = handle
    /\ UNCHANGED <<owned, pins, blocks, queue, file, temporary_id, latest, shared>>

VictimChosen(t, h, timestamp) ==
    /\ At(t, "dequeue") /\ CanUnload(h, timestamp)
    /\ CallStep(t, call[t].kind, "victim", call[t].target, h)
    /\ call'[t].timestamp = timestamp
    /\ call'[t].limit = call[t].limit /\ call'[t].old_limit = call[t].old_limit
    /\ queue' = queue \ {[handle |-> h, timestamp |-> timestamp]}
    /\ UNCHANGED <<handle, owned, pins, blocks, file, temporary_id, memory, manager_lock,
                   latest, shared, stale>>
NodeSkipped(t, h, timestamp) ==
    /\ At(t, "dequeue") /\ ~CanUnload(h, timestamp)
    /\ Moved(t, "check")
    /\ queue' = queue \ {[handle |-> h, timestamp |-> timestamp]}
    /\ UNCHANGED <<handle, owned, pins, blocks, file, temporary_id, memory, manager_lock,
                   latest, shared, stale>>

VictimSpared(t) ==
    /\ At(t, "victim") /\ ~StillUnloadable(t)
    /\ Moved(t, "release")
    /\ UNCHANGED <<handle, owned, pins, blocks, queue, file, temporary_id, memory,
                   manager_lock, latest, shared, stale>>
VictimUnloaded(t, h) ==
    /\ At(t, "victim") /\ h = call[t].victim /\ handle[h].lock = None
    /\ handle[h].loaded /\ handle[h].readers = 0
    /\ Moved(t, "release")
    /\ HandleStep(h, handle[h].block_id, handle[h].can_destroy, FALSE, None, 0,
                  handle[h].eviction_timestamp, None)
    /\ current_memory' = current_memory - 1
    /\ WriteTemporaryBuffer(h)
    /\ UNCHANGED <<owned, pins, blocks, queue, temporary_id, maximum_memory, manager_lock,
                   latest, shared, stale>>

LimitChanged(t) ==
    /\ At(t, "set")
    /\ CallStep(t, "limit_again", "check", call[t].target, call[t].victim)
    /\ call'[t].limit = call[t].limit /\ call'[t].old_limit = maximum_memory
    /\ maximum_memory' = call[t].limit
    /\ UNCHANGED <<handle, owned, pins, blocks, queue, file, temporary_id, current_memory,
                   manager_lock, latest, shared, stale>>
LimitStarted(t) ==
    /\ IsIdle(t) /\ manager_lock = None
    /\ CallStep(t, "limit", "check", None, None)
    /\ manager_lock' = t
    /\ UNCHANGED <<handle, owned, pins, blocks, queue, file, temporary_id, memory, latest,
                   shared, stale>>

LEMMA RegisterBlockStep ==
    ASSUME StructInv, NEW t \in Threads, NEW b \in DiskBlocks, RegisterBlock(t, b)
    PROVE  /\ ShapeOK'
           /\ \E h \in Handles : RegisteredAgain(t, h) \/ RegisteredFirst(t, b, h)
<1> USE DEF StructInv, TypeOK
<1>1. CASE blocks[b] # None /\ Referenced(blocks[b])
    <2>1. blocks[b] \in Handles /\ RegisteredAgain(t, blocks[b])
        BY <1>1 DEF RegisterBlock, RegisteredAgain
    <2>2. ShapeOK'
        BY <2>1 DEF RegisteredAgain, ShapeOK, memory
    <2> QED
        BY <2>1, <2>2
<1>2. CASE ~(blocks[b] # None /\ Referenced(blocks[b]))
    <2>1. PICK h \in Handles :
            /\ ~Exists(h)
            /\ handle' = [handle EXCEPT ![h] = BlockHandle(b)]
            /\ blocks' = [blocks EXCEPT ![b] = h]
            /\ owned' = owned \cup {h}
            /\ latest' = [latest EXCEPT ![h] = <<b, 0>>]
        BY <1>2 DEF RegisterBlock
    <2>2. ShapeOK'
        BY <2>1, ConstructorTypes DEF RegisterBlock, ShapeOK, memory, Contents
    <2>3. HandleStep(h, b, FALSE, FALSE, None, 0, 0, None)
        BY <2>1 DEF HandleStep, BlockHandle, NoObject
    <2>4. RegisteredFirst(t, b, h)
        BY <2>1, <2>3, Assignments DEF RegisterBlock, RegisteredFirst
    <2> QED
        BY <2>2, <2>4
<1> QED
    BY <1>1, <1>2

LEMMA RegisterMemoryStep ==
    ASSUME StructInv, NEW t \in Threads, NEW kind \in {"temporary", "once"},
           RegisterMemory(t, kind)
    PROVE  ShapeOK' /\ MemoryStarted(t, kind)
<1>1. call \in [Threads -> Calls] /\ maximum_memory \in Nat
    BY DEF StructInv, TypeOK
<1>2. call' = [call EXCEPT ![t] = [Idle EXCEPT !.kind = kind, !.pc = "reserve",
                                               !.limit = maximum_memory]]
    BY DEF RegisterMemory
<1>3. /\ call' \in [Threads -> Calls]
      /\ CallStep(t, kind, "reserve", None, None) /\ call'[t].limit = maximum_memory
    BY <1>1, <1>2, ConstructorTypes DEF CallStep, Calls, Kinds
<1>4. ShapeOK'
    BY <1>3 DEF RegisterMemory, ShapeOK, memory, StructInv, TypeOK
<1> QED
    BY <1>3, <1>4 DEF RegisterMemory, MemoryStarted

LEMMA ReadTemporaryIdStep ==
    ASSUME StructInv, NEW t \in Threads, ReadTemporaryId(t)
    PROVE  ShapeOK' /\ Numbered(t)
<1>1. temporary_id + 1 \in TemporaryIds /\ temporary_id + 1 \in 0 .. MaxTemporary
    BY BufferAssumption DEF ReadTemporaryId, TemporaryIds, StructInv, TypeOK
<1>0. call \in [Threads -> Calls]
    BY DEF StructInv, TypeOK
<1>2. call' \in [Threads -> Calls] /\ Moved(t, "store") /\ call'[t].id = temporary_id + 1
    BY <1>0, <1>1, StoreUpdate DEF ReadTemporaryId
<1> USE DEF StructInv, TypeOK
<1>3. ShapeOK'
    BY <1>2 DEF ReadTemporaryId, ShapeOK, memory
<1> QED
    BY <1>1, <1>2, <1>3 DEF ReadTemporaryId, Numbered

LEMMA CreateMemoryStep ==
    ASSUME StructInv, NEW t \in Threads, CreateMemory(t)
    PROVE  ShapeOK' /\ \E h \in Handles : OnceCreated(t, h) \/ TemporaryCreated(t, h)
<1> USE BufferAssumption DEF StructInv, TypeOK
<1>1. PICK h \in Handles :
        /\ ~Exists(h)
        /\ handle' = [handle EXCEPT ![h] =
             IF call[t].kind = "once" THEN MemoryHandle(call[t].id, TRUE, <<h, 0>>, 1)
                                      ELSE MemoryHandle(call[t].id, FALSE, <<h, 0>>, 0)]
        /\ latest' = [latest EXCEPT ![h] = <<h, 0>>]
        /\ IF call[t].kind = "once"
             THEN pins' = [pins EXCEPT ![t] = @ \cup {h}] /\ UNCHANGED owned
             ELSE owned' = owned \cup {h} /\ UNCHANGED pins
        /\ shared' = IF call[t].kind = "once" \/ FileOf(call[t].id) = {} THEN shared
                     ELSE shared \cup FileOf(call[t].id) \cup {h}
    BY DEF CreateMemory
<1>2. call[t].id \in TemporaryIds /\ call[t].kind \in {"temporary", "once"} /\ At(t, "store")
    BY DEF CreateMemory, PlaceInv, At
<1>3. <<h, 0>> \in Contents
    BY DEF Contents
<1>4. /\ MemoryHandle(call[t].id, TRUE, <<h, 0>>, 1) \in HandleObjects
      /\ MemoryHandle(call[t].id, FALSE, <<h, 0>>, 0) \in HandleObjects
      /\ call[t].id \in 0 .. MaxTemporary
    <2>1. call[t].id \in 0 .. MaxTemporary
        BY <1>2 DEF TemporaryIds
    <2> QED
        BY <1>2, <1>3, <2>1, ConstructorTypes
<1>5. Ended(t) /\ call' \in [Threads -> Calls]
    BY ConstructorTypes DEF CreateMemory, Ended, CallStep
<1>8. temporary_id' = call[t].id /\ UNCHANGED <<blocks, queue, file, memory, manager_lock, stale>>
    BY DEF CreateMemory
<1>6. CASE call[t].kind = "once"
    <2>1. handle' = [handle EXCEPT ![h] = MemoryHandle(call[t].id, TRUE, <<h, 0>>, 1)]
        BY <1>1, <1>6
    <2>2. HandleStep(h, call[t].id, TRUE, TRUE, <<h, 0>>, 1, 0, None)
        BY <2>1 DEF HandleStep, MemoryHandle, NoObject
    <2>3. handle' \in [Handles -> HandleObjects]
        BY <1>4, <2>1
    <2>5. /\ latest' = [latest EXCEPT ![h] = <<h, 0>>]
          /\ pins' = [pins EXCEPT ![t] = @ \cup {h}] /\ owned' = owned
          /\ shared' = shared
        BY <1>1, <1>6
    <2>4. ShapeOK'
        BY <1>3, <1>4, <1>5, <1>8, <2>3, <2>5 DEF ShapeOK, memory
    <2> QED
        BY <1>1, <1>2, <1>5, <1>6, <2>2, <2>4, Assignments DEF CreateMemory, OnceCreated
<1>7. CASE call[t].kind = "temporary"
    <2>1. handle' = [handle EXCEPT ![h] = MemoryHandle(call[t].id, FALSE, <<h, 0>>, 0)]
        BY <1>1, <1>7
    <2>2. HandleStep(h, call[t].id, FALSE, TRUE, <<h, 0>>, 0, 0, None)
        BY <2>1 DEF HandleStep, MemoryHandle, NoObject
    <2>3. handle' \in [Handles -> HandleObjects]
        BY <1>4, <2>1
    <2>5. /\ latest' = [latest EXCEPT ![h] = <<h, 0>>]
          /\ owned' = owned \cup {h} /\ pins' = pins
          /\ shared' = IF FileOf(call[t].id) = {} THEN shared
                       ELSE shared \cup FileOf(call[t].id) \cup {h}
        BY <1>1, <1>7
    <2>6. shared' \subseteq Handles
        BY <2>5 DEF FileOf
    <2>4. ShapeOK'
        BY <1>3, <1>4, <1>5, <1>8, <2>3, <2>5, <2>6 DEF ShapeOK, memory
    <2> QED
        BY <1>1, <1>2, <1>5, <1>7, <1>8, <2>2, <2>4, <2>5, Assignments
        DEF CreateMemory, TemporaryCreated
<1> QED
    BY <1>2, <1>6, <1>7

LEMMA PinStep ==
    ASSUME StructInv, NEW t \in Threads, NEW h \in Handles, Pin(t, h)
    PROVE  ShapeOK' /\ (PinnedLoaded(t, h) \/ PinStarted(t, h))
<1> USE DEF StructInv, TypeOK
<1>0. /\ handle \in [Handles -> HandleObjects] /\ call \in [Threads -> Calls]
      /\ maximum_memory \in Nat
    OBVIOUS
<1>1. CASE handle[h].loaded
    <2>1. handle' = [handle EXCEPT ![h].readers = @ + 1]
        BY <1>1 DEF Pin
    <2>4. /\ pins' = [pins EXCEPT ![t] = @ \cup {h}]
          /\ handle[h].lock = None
          /\ UNCHANGED <<owned, blocks, queue, file, temporary_id, memory, manager_lock,
                         call, latest, shared, stale>>
        BY <1>1 DEF Pin
    <2>2. /\ handle' \in [Handles -> HandleObjects]
          /\ HandleStep(h, handle[h].block_id, handle[h].can_destroy, handle[h].loaded,
                  handle[h].buffer, handle[h].readers + 1, handle[h].eviction_timestamp,
                  handle[h].lock)
        BY <1>0, <2>1, PinnedUpdate
    <2>3. ShapeOK'
        BY <2>2, <2>4 DEF ShapeOK, memory
    <2> QED
        BY <1>1, <2>4, <2>2, <2>3, Assignments DEF Pin, PinnedLoaded, HandleStep
<1>2. CASE ~handle[h].loaded
    <2>1. /\ handle' = [handle EXCEPT ![h].lock = t]
          /\ call' = [call EXCEPT ![t] = [Idle EXCEPT !.kind = "pin", !.pc = "reserve",
                                            !.target = h, !.limit = maximum_memory]]
          /\ UNCHANGED <<owned, pins, blocks, queue, file, temporary_id, memory,
                         manager_lock, latest, shared, stale>>
        BY <1>2 DEF Pin
    <2>2. /\ handle' \in [Handles -> HandleObjects]
          /\ HandleStep(h, handle[h].block_id, handle[h].can_destroy, handle[h].loaded,
                  handle[h].buffer, handle[h].readers, handle[h].eviction_timestamp, t)
        BY <1>0, <2>1 DEF HandleObjects, HandleStep
    <2>3. /\ call' \in [Threads -> Calls]
          /\ CallStep(t, "pin", "reserve", h, None) /\ call'[t].limit = maximum_memory
        BY <1>0, <2>1, ConstructorTypes DEF CallStep, Calls, Kinds
    <2>4. ShapeOK'
        BY <2>1, <2>2, <2>3 DEF ShapeOK, memory
    <2> QED
        BY <1>2, <2>1, <2>2, <2>3, <2>4 DEF Pin, PinStarted, HandleStep
<1> QED
    BY <1>1, <1>2

LEMMA LoadStep ==
    ASSUME StructInv, ReliableFiles, NEW t \in Threads, Load(t)
    PROVE  ShapeOK' /\ \E h \in Handles : TargetLoaded(t, h)
<1> DEFINE h == call[t].target
           buffer == IF OnDisk(h) THEN <<handle[h].block_id, 0>> ELSE file[handle[h].block_id]
<1> USE DEF StructInv, TypeOK
<1>1. h \in Handles /\ Exists(h) /\ handle[h] \in HandleObjects
    BY DEF Load, PlaceInv, PinInv, LifeInv, At
<1>2. buffer \in Contents \cup {None}
    <2>1. CASE OnDisk(h)
        BY <2>1 DEF OnDisk, Contents
    <2>2. CASE ~OnDisk(h)
        <3>1. handle[h].block_id \in TemporaryIds
            BY <1>1, <2>2 DEF OnDisk, Exists, HandleObjects, BlockIds
        <3> QED
            BY <2>2, <3>1
    <2> QED
        BY <2>1, <2>2
<1>3. /\ handle' = [handle EXCEPT ![h] =
              [@ EXCEPT !.loaded = TRUE, !.readers = 1, !.lock = None, !.buffer = buffer]]
      /\ pins' = [pins EXCEPT ![t] = @ \cup {h}]
      /\ call' = [call EXCEPT ![t] = Idle]
      /\ UNCHANGED <<owned, blocks, queue, file, temporary_id, memory, manager_lock,
                     latest, shared, stale>>
    BY DEF Load, ReliableFiles
<1> HIDE DEF buffer, h
<1>0. handle \in [Handles -> HandleObjects]
    OBVIOUS
<1>4. /\ handle' \in [Handles -> HandleObjects]
      /\ HandleStep(h, handle[h].block_id, handle[h].can_destroy, TRUE, buffer, 1,
                    handle[h].eviction_timestamp, None)
    BY <1>0, <1>1, <1>2, <1>3 DEF HandleObjects, HandleStep
<1>5. Ended(t) /\ call' \in [Threads -> Calls]
    BY <1>3, ConstructorTypes DEF Ended, CallStep
<1>6. ShapeOK'
    BY <1>1, <1>3, <1>4, <1>5 DEF ShapeOK, memory
<1>7. At(t, "load") /\ h = call[t].target
    BY DEF Load, h
<1>9. PinsStep(t, pins[t] \cup {h})
    BY <1>1, <1>3, Assignments
<1>8. TargetLoaded(t, h)
    BY <1>3, <1>4, <1>5, <1>7, <1>9 DEF TargetLoaded, buffer
<1> QED
    BY <1>1, <1>6, <1>8

LEMMA WriteStep ==
    ASSUME StructInv, NEW t \in Threads, NEW h \in Handles, Write(t, h)
    PROVE  ShapeOK' /\ Written(t, h)
<1> USE DEF StructInv, TypeOK
<1>0. handle \in [Handles -> HandleObjects] /\ <<h, 1>> \in Contents
    BY DEF Contents
<1>1. handle' = [handle EXCEPT ![h].buffer = <<h, 1>>]
    BY DEF Write
<1>2. /\ handle' \in [Handles -> HandleObjects]
      /\ HandleStep(h, handle[h].block_id, handle[h].can_destroy, handle[h].loaded, <<h, 1>>,
                    handle[h].readers, handle[h].eviction_timestamp, handle[h].lock)
    BY <1>0, <1>1 DEF HandleObjects, HandleStep
<1>3. ShapeOK'
    BY <1>0, <1>2 DEF Write, ShapeOK, memory
<1> QED
    BY <1>2, <1>3, Assignments DEF Write, Written

LEMMA UnpinStep ==
    ASSUME StructInv, NEW t \in Threads, NEW h \in Handles, Unpin(t, h)
    PROVE  ShapeOK' /\ (UnpinnedLast(t, h) \/ UnpinnedOne(t, h))
<1> USE DEF StructInv, TypeOK
<1>0. handle \in [Handles -> HandleObjects] /\ call \in [Threads -> Calls]
    OBVIOUS
<1>1. /\ call' = [call EXCEPT ![t] = [Idle EXCEPT !.kind = "drop", !.pc = "drop", !.target = h]]
      /\ pins' = [pins EXCEPT ![t] = @ \ {h}]
      /\ IsIdle(t) /\ h \in pins[t]
      /\ UNCHANGED <<owned, blocks, file, temporary_id, memory, manager_lock, latest, shared, stale>>
    BY DEF Unpin
<1>2. call' \in [Threads -> Calls] /\ CallStep(t, "drop", "drop", h, None)
    BY <1>0, <1>1, ConstructorTypes DEF CallStep, Calls, Kinds
<1>3. CASE handle[h].readers = 1
    <2>1. /\ handle' = [handle EXCEPT ![h].readers = 0,
                                      ![h].eviction_timestamp = NextTimestamp(h)]
          /\ queue' = queue \cup {[handle |-> h, timestamp |-> NextTimestamp(h)]}
        BY <1>3 DEF Unpin, EnqueueNode
    <2>3. NextTimestamp(h) \in Nat
        BY <1>0, BufferAssumption DEF HandleObjects, NextTimestamp
    <2>2. /\ handle' \in [Handles -> HandleObjects]
          /\ HandleStep(h, handle[h].block_id, handle[h].can_destroy, handle[h].loaded,
                        handle[h].buffer, 0, NextTimestamp(h), handle[h].lock)
        BY <1>0, <2>1, <2>3 DEF HandleObjects, HandleStep
    <2>4. ShapeOK'
        BY <1>1, <1>2, <2>1, <2>2, <2>3 DEF ShapeOK, memory
    <2> QED
        BY <1>1, <1>2, <1>3, <2>1, <2>2, <2>3, <2>4, Assignments DEF Unpinned, UnpinnedLast
<1>4. CASE handle[h].readers # 1
    <2>1. handle' = [handle EXCEPT ![h].readers = @ - 1] /\ queue' = queue
        BY <1>4 DEF Unpin
    <2>2. handle[h].readers - 1 \in Nat
        BY <1>0, <1>1, PinnedIsRead DEF HandleObjects
    <2>3. /\ handle' \in [Handles -> HandleObjects]
          /\ HandleStep(h, handle[h].block_id, handle[h].can_destroy, handle[h].loaded,
                        handle[h].buffer, handle[h].readers - 1,
                        handle[h].eviction_timestamp, handle[h].lock)
        BY <1>0, <2>1, <2>2 DEF HandleObjects, HandleStep
    <2>4. ShapeOK'
        BY <1>1, <1>2, <2>1, <2>3 DEF ShapeOK, memory
    <2> QED
        BY <1>1, <1>2, <1>4, <2>1, <2>3, <2>4, Assignments DEF Unpinned, UnpinnedOne
<1> QED
    BY <1>3, <1>4

LEMMA DropOwnedStep ==
    ASSUME StructInv, NEW t \in Threads, NEW h \in Handles, DropOwned(t, h)
    PROVE  ShapeOK' /\ OwnerDrops(t, h)
<1> USE DEF StructInv, TypeOK
<1>0. call \in [Threads -> Calls]
    OBVIOUS
<1>1. call' = [call EXCEPT ![t] = [Idle EXCEPT !.kind = "drop", !.pc = "drop", !.target = h]]
    BY DEF DropOwned
<1>2. call' \in [Threads -> Calls] /\ CallStep(t, "drop", "drop", h, None)
    BY <1>0, <1>1, ConstructorTypes DEF CallStep, Calls, Kinds
<1>3. ShapeOK'
    BY <1>2 DEF DropOwned, ShapeOK, memory
<1> QED
    BY <1>2, <1>3 DEF DropOwned, OwnerDrops

LEMMA LetGoStep ==
    ASSUME StructInv, NEW t \in Threads, NEW h \in Handles, NEW pc, LetsGo(t, h, pc),
           LetGo(t, h, pc),
           UNCHANGED <<owned, pins, blocks, temporary_id, maximum_memory, manager_lock, stale>>
    PROVE  ShapeOK' /\ (Kept(t, h, pc) \/ Destroyed(t, h, pc) \/ Destructing(t, h, pc))
<1> USE DEF StructInv, TypeOK
<1>0. /\ handle \in [Handles -> HandleObjects] /\ call \in [Threads -> Calls]
      /\ handle[h] \in HandleObjects /\ pc \in {"idle", "check"} /\ Exists(h)
    BY DEF LetsGo, LifeInv, Holds, At
<1>1. ASSUME call' = [call EXCEPT ![t] = IF pc = "idle" THEN Idle
                                         ELSE [@ EXCEPT !.pc = pc, !.victim = None]]
      PROVE  call' \in [Threads -> Calls] /\ GoesOn(t, pc)
    <2>1. CASE pc = "idle"
        <3>1. call' = [call EXCEPT ![t] = Idle]
            BY <1>1, <2>1
        <3> QED
            BY <1>0, <2>1, <3>1, ConstructorTypes DEF GoesOn, Ended, CallStep
    <2>2. CASE pc = "check"
        <3>1. call' = [call EXCEPT ![t] = [@ EXCEPT !.pc = "check", !.victim = None]]
            BY <1>1, <2>2
        <3> QED
            BY <1>0, <2>2, <3>1, CheckUpdate
    <2> QED
        BY <1>0, <2>1, <2>2
<1>2. CASE HeldBesides(t, h)
    <2>1. /\ call' = [call EXCEPT ![t] = IF pc = "idle" THEN Idle
                                         ELSE [@ EXCEPT !.pc = pc, !.victim = None]]
          /\ UNCHANGED <<handle, queue, file, current_memory, latest, shared>>
        BY <1>2 DEF LetGo
    <2>2. call' \in [Threads -> Calls] /\ GoesOn(t, pc)
        BY <1>1, <2>1
    <2>3. UNCHANGED <<handle, queue, file, current_memory, latest, shared>>
        BY <2>1
    <2>4. ShapeOK'
        BY <2>2, <2>3 DEF ShapeOK
    <2> QED
        BY <1>2, <2>2, <2>3, <2>4 DEF Kept, memory
<1>3. CASE ~HeldBesides(t, h)
    <2>0. /\ current_memory' = current_memory - FreedMemory(h)
          /\ queue' = {node \in queue : node.handle # h}
        BY <1>3 DEF LetGo
    <2>1. current_memory' \in Int /\ queue' \subseteq [handle : Handles, timestamp : Nat]
        BY <2>0 DEF FreedMemory
    <2>2. CASE OnDisk(h)
        <3>1. handle' = [handle EXCEPT ![h].loaded = FALSE, ![h].buffer = None]
            BY <1>3, <2>2 DEF LetGo
        <3>2. call' = [call EXCEPT ![t] = [@ EXCEPT !.pc = "unregister", !.victim = h,
                                                    !.then = pc]]
            BY <1>3, <2>2 DEF LetGo
        <3>3. UNCHANGED <<file, latest, shared>>
            BY <1>3, <2>2 DEF LetGo
        <3>4. /\ handle' \in [Handles -> HandleObjects]
              /\ HandleStep(h, handle[h].block_id, handle[h].can_destroy, FALSE, None,
                    handle[h].readers, handle[h].eviction_timestamp, handle[h].lock)
            BY <1>0, <3>1, UnloadUpdate
        <3>5. /\ call' \in [Threads -> Calls]
              /\ CallStep(t, call[t].kind, "unregister", call[t].target, h)
              /\ call'[t].then = pc
              /\ call'[t].limit = call[t].limit /\ call'[t].old_limit = call[t].old_limit
            BY <1>0, <3>2, UnregisterUpdate
        <3>6. ShapeOK'
            BY <2>1, <3>3, <3>4, <3>5 DEF ShapeOK
        <3> QED
            BY <1>3, <2>0, <2>2, <3>3, <3>4, <3>5, <3>6 DEF Destructing
    <2>3. CASE ~OnDisk(h)
        <3>1. /\ DeleteTemporaryFile(h)
              /\ handle' = [handle EXCEPT ![h] = NoObject]
              /\ latest' = [latest EXCEPT ![h] = None]
              /\ shared' = shared \ {h}
            BY <1>3, <2>3 DEF LetGo
        <3>2. call' = [call EXCEPT ![t] = IF pc = "idle" THEN Idle
                                         ELSE [@ EXCEPT !.pc = pc, !.victim = None]]
            BY <1>3, <2>3 DEF LetGo
        <3>3. call' \in [Threads -> Calls] /\ GoesOn(t, pc)
            BY <1>1, <3>2
        <3>4. file' \in [TemporaryIds -> Contents \cup {None}]
            BY <3>1 DEF DeleteTemporaryFile
        <3>5. ShapeOK'
            BY <2>1, <3>1, <3>3, <3>4, ConstructorTypes DEF ShapeOK
        <3> QED
            BY <1>3, <2>0, <2>3, <3>1, <3>3, <3>5, Assignments DEF Destroyed
    <2> QED
        BY <2>2, <2>3
<1> QED
    BY <1>2, <1>3

LEMMA DropStep ==
    ASSUME StructInv, NEW t \in Threads, Drop(t) \/ ReleaseVictim(t)
    PROVE  /\ ShapeOK'
           /\ \E h \in Handles : \E pc \in {"idle", "check"} :
                Kept(t, h, pc) \/ Destroyed(t, h, pc) \/ Destructing(t, h, pc)
<1>1. CASE Drop(t)
    <2>1. call[t].target \in Handles /\ LetsGo(t, call[t].target, "idle")
        BY <1>1 DEF Drop, StructInv, PlaceInv, LetsGo, At
    <2> QED
        BY <1>1, <2>1, LetGoStep DEF Drop
<1>2. CASE ReleaseVictim(t)
    <2>1. call[t].victim \in Handles /\ LetsGo(t, call[t].victim, "check")
        BY <1>2 DEF ReleaseVictim, StructInv, PlaceInv, LetsGo, At
    <2> QED
        BY <1>2, <2>1, LetGoStep DEF ReleaseVictim
<1> QED
    BY <1>1, <1>2

LEMMA UnregisterBlockStep ==
    ASSUME StructInv, NEW t \in Threads, UnregisterBlock(t)
    PROVE  ShapeOK' /\ \E h \in Handles : Unregistered(t, h)
<1> DEFINE h == call[t].victim
<1> USE DEF StructInv, TypeOK
<1>0. h \in Handles /\ call \in [Threads -> Calls] /\ call[t] \in Calls /\ At(t, "unregister")
    BY DEF UnregisterBlock, PlaceInv, At
<1>1. /\ handle' = [handle EXCEPT ![h] = NoObject]
      /\ latest' = [latest EXCEPT ![h] = None]
      /\ blocks' = [blocks EXCEPT ![handle[h].block_id] = None]
      /\ UNCHANGED <<owned, pins, queue, file, temporary_id, memory, manager_lock, shared, stale>>
    BY DEF UnregisterBlock
<1>2. call' \in [Threads -> Calls] /\ GoesOn(t, call[t].then)
    <2>1. CASE call[t].then = "idle"
        <3>1. call' = [call EXCEPT ![t] = Idle]
            BY <2>1 DEF UnregisterBlock
        <3> QED
            BY <1>0, <2>1, <3>1, ConstructorTypes DEF GoesOn, Ended, CallStep
    <2>2. CASE call[t].then = "check"
        <3>1. call' = [call EXCEPT ![t] = [@ EXCEPT !.pc = "check", !.victim = None]]
            BY <2>2 DEF UnregisterBlock
        <3> QED
            BY <1>0, <2>2, <3>1, CheckUpdate
    <2> QED
        BY <1>0, <2>1, <2>2 DEF Calls
<1> HIDE DEF h
<1>6. handle' \in [Handles -> HandleObjects]
    BY <1>0, <1>1, ConstructorTypes
<1>7. blocks' \in [DiskBlocks -> Handles \cup {None}]
    BY <1>0, <1>1
<1>3. ShapeOK'
    BY <1>0, <1>1, <1>2, <1>6, <1>7 DEF ShapeOK, memory
<1>4. h = call[t].victim
    BY DEF h
<1>8. \A c \in DiskBlocks : blocks'[c] = IF c = handle[h].block_id THEN None ELSE blocks[c]
    BY <1>1
<1>5. Unregistered(t, h)
    BY <1>0, <1>1, <1>2, <1>4, <1>8, Assignments DEF Unregistered
<1> QED
    BY <1>0, <1>3, <1>5

LEMMA ReserveStep ==
    ASSUME StructInv, NEW t \in Threads, Reserve(t)
    PROVE  ShapeOK' /\ MemoryReserved(t)
<1> USE DEF StructInv, TypeOK
<1>0. call \in [Threads -> Calls]
    OBVIOUS
<1>1. call' = [call EXCEPT ![t].pc = "check"]
    BY DEF Reserve, Goto
<1>2. call' \in [Threads -> Calls] /\ Moved(t, "check")
    BY <1>0, <1>1, GotoUpdate
<1>3. ShapeOK'
    BY <1>2 DEF Reserve, ReservedMemory, ShapeOK
<1> QED
    BY <1>2, <1>3 DEF Reserve, ReservedMemory, MemoryReserved

LEMMA CheckLimitStep ==
    ASSUME StructInv, NEW t \in Threads, CheckLimit(t)
    PROVE  ShapeOK' /\ (LimitExceeded(t) \/ RoomFound(t) \/ LimitSet(t))
<1> USE DEF StructInv, TypeOK
<1>0. call \in [Threads -> Calls] /\ call[t].limit \in Nat /\ current_memory \in Nat
    BY DEF Calls
<1>1. ASSUME NEW pc \in {"dequeue", "load", "number", "set"}, Goto(t, pc),
             manager_lock' = manager_lock
      PROVE  ShapeOK' /\ Moved(t, pc)
    <2>1. call' = [call EXCEPT ![t].pc = pc]
        BY <1>1 DEF Goto
    <2>2. call' \in [Threads -> Calls] /\ Moved(t, pc)
        BY <1>0, <2>1, GotoUpdate
    <2> QED
        BY <1>1, <2>2 DEF CheckLimit, ShapeOK, memory
<1>2. CASE current_memory > call[t].limit
    BY <1>1, <1>2 DEF CheckLimit, LimitExceeded
<1>3. CASE ~(current_memory > call[t].limit) /\ call[t].kind = "limit_again"
    <2>1. call' = [call EXCEPT ![t] = Idle]
        BY <1>3 DEF CheckLimit, EndOfCall
    <2>2. manager_lock' = IF manager_lock = t THEN None ELSE manager_lock
        BY <1>3 DEF CheckLimit, EndOfCall
    <2>3. call' \in [Threads -> Calls] /\ Ended(t)
        BY <2>1, ConstructorTypes DEF Ended, CallStep
    <2>4. ShapeOK'
        BY <2>2, <2>3 DEF CheckLimit, ShapeOK, memory
    <2> QED
        BY <1>0, <1>3, <2>2, <2>3, <2>4 DEF CheckLimit, LimitSet
<1>4. CASE ~(current_memory > call[t].limit) /\ call[t].kind # "limit_again"
    <2>1. /\ call[t].kind \in {"pin", "temporary", "once", "limit"}
          /\ Goto(t, Passes(call[t].kind)) /\ manager_lock' = manager_lock
          /\ Passes(call[t].kind) \in {"dequeue", "load", "number", "set"}
        BY <1>4 DEF CheckLimit, Passes
    <2> QED
        BY <1>0, <1>1, <1>4, <2>1 DEF CheckLimit, RoomFound
<1> QED
    BY <1>2, <1>3, <1>4

LEMMA OutOfMemoryStep ==
    ASSUME StructInv, NEW t \in Threads, OutOfMemory(t)
    PROVE  ShapeOK' /\ Refused(t)
<1> USE DEF StructInv, TypeOK
<1>0. /\ call \in [Threads -> Calls] /\ handle \in [Handles -> HandleObjects]
      /\ call[t].old_limit \in Nat
    BY DEF Calls
<1>1. call' = [call EXCEPT ![t] = Idle]
    BY DEF OutOfMemory, EndOfCall
<1>2. call' \in [Threads -> Calls] /\ Ended(t)
    BY <1>1, ConstructorTypes DEF Ended, CallStep
<1>3. /\ handle' \in [Handles -> HandleObjects]
      /\ IF call[t].kind = "pin"
           THEN LET h == call[t].target
                IN  HandleStep(h, handle[h].block_id, handle[h].can_destroy, handle[h].loaded,
                               handle[h].buffer, handle[h].readers,
                               handle[h].eviction_timestamp, None)
           ELSE handle' = handle
    <2>1. CASE call[t].kind = "pin"
        <3>1. handle' = [handle EXCEPT ![call[t].target].lock = None]
            BY <2>1 DEF OutOfMemory, Unlocked
        <3>2. call[t].target \in Handles
            BY <2>1 DEF PinInv
        <3> QED
            BY <1>0, <2>1, <3>1, <3>2 DEF HandleObjects, HandleStep
    <2>2. CASE call[t].kind # "pin"
        BY <1>0, <2>2 DEF OutOfMemory, Unlocked
    <2> QED
        BY <2>1, <2>2
<1>4. /\ At(t, "dequeue")
      /\ current_memory' = current_memory - Extra(t)
      /\ maximum_memory' = IF call[t].kind = "limit_again" THEN call[t].old_limit
                                                           ELSE maximum_memory
      /\ stale' = (stale \/ /\ call[t].kind = "limit_again"
                            /\ call[t].old_limit < call[t].limit)
      /\ manager_lock' = IF manager_lock = t THEN None ELSE manager_lock
      /\ UNCHANGED <<owned, pins, blocks, queue, file, temporary_id, latest, shared>>
    BY DEF OutOfMemory, EndOfCall
<1>5. ShapeOK'
    BY <1>0, <1>2, <1>3, <1>4 DEF ShapeOK, Extra
<1> QED
    BY <1>2, <1>3, <1>4, <1>5 DEF Refused

LEMMA DequeueStep ==
    ASSUME StructInv, NEW t \in Threads, Dequeue(t)
    PROVE  /\ ShapeOK'
           /\ \E h \in Handles, timestamp \in Nat :
                VictimChosen(t, h, timestamp) \/ NodeSkipped(t, h, timestamp)
<1> USE DEF StructInv, TypeOK
<1>0. call \in [Threads -> Calls]
    OBVIOUS
<1>1. PICK node \in queue :
        /\ queue' = queue \ {node}
        /\ call' = IF Candidate(node)
                     THEN [call EXCEPT ![t] = [@ EXCEPT !.pc = "victim",
                             !.victim = node.handle, !.timestamp = node.timestamp]]
                     ELSE [call EXCEPT ![t].pc = "check"]
    BY DEF Dequeue, Dequeued
<1>2. PICK h \in Handles, timestamp \in Nat : node = [handle |-> h, timestamp |-> timestamp]
    OBVIOUS
<1>3. /\ At(t, "dequeue") /\ queue' = queue \ {[handle |-> h, timestamp |-> timestamp]}
      /\ UNCHANGED <<handle, owned, pins, blocks, file, temporary_id, memory, manager_lock,
                   latest, shared, stale>>
    BY <1>1, <1>2 DEF Dequeue
<1>4. CASE CanUnload(h, timestamp)
    <2>1. call' = [call EXCEPT ![t] = [@ EXCEPT !.pc = "victim", !.victim = h,
                                                !.timestamp = timestamp]]
        BY <1>1, <1>2, <1>4 DEF Candidate
    <2>2. /\ call' \in [Threads -> Calls]
          /\ CallStep(t, call[t].kind, "victim", call[t].target, h)
          /\ call'[t].timestamp = timestamp
          /\ call'[t].limit = call[t].limit /\ call'[t].old_limit = call[t].old_limit
        <3>1. PICK r \in Calls : r = call[t]
            BY <1>0
        <3>2. PICK s : s = [r EXCEPT !.pc = "victim", !.victim = h, !.timestamp = timestamp]
            OBVIOUS
        <3>3. /\ s \in Calls /\ s.kind = r.kind /\ s.pc = "victim"
              /\ s.target = r.target /\ s.victim = h /\ s.timestamp = timestamp
              /\ s.limit = r.limit /\ s.old_limit = r.old_limit
            BY <3>2 DEF Calls
        <3>4. call' = [call EXCEPT ![t] = s]
            BY <2>1, <3>1, <3>2
        <3> QED
            BY <1>0, <3>1, <3>3, <3>4 DEF CallStep
    <2>3. ShapeOK'
        BY <1>3, <2>2 DEF ShapeOK, memory
    <2> QED
        BY <1>3, <1>4, <2>2, <2>3 DEF VictimChosen
<1>5. CASE ~CanUnload(h, timestamp)
    <2>1. call' = [call EXCEPT ![t].pc = "check"]
        BY <1>1, <1>2, <1>5 DEF Candidate
    <2>2. call' \in [Threads -> Calls] /\ Moved(t, "check")
        BY <1>0, <2>1, GotoUpdate
    <2>3. ShapeOK'
        BY <1>3, <2>2 DEF ShapeOK, memory
    <2> QED
        BY <1>3, <1>5, <2>2, <2>3 DEF NodeSkipped
<1> QED
    BY <1>4, <1>5

LEMMA UnloadVictimStep ==
    ASSUME StructInv, ReliableFiles, NEW t \in Threads, UnloadVictim(t)
    PROVE  ShapeOK' /\ (VictimSpared(t) \/ \E h \in Handles : VictimUnloaded(t, h))
<1> DEFINE h == call[t].victim
<1> USE DEF StructInv, TypeOK
<1>0. /\ call \in [Threads -> Calls] /\ handle \in [Handles -> HandleObjects]
      /\ h \in Handles /\ At(t, "victim") /\ handle[h].lock = None
      /\ Exists(h)
    BY DEF UnloadVictim, PlaceInv, LifeInv, Holds, At
<1>1. UNCHANGED <<owned, pins, blocks, queue, temporary_id, maximum_memory, latest, shared, stale>>
    BY DEF UnloadVictim
<1>2. ASSUME GotoRelease(t)
      PROVE  call' \in [Threads -> Calls] /\ Moved(t, "release")
    <2>1. call' = [call EXCEPT ![t] = [@ EXCEPT !.pc = "release", !.timestamp = 0]]
        BY <1>2 DEF GotoRelease
    <2>2. PICK r \in Calls : r = call[t]
        BY <1>0
    <2>3. PICK s : s = [r EXCEPT !.pc = "release", !.timestamp = 0]
        OBVIOUS
    <2>4. /\ s \in Calls /\ s.kind = r.kind /\ s.pc = "release"
          /\ s.target = r.target /\ s.victim = r.victim
          /\ s.limit = r.limit /\ s.old_limit = r.old_limit
        BY <2>3 DEF Calls
    <2>5. call' = [call EXCEPT ![t] = s]
        BY <2>1, <2>2, <2>3
    <2> QED
        BY <1>0, <2>2, <2>4, <2>5 DEF Moved, CallStep
<1>3. CASE ~StillUnloadable(t)
    <2>1. GotoRelease(t) /\ UNCHANGED <<handle, file, current_memory, manager_lock>>
        BY <1>3 DEF UnloadVictim
    <2>2. ShapeOK'
        BY <1>1, <1>2, <2>1 DEF ShapeOK
    <2> QED
        BY <1>0, <1>1, <1>2, <1>3, <2>1, <2>2 DEF VictimSpared, memory
<1>4. CASE StillUnloadable(t)
    <2>1. /\ WriteTemporaryBuffer(h)
          /\ handle' = [handle EXCEPT ![h].loaded = FALSE, ![h].buffer = None]
          /\ current_memory' = current_memory - 1
          /\ GotoRelease(t)
          /\ manager_lock' = manager_lock
        BY <1>4 DEF UnloadVictim, ReliableFiles
    <2>2. handle[h].loaded /\ handle[h].readers = 0
        BY <1>4 DEF StillUnloadable, CanUnload
    <2> HIDE DEF h
    <2>3. /\ handle' \in [Handles -> HandleObjects]
          /\ HandleStep(h, handle[h].block_id, handle[h].can_destroy, FALSE, None,
                        0, handle[h].eviction_timestamp, None)
        BY <1>0, <2>1, <2>2, UnloadUpdate DEF HandleStep
    <2>4. file' \in [TemporaryIds -> Contents \cup {None}]
        <3>1. handle[h].buffer \in Contents \cup {None}
            BY <1>0 DEF HandleObjects
        <3> QED
            BY <2>1, <3>1 DEF WriteTemporaryBuffer
    <2>5. ShapeOK'
        BY <1>1, <1>2, <2>1, <2>3, <2>4 DEF ShapeOK
    <2>6. h = call[t].victim
        BY DEF h
    <2>7. VictimUnloaded(t, h)
        BY <1>0, <1>1, <1>2, <2>1, <2>2, <2>3, <2>6 DEF VictimUnloaded
    <2> QED
        BY <1>0, <2>5, <2>7
<1> QED
    BY <1>3, <1>4

LEMMA ChangeLimitStep ==
    ASSUME StructInv, NEW t \in Threads, ChangeLimit(t)
    PROVE  ShapeOK' /\ LimitChanged(t)
<1> USE DEF StructInv, TypeOK
<1>0. call \in [Threads -> Calls] /\ call[t].limit \in Nat /\ maximum_memory \in Nat
    BY DEF Calls
<1>1. call' = [call EXCEPT ![t] = [@ EXCEPT !.kind = "limit_again", !.pc = "check",
                                            !.old_limit = maximum_memory]]
    BY DEF ChangeLimit, EvictAgain
<1>2. /\ call' \in [Threads -> Calls]
      /\ CallStep(t, "limit_again", "check", call[t].target, call[t].victim)
      /\ call'[t].limit = call[t].limit /\ call'[t].old_limit = maximum_memory
    <2>1. PICK r \in Calls : r = call[t]
        BY <1>0
    <2>2. PICK s : s = [r EXCEPT !.kind = "limit_again", !.pc = "check", !.old_limit = maximum_memory]
        OBVIOUS
    <2>3. /\ s \in Calls /\ s.kind = "limit_again" /\ s.pc = "check"
          /\ s.target = r.target /\ s.victim = r.victim
          /\ s.limit = r.limit /\ s.old_limit = maximum_memory
        BY <1>0, <2>2 DEF Calls, Kinds
    <2>4. call' = [call EXCEPT ![t] = s]
        BY <1>1, <2>1, <2>2
    <2> QED
        BY <1>0, <2>1, <2>3, <2>4 DEF CallStep
<1>3. /\ At(t, "set") /\ maximum_memory' = call[t].limit
      /\ UNCHANGED <<handle, owned, pins, blocks, queue, file, temporary_id,
                     current_memory, manager_lock, latest, shared, stale>>
    BY DEF ChangeLimit, EvictAgain
<1>4. ShapeOK'
    BY <1>0, <1>2, <1>3 DEF ShapeOK
<1> QED
    BY <1>2, <1>3, <1>4 DEF LimitChanged

LEMMA SetLimitStep ==
    ASSUME StructInv, NEW t \in Threads, NEW limit \in NewLimits, SetLimit(t, limit)
    PROVE  ShapeOK' /\ LimitStarted(t)
<1> USE DEF StructInv, TypeOK
<1>0. call \in [Threads -> Calls] /\ limit \in Nat
    BY BufferAssumption
<1>1. call' = [call EXCEPT ![t] = [Idle EXCEPT !.kind = "limit", !.pc = "check",
                                               !.limit = limit]]
    BY DEF SetLimit
<1>2. call' \in [Threads -> Calls] /\ CallStep(t, "limit", "check", None, None)
    BY <1>0, <1>1, ConstructorTypes DEF CallStep, Calls, Kinds
<1>3. ShapeOK'
    BY <1>2 DEF SetLimit, ShapeOK, memory
<1> QED
    BY <1>2, <1>3 DEF SetLimit, LimitStarted

\* Every step is one of these.
Effect(t) ==
    \/ \E h \in Handles : RegisteredAgain(t, h)
    \/ \E b \in DiskBlocks : \E h \in Handles : RegisteredFirst(t, b, h)
    \/ \E kind \in {"temporary", "once"} : MemoryStarted(t, kind)
    \/ Numbered(t)
    \/ \E h \in Handles : OnceCreated(t, h)
    \/ \E h \in Handles : TemporaryCreated(t, h)
    \/ \E h \in Handles : PinnedLoaded(t, h)
    \/ \E h \in Handles : PinStarted(t, h)
    \/ \E h \in Handles : TargetLoaded(t, h)
    \/ \E h \in Handles : Written(t, h)
    \/ \E h \in Handles : UnpinnedLast(t, h)
    \/ \E h \in Handles : UnpinnedOne(t, h)
    \/ \E h \in Handles : OwnerDrops(t, h)
    \/ \E h \in Handles : \E pc \in {"idle", "check"} : Kept(t, h, pc)
    \/ \E h \in Handles : \E pc \in {"idle", "check"} : Destroyed(t, h, pc)
    \/ \E h \in Handles : \E pc \in {"idle", "check"} : Destructing(t, h, pc)
    \/ \E h \in Handles : Unregistered(t, h)
    \/ MemoryReserved(t)
    \/ LimitExceeded(t)
    \/ RoomFound(t)
    \/ LimitSet(t)
    \/ Refused(t)
    \/ \E h \in Handles : \E timestamp \in Nat : VictimChosen(t, h, timestamp)
    \/ \E h \in Handles : \E timestamp \in Nat : NodeSkipped(t, h, timestamp)
    \/ VictimSpared(t)
    \/ \E h \in Handles : VictimUnloaded(t, h)
    \/ LimitChanged(t)
    \/ LimitStarted(t)

LEMMA NextEffect ==
    ASSUME StructInv, ReliableFiles, Next
    PROVE  ShapeOK' /\ \E t \in Threads : Effect(t)
<1>1. PICK t \in Threads :
        \/ Step(t)
        \/ UnloadVictim(t)
        \/ \E b \in DiskBlocks : RegisterBlock(t, b)
        \/ \E kind \in {"temporary", "once"} : RegisterMemory(t, kind)
        \/ \E h \in Handles : Pin(t, h) \/ Write(t, h) \/ Unpin(t, h) \/ DropOwned(t, h)
        \/ \E limit \in NewLimits : SetLimit(t, limit)
    BY DEF Next
<1>2. CASE Step(t)
    <2>1. CASE ReadTemporaryId(t)
        BY <2>1, ReadTemporaryIdStep DEF Effect
    <2>2. CASE CreateMemory(t)
        BY <2>2, CreateMemoryStep DEF Effect
    <2>3. CASE Load(t)
        BY <2>3, LoadStep DEF Effect
    <2>4. CASE Drop(t) \/ ReleaseVictim(t)
        BY <2>4, DropStep DEF Effect
    <2>5. CASE UnregisterBlock(t)
        BY <2>5, UnregisterBlockStep DEF Effect
    <2>6. CASE ChangeLimit(t)
        BY <2>6, ChangeLimitStep DEF Effect
    <2>7. CASE Reserve(t)
        BY <2>7, ReserveStep DEF Effect
    <2>8. CASE CheckLimit(t)
        BY <2>8, CheckLimitStep DEF Effect
    <2>9. CASE OutOfMemory(t)
        BY <2>9, OutOfMemoryStep DEF Effect
    <2>10. CASE Dequeue(t)
        BY <2>10, DequeueStep DEF Effect
    <2> QED
        BY <1>2, <2>1, <2>2, <2>3, <2>4, <2>5, <2>6, <2>7, <2>8, <2>9, <2>10 DEF Step
<1>3. CASE UnloadVictim(t)
    BY <1>3, UnloadVictimStep DEF Effect
<1>4. ASSUME NEW b \in DiskBlocks, RegisterBlock(t, b)
      PROVE  ShapeOK' /\ Effect(t)
    BY <1>4, RegisterBlockStep DEF Effect
<1>5. ASSUME NEW kind \in {"temporary", "once"}, RegisterMemory(t, kind)
      PROVE  ShapeOK' /\ Effect(t)
    BY <1>5, RegisterMemoryStep DEF Effect
<1>6. ASSUME NEW h \in Handles, Pin(t, h) \/ Write(t, h) \/ Unpin(t, h) \/ DropOwned(t, h)
      PROVE  ShapeOK' /\ Effect(t)
    BY <1>6, PinStep, WriteStep, UnpinStep, DropOwnedStep DEF Effect
<1>7. ASSUME NEW limit \in NewLimits, SetLimit(t, limit)
      PROVE  ShapeOK' /\ Effect(t)
    BY <1>7, SetLimitStep DEF Effect
<1> QED
    BY <1>1, <1>2, <1>3, <1>4, <1>5, <1>6, <1>7

-----------------------------------------------------------------------------
(***************************************************************************)
(* The parts of the invariant, step by step.                               *)
(***************************************************************************)
LEMMA Types ==
    ASSUME StructInv
    PROVE  /\ owned \subseteq Handles
           /\ \A u \in Threads : pins[u] \subseteq Handles
           /\ \A h \in Handles : /\ handle[h].lock \in Threads \cup {None}
                                 /\ handle[h].readers \in Nat
                                 /\ handle[h].eviction_timestamp \in Nat
           /\ None \notin Threads /\ None \notin Handles /\ None \notin DiskBlocks
           /\ None \notin TemporaryIds
BY BufferAssumption DEF StructInv, TypeOK, HandleObjects, TemporaryIds

\* Calls go where their kind takes them.
LEMMA PlacePreserved ==
    ASSUME StructInv, NEW t \in Threads, Effect(t)
    PROVE  PlaceInv'
<1>1. ASSUME NEW h \in Handles, RegisteredAgain(t, h)
      PROVE  PlaceInv'
    BY <1>1 DEF RegisteredAgain, StructInv, PlaceInv, At, IsIdle, Evicting
<1>2. ASSUME NEW b \in DiskBlocks, NEW h \in Handles, RegisteredFirst(t, b, h)
      PROVE  PlaceInv'
    BY <1>2 DEF RegisteredFirst, HandleStep, StructInv, PlaceInv, At, IsIdle, Evicting
<1>3. ASSUME NEW kind \in {"temporary", "once"}, MemoryStarted(t, kind)
      PROVE  PlaceInv'
    BY <1>3 DEF MemoryStarted, CallStep, StructInv, PlaceInv, At, IsIdle, Evicting
<1>4. CASE Numbered(t)
    BY <1>4 DEF Numbered, CallStep, Moved, StructInv, PlaceInv, At, IsIdle, Evicting
<1>5. ASSUME NEW h \in Handles, OnceCreated(t, h)
      PROVE  PlaceInv'
    BY <1>5 DEF OnceCreated, CallStep, Ended, HandleStep, StructInv, PlaceInv, At, IsIdle,
        Evicting
<1>6. ASSUME NEW h \in Handles, TemporaryCreated(t, h)
      PROVE  PlaceInv'
    BY <1>6 DEF TemporaryCreated, CallStep, Ended, HandleStep, StructInv, PlaceInv, At,
        IsIdle, Evicting
<1>7. ASSUME NEW h \in Handles, PinnedLoaded(t, h)
      PROVE  PlaceInv'
    BY <1>7 DEF PinnedLoaded, HandleStep, StructInv, PlaceInv, At, IsIdle, Evicting
<1>8. ASSUME NEW h \in Handles, PinStarted(t, h)
      PROVE  PlaceInv'
    BY <1>8 DEF PinStarted, CallStep, HandleStep, StructInv, PlaceInv, At, IsIdle, Evicting
<1>9. ASSUME NEW h \in Handles, TargetLoaded(t, h)
      PROVE  PlaceInv'
    BY <1>9 DEF TargetLoaded, CallStep, Ended, HandleStep, StructInv, PlaceInv, At, IsIdle,
        Evicting
<1>10. ASSUME NEW h \in Handles, Written(t, h)
      PROVE  PlaceInv'
    BY <1>10 DEF Written, HandleStep, StructInv, PlaceInv, At, IsIdle, Evicting
<1>11. ASSUME NEW h \in Handles, UnpinnedLast(t, h)
      PROVE  PlaceInv'
    BY <1>11 DEF UnpinnedLast, Unpinned, CallStep, HandleStep, StructInv, PlaceInv, At,
        IsIdle, Evicting
<1>12. ASSUME NEW h \in Handles, UnpinnedOne(t, h)
      PROVE  PlaceInv'
    BY <1>12 DEF UnpinnedOne, Unpinned, CallStep, HandleStep, StructInv, PlaceInv, At,
        IsIdle, Evicting
<1>13. ASSUME NEW h \in Handles, OwnerDrops(t, h)
      PROVE  PlaceInv'
    BY <1>13 DEF OwnerDrops, CallStep, StructInv, PlaceInv, At, IsIdle, Evicting
<1>14. ASSUME NEW h \in Handles, NEW pc \in {"idle", "check"}, Kept(t, h, pc)
      PROVE  PlaceInv'
    BY <1>14 DEF Kept, LetsGo, GoesOn, CallStep, Ended, StructInv, PlaceInv, At, IsIdle,
        Evicting
<1>15. ASSUME NEW h \in Handles, NEW pc \in {"idle", "check"}, Destroyed(t, h, pc)
      PROVE  PlaceInv'
    BY <1>15 DEF Destroyed, LetsGo, GoesOn, CallStep, Ended, StructInv, PlaceInv, At,
        IsIdle, Evicting
<1>16. ASSUME NEW h \in Handles, NEW pc \in {"idle", "check"}, Destructing(t, h, pc)
      PROVE  PlaceInv'
    BY <1>16 DEF Destructing, LetsGo, CallStep, HandleStep, StructInv, PlaceInv, At, IsIdle,
        Evicting
<1>17. ASSUME NEW h \in Handles, Unregistered(t, h)
      PROVE  PlaceInv'
    BY <1>17 DEF Unregistered, GoesOn, CallStep, Ended, StructInv, PlaceInv, At, IsIdle,
        Evicting
<1>18. CASE MemoryReserved(t)
    BY <1>18 DEF MemoryReserved, CallStep, Moved, StructInv, PlaceInv, At, IsIdle, Evicting
<1>19. CASE LimitExceeded(t)
    BY <1>19 DEF LimitExceeded, CallStep, Moved, StructInv, PlaceInv, At, IsIdle, Evicting
<1>20. CASE RoomFound(t)
    BY <1>20 DEF RoomFound, Passes, CallStep, Moved, StructInv, PlaceInv, At, IsIdle,
        Evicting
<1>21. CASE LimitSet(t)
    BY <1>21 DEF LimitSet, CallStep, Ended, StructInv, PlaceInv, At, IsIdle, Evicting
<1>22. CASE Refused(t)
    BY <1>22 DEF Refused, CallStep, Ended, HandleStep, StructInv, PlaceInv, At, IsIdle,
        Evicting
<1>23. ASSUME NEW h \in Handles, NEW timestamp \in Nat, VictimChosen(t, h, timestamp)
      PROVE  PlaceInv'
    BY <1>23 DEF VictimChosen, CallStep, StructInv, PlaceInv, At, IsIdle, Evicting
<1>24. ASSUME NEW h \in Handles, NEW timestamp \in Nat, NodeSkipped(t, h, timestamp)
      PROVE  PlaceInv'
    BY <1>24 DEF NodeSkipped, CallStep, Moved, StructInv, PlaceInv, At, IsIdle, Evicting
<1>25. CASE VictimSpared(t)
    BY <1>25 DEF VictimSpared, CallStep, Moved, StructInv, PlaceInv, At, IsIdle, Evicting
<1>26. ASSUME NEW h \in Handles, VictimUnloaded(t, h)
      PROVE  PlaceInv'
    BY <1>26 DEF VictimUnloaded, CallStep, Moved, HandleStep, StructInv, PlaceInv, At,
        IsIdle, Evicting
<1>27. CASE LimitChanged(t)
    BY <1>27 DEF LimitChanged, CallStep, StructInv, PlaceInv, At, IsIdle, Evicting
<1>28. CASE LimitStarted(t)
    BY <1>28 DEF LimitStarted, CallStep, StructInv, PlaceInv, At, IsIdle, Evicting
<1> QED
    BY <1>1, <1>2, <1>3, <1>4, <1>5, <1>6, <1>7, <1>8, <1>9, <1>10, <1>11, <1>12, <1>13, <1>14,
        <1>15, <1>16, <1>17, <1>18, <1>19, <1>20, <1>21, <1>22, <1>23, <1>24, <1>25, <1>26, <1>27, <1>28 DEF Effect

\* Empty slots have nothing in them.
LEMMA SlotPreserved ==
    ASSUME StructInv, NEW t \in Threads, Effect(t)
    PROVE  SlotInv'
<1>1. ASSUME NEW h \in Handles, RegisteredAgain(t, h)
      PROVE  SlotInv'
    BY <1>1 DEF RegisteredAgain, StructInv, SlotInv, Exists
<1>2. ASSUME NEW b \in DiskBlocks, NEW h \in Handles, RegisteredFirst(t, b, h)
      PROVE  SlotInv'
    BY <1>2, Types DEF RegisteredFirst, HandleStep, StructInv, SlotInv, Exists
<1>3. ASSUME NEW kind \in {"temporary", "once"}, MemoryStarted(t, kind)
      PROVE  SlotInv'
    BY <1>3 DEF MemoryStarted, CallStep, StructInv, SlotInv, Exists
<1>4. CASE Numbered(t)
    BY <1>4 DEF Numbered, CallStep, Moved, StructInv, SlotInv, Exists
<1>5. ASSUME NEW h \in Handles, OnceCreated(t, h)
      PROVE  SlotInv'
    BY <1>5, Types DEF OnceCreated, CallStep, Ended, HandleStep, PinsStep, StructInv,
        SlotInv, Exists, PlaceInv, At
<1>6. ASSUME NEW h \in Handles, TemporaryCreated(t, h)
      PROVE  SlotInv'
    BY <1>6, Types DEF TemporaryCreated, CallStep, Ended, HandleStep, StructInv, SlotInv,
        Exists, PlaceInv, At
<1>7. ASSUME NEW h \in Handles, PinnedLoaded(t, h)
      PROVE  SlotInv'
    BY <1>7, Types DEF PinnedLoaded, HandleStep, PinsStep, StructInv, SlotInv, Exists,
        LifeInv
<1>8. ASSUME NEW h \in Handles, PinStarted(t, h)
      PROVE  SlotInv'
    BY <1>8 DEF PinStarted, CallStep, HandleStep, StructInv, SlotInv, Exists, LifeInv
<1>9. ASSUME NEW h \in Handles, TargetLoaded(t, h)
      PROVE  SlotInv'
    BY <1>9 DEF TargetLoaded, CallStep, Ended, HandleStep, PinsStep, StructInv, SlotInv,
        Exists, LifeInv, PinInv, PlaceInv, At
<1>10. ASSUME NEW h \in Handles, Written(t, h)
      PROVE  SlotInv'
    BY <1>10, Types DEF Written, HandleStep, StructInv, SlotInv, Exists, LifeInv, Holds
<1>11. ASSUME NEW h \in Handles, UnpinnedLast(t, h)
      PROVE  SlotInv'
    BY <1>11 DEF UnpinnedLast, Unpinned, CallStep, HandleStep, PinsStep, StructInv, SlotInv,
        Exists, LifeInv, Holds
<1>12. ASSUME NEW h \in Handles, UnpinnedOne(t, h)
      PROVE  SlotInv'
    BY <1>12 DEF UnpinnedOne, Unpinned, CallStep, HandleStep, PinsStep, StructInv, SlotInv,
        Exists, LifeInv, Holds
<1>13. ASSUME NEW h \in Handles, OwnerDrops(t, h)
      PROVE  SlotInv'
    BY <1>13 DEF OwnerDrops, CallStep, StructInv, SlotInv, Exists
<1>14. ASSUME NEW h \in Handles, NEW pc \in {"idle", "check"}, Kept(t, h, pc)
      PROVE  SlotInv'
    BY <1>14 DEF Kept, LetsGo, GoesOn, CallStep, Ended, StructInv, SlotInv, Exists
<1>15. ASSUME NEW h \in Handles, NEW pc \in {"idle", "check"}, Destroyed(t, h, pc)
      PROVE  SlotInv'
    BY <1>15 DEF Destroyed, LetsGo, GoesOn, CallStep, Ended, HandleGone, StructInv, SlotInv,
        Exists
<1>16. ASSUME NEW h \in Handles, NEW pc \in {"idle", "check"}, Destructing(t, h, pc)
      PROVE  SlotInv'
    BY <1>16, Types DEF Destructing, LetsGo, CallStep, HandleStep, StructInv, SlotInv,
        Exists, OnDisk
<1>17. ASSUME NEW h \in Handles, Unregistered(t, h)
      PROVE  SlotInv'
    BY <1>17 DEF Unregistered, GoesOn, CallStep, Ended, HandleGone, StructInv, SlotInv,
        Exists
<1>18. CASE MemoryReserved(t)
    BY <1>18 DEF MemoryReserved, CallStep, Moved, StructInv, SlotInv, Exists
<1>19. CASE LimitExceeded(t)
    BY <1>19 DEF LimitExceeded, CallStep, Moved, StructInv, SlotInv, Exists
<1>20. CASE RoomFound(t)
    BY <1>20 DEF RoomFound, Passes, CallStep, Moved, StructInv, SlotInv, Exists
<1>21. CASE LimitSet(t)
    BY <1>21 DEF LimitSet, CallStep, Ended, StructInv, SlotInv, Exists
<1>22. CASE Refused(t)
    BY <1>22, Types DEF Refused, CallStep, Ended, HandleStep, StructInv, SlotInv, Exists,
        LifeInv, PinInv
<1>23. ASSUME NEW h \in Handles, NEW timestamp \in Nat, VictimChosen(t, h, timestamp)
      PROVE  SlotInv'
    BY <1>23 DEF VictimChosen, CallStep, StructInv, SlotInv, Exists
<1>24. ASSUME NEW h \in Handles, NEW timestamp \in Nat, NodeSkipped(t, h, timestamp)
      PROVE  SlotInv'
    BY <1>24 DEF NodeSkipped, CallStep, Moved, StructInv, SlotInv, Exists
<1>25. CASE VictimSpared(t)
    BY <1>25 DEF VictimSpared, CallStep, Moved, StructInv, SlotInv, Exists
<1>26. ASSUME NEW h \in Handles, VictimUnloaded(t, h)
      PROVE  SlotInv'
    BY <1>26, Types DEF VictimUnloaded, CallStep, Moved, HandleStep, StructInv, SlotInv,
        Exists, LifeInv, Holds, PlaceInv, At
<1>27. CASE LimitChanged(t)
    BY <1>27 DEF LimitChanged, CallStep, StructInv, SlotInv, Exists
<1>28. CASE LimitStarted(t)
    BY <1>28 DEF LimitStarted, CallStep, StructInv, SlotInv, Exists
<1> QED
    BY <1>1, <1>2, <1>3, <1>4, <1>5, <1>6, <1>7, <1>8, <1>9, <1>10, <1>11, <1>12, <1>13, <1>14,
        <1>15, <1>16, <1>17, <1>18, <1>19, <1>20, <1>21, <1>22, <1>23, <1>24, <1>25, <1>26, <1>27, <1>28 DEF Effect

\* Handles live while someone refers to them.
LEMMA LifePreserved ==
    ASSUME StructInv, NEW t \in Threads, Effect(t)
    PROVE  LifeInv'
<1>1. ASSUME NEW h \in Handles, RegisteredAgain(t, h)
      PROVE  LifeInv'
    BY <1>1, Types DEF RegisteredAgain, StructInv, LifeInv, Exists, Holds, At, IsIdle,
        Referenced
<1>2. ASSUME NEW b \in DiskBlocks, NEW h \in Handles, RegisteredFirst(t, b, h)
      PROVE  LifeInv'
    BY <1>2, Types DEF RegisteredFirst, HandleStep, StructInv, LifeInv, Exists, Holds, At,
        IsIdle
<1>3. ASSUME NEW kind \in {"temporary", "once"}, MemoryStarted(t, kind)
      PROVE  LifeInv'
    BY <1>3, Types DEF MemoryStarted, CallStep, StructInv, LifeInv, Exists, Holds, At,
        IsIdle
<1>4. CASE Numbered(t)
    BY <1>4, Types DEF Numbered, CallStep, Moved, StructInv, LifeInv, Exists, Holds, At,
        IsIdle
<1>5. ASSUME NEW h \in Handles, OnceCreated(t, h)
      PROVE  LifeInv'
    BY <1>5, Types DEF OnceCreated, CallStep, Ended, HandleStep, PinsStep, StructInv,
        LifeInv, Exists, Holds, At, IsIdle, PlaceInv
<1>6. ASSUME NEW h \in Handles, TemporaryCreated(t, h)
      PROVE  LifeInv'
    BY <1>6, Types DEF TemporaryCreated, CallStep, Ended, HandleStep, StructInv, LifeInv,
        Exists, Holds, At, IsIdle, PlaceInv
<1>7. ASSUME NEW h \in Handles, PinnedLoaded(t, h)
      PROVE  LifeInv'
    BY <1>7, Types DEF PinnedLoaded, HandleStep, PinsStep, StructInv, LifeInv, Exists,
        Holds, At, IsIdle
<1>8. ASSUME NEW h \in Handles, PinStarted(t, h)
      PROVE  LifeInv'
    BY <1>8, Types DEF PinStarted, CallStep, HandleStep, StructInv, LifeInv, Exists, Holds,
        At, IsIdle
<1>9. ASSUME NEW h \in Handles, TargetLoaded(t, h)
      PROVE  LifeInv'
    BY <1>9, Types DEF TargetLoaded, CallStep, Ended, HandleStep, PinsStep, StructInv,
        LifeInv, Exists, Holds, At, IsIdle, PlaceInv
<1>10. ASSUME NEW h \in Handles, Written(t, h)
      PROVE  LifeInv'
    BY <1>10, Types DEF Written, HandleStep, StructInv, LifeInv, Exists, Holds, At, IsIdle
<1>11. ASSUME NEW h \in Handles, UnpinnedLast(t, h)
      PROVE  LifeInv'
    BY <1>11, Types DEF UnpinnedLast, Unpinned, CallStep, HandleStep, PinsStep, StructInv,
        LifeInv, Exists, Holds, At, IsIdle
<1>12. ASSUME NEW h \in Handles, UnpinnedOne(t, h)
      PROVE  LifeInv'
    BY <1>12, Types DEF UnpinnedOne, Unpinned, CallStep, HandleStep, PinsStep, StructInv,
        LifeInv, Exists, Holds, At, IsIdle
<1>13. ASSUME NEW h \in Handles, OwnerDrops(t, h)
      PROVE  LifeInv'
    BY <1>13, Types DEF OwnerDrops, CallStep, StructInv, LifeInv, Exists, Holds, At, IsIdle
<1>14. ASSUME NEW h \in Handles, NEW pc \in {"idle", "check"}, Kept(t, h, pc)
      PROVE  LifeInv'
    BY <1>14, Types DEF Kept, LetsGo, GoesOn, CallStep, Ended, StructInv, LifeInv, Exists,
        Holds, At, IsIdle, HeldBesides
<1>15. ASSUME NEW h \in Handles, NEW pc \in {"idle", "check"}, Destroyed(t, h, pc)
      PROVE  LifeInv'
    BY <1>15, Types DEF Destroyed, LetsGo, GoesOn, CallStep, Ended, HandleGone, StructInv,
        LifeInv, Exists, Holds, At, IsIdle, HeldBesides, PlaceInv, NoObject
<1>16. ASSUME NEW h \in Handles, NEW pc \in {"idle", "check"}, Destructing(t, h, pc)
      PROVE  LifeInv'
    BY <1>16, Types DEF Destructing, LetsGo, CallStep, HandleStep, StructInv, LifeInv,
        Exists, Holds, At, IsIdle, HeldBesides
<1>17. ASSUME NEW h \in Handles, Unregistered(t, h)
      PROVE  LifeInv'
    BY <1>17, Types DEF Unregistered, GoesOn, CallStep, Ended, HandleGone, StructInv,
        LifeInv, Exists, Holds, At, IsIdle, DestructorInv, PlaceInv, NoObject
<1>18. CASE MemoryReserved(t)
    BY <1>18, Types DEF MemoryReserved, CallStep, Moved, StructInv, LifeInv, Exists, Holds,
        At, IsIdle
<1>19. CASE LimitExceeded(t)
    BY <1>19, Types DEF LimitExceeded, CallStep, Moved, StructInv, LifeInv, Exists, Holds,
        At, IsIdle
<1>20. CASE RoomFound(t)
    BY <1>20, Types DEF RoomFound, Passes, CallStep, Moved, StructInv, LifeInv, Exists,
        Holds, At, IsIdle
<1>21. CASE LimitSet(t)
    BY <1>21, Types DEF LimitSet, CallStep, Ended, StructInv, LifeInv, Exists, Holds, At,
        IsIdle
<1>22. CASE Refused(t)
    BY <1>22, Types DEF Refused, CallStep, Ended, HandleStep, StructInv, LifeInv, Exists,
        Holds, At, IsIdle
<1>23. ASSUME NEW h \in Handles, NEW timestamp \in Nat, VictimChosen(t, h, timestamp)
      PROVE  LifeInv'
    BY <1>23, Types DEF VictimChosen, CallStep, StructInv, LifeInv, Exists, Holds, At,
        IsIdle, CanUnload, NoObject, SlotInv
<1>24. ASSUME NEW h \in Handles, NEW timestamp \in Nat, NodeSkipped(t, h, timestamp)
      PROVE  LifeInv'
    BY <1>24, Types DEF NodeSkipped, CallStep, Moved, StructInv, LifeInv, Exists, Holds, At,
        IsIdle
<1>25. CASE VictimSpared(t)
    BY <1>25, Types DEF VictimSpared, CallStep, Moved, StructInv, LifeInv, Exists, Holds,
        At, IsIdle
<1>26. ASSUME NEW h \in Handles, VictimUnloaded(t, h)
      PROVE  LifeInv'
    BY <1>26, Types DEF VictimUnloaded, CallStep, Moved, HandleStep, StructInv, LifeInv,
        Exists, Holds, At, IsIdle
<1>27. CASE LimitChanged(t)
    BY <1>27, Types DEF LimitChanged, CallStep, StructInv, LifeInv, Exists, Holds, At,
        IsIdle
<1>28. CASE LimitStarted(t)
    BY <1>28, Types DEF LimitStarted, CallStep, StructInv, LifeInv, Exists, Holds, At,
        IsIdle
<1> QED
    BY <1>1, <1>2, <1>3, <1>4, <1>5, <1>6, <1>7, <1>8, <1>9, <1>10, <1>11, <1>12, <1>13, <1>14,
        <1>15, <1>16, <1>17, <1>18, <1>19, <1>20, <1>21, <1>22, <1>23, <1>24, <1>25, <1>26, <1>27, <1>28 DEF Effect

\* Nobody gets at a handle in its destructor.
LEMMA DestructorPreserved ==
    ASSUME StructInv, NEW t \in Threads, Effect(t)
    PROVE  DestructorInv'
<1>1. ASSUME NEW h \in Handles, RegisteredAgain(t, h)
      PROVE  DestructorInv'
    BY <1>1 DEF RegisteredAgain, StructInv, DestructorInv, PlaceInv, Exists, OnDisk, Holds,
        At, IsIdle, Referenced, LifeInv
<1>2. ASSUME NEW b \in DiskBlocks, NEW h \in Handles, RegisteredFirst(t, b, h)
      PROVE  DestructorInv'
    BY <1>2, Types DEF RegisteredFirst, HandleStep, StructInv, DestructorInv, PlaceInv,
        Exists, OnDisk, Holds, At, IsIdle, LifeInv
<1>3. ASSUME NEW kind \in {"temporary", "once"}, MemoryStarted(t, kind)
      PROVE  DestructorInv'
    BY <1>3 DEF MemoryStarted, CallStep, StructInv, DestructorInv, PlaceInv, Exists, OnDisk,
        Holds, At, IsIdle
<1>4. CASE Numbered(t)
    BY <1>4 DEF Numbered, CallStep, Moved, StructInv, DestructorInv, PlaceInv, Exists,
        OnDisk, Holds, At, IsIdle
<1>5. ASSUME NEW h \in Handles, OnceCreated(t, h)
      PROVE  DestructorInv'
    BY <1>5, Types DEF OnceCreated, CallStep, Ended, HandleStep, PinsStep, StructInv,
        DestructorInv, PlaceInv, Exists, OnDisk, Holds, At, IsIdle, LifeInv
<1>6. ASSUME NEW h \in Handles, TemporaryCreated(t, h)
      PROVE  DestructorInv'
    BY <1>6, Types DEF TemporaryCreated, CallStep, Ended, HandleStep, StructInv,
        DestructorInv, PlaceInv, Exists, OnDisk, Holds, At, IsIdle, LifeInv
<1>7. ASSUME NEW h \in Handles, PinnedLoaded(t, h)
      PROVE  DestructorInv'
    BY <1>7 DEF PinnedLoaded, HandleStep, PinsStep, StructInv, DestructorInv, PlaceInv,
        Exists, OnDisk, Holds, At, IsIdle
<1>8. ASSUME NEW h \in Handles, PinStarted(t, h)
      PROVE  DestructorInv'
    BY <1>8 DEF PinStarted, CallStep, HandleStep, StructInv, DestructorInv, PlaceInv,
        Exists, OnDisk, Holds, At, IsIdle
<1>9. ASSUME NEW h \in Handles, TargetLoaded(t, h)
      PROVE  DestructorInv'
    BY <1>9 DEF TargetLoaded, CallStep, Ended, HandleStep, PinsStep, StructInv,
        DestructorInv, PlaceInv, Exists, OnDisk, Holds, At, IsIdle
<1>10. ASSUME NEW h \in Handles, Written(t, h)
      PROVE  DestructorInv'
    BY <1>10 DEF Written, HandleStep, StructInv, DestructorInv, PlaceInv, Exists, OnDisk,
        Holds, At, IsIdle
<1>11. ASSUME NEW h \in Handles, UnpinnedLast(t, h)
      PROVE  DestructorInv'
    BY <1>11 DEF UnpinnedLast, Unpinned, CallStep, HandleStep, PinsStep, StructInv,
        DestructorInv, PlaceInv, Exists, OnDisk, Holds, At, IsIdle
<1>12. ASSUME NEW h \in Handles, UnpinnedOne(t, h)
      PROVE  DestructorInv'
    BY <1>12 DEF UnpinnedOne, Unpinned, CallStep, HandleStep, PinsStep, StructInv,
        DestructorInv, PlaceInv, Exists, OnDisk, Holds, At, IsIdle
<1>13. ASSUME NEW h \in Handles, OwnerDrops(t, h)
      PROVE  DestructorInv'
    BY <1>13 DEF OwnerDrops, CallStep, StructInv, DestructorInv, PlaceInv, Exists, OnDisk,
        Holds, At, IsIdle
<1>14. ASSUME NEW h \in Handles, NEW pc \in {"idle", "check"}, Kept(t, h, pc)
      PROVE  DestructorInv'
    BY <1>14 DEF Kept, LetsGo, GoesOn, CallStep, Ended, StructInv, DestructorInv, PlaceInv,
        Exists, OnDisk, Holds, At, IsIdle
<1>15. ASSUME NEW h \in Handles, NEW pc \in {"idle", "check"}, Destroyed(t, h, pc)
      PROVE  DestructorInv'
    BY <1>15 DEF Destroyed, LetsGo, GoesOn, CallStep, Ended, HandleGone, StructInv,
        DestructorInv, PlaceInv, Exists, OnDisk, Holds, At, IsIdle
<1>16. ASSUME NEW h \in Handles, NEW pc \in {"idle", "check"}, Destructing(t, h, pc)
      PROVE  DestructorInv'
    BY <1>16 DEF Destructing, LetsGo, CallStep, HandleStep, StructInv, DestructorInv,
        PlaceInv, Exists, OnDisk, Holds, At, IsIdle, HeldBesides
<1>17. ASSUME NEW h \in Handles, Unregistered(t, h)
      PROVE  DestructorInv'
    BY <1>17 DEF Unregistered, GoesOn, CallStep, Ended, HandleGone, StructInv,
        DestructorInv, PlaceInv, Exists, OnDisk, Holds, At, IsIdle
<1>18. CASE MemoryReserved(t)
    BY <1>18 DEF MemoryReserved, CallStep, Moved, StructInv, DestructorInv, PlaceInv,
        Exists, OnDisk, Holds, At, IsIdle
<1>19. CASE LimitExceeded(t)
    BY <1>19 DEF LimitExceeded, CallStep, Moved, StructInv, DestructorInv, PlaceInv, Exists,
        OnDisk, Holds, At, IsIdle
<1>20. CASE RoomFound(t)
    BY <1>20 DEF RoomFound, Passes, CallStep, Moved, StructInv, DestructorInv, PlaceInv,
        Exists, OnDisk, Holds, At, IsIdle
<1>21. CASE LimitSet(t)
    BY <1>21 DEF LimitSet, CallStep, Ended, StructInv, DestructorInv, PlaceInv, Exists,
        OnDisk, Holds, At, IsIdle
<1>22. CASE Refused(t)
    BY <1>22 DEF Refused, CallStep, Ended, HandleStep, StructInv, DestructorInv, PlaceInv,
        Exists, OnDisk, Holds, At, IsIdle
<1>23. ASSUME NEW h \in Handles, NEW timestamp \in Nat, VictimChosen(t, h, timestamp)
      PROVE  DestructorInv'
    BY <1>23 DEF VictimChosen, CallStep, StructInv, DestructorInv, PlaceInv, Exists, OnDisk,
        Holds, At, IsIdle, CanUnload, LifeInv, SlotInv
<1>24. ASSUME NEW h \in Handles, NEW timestamp \in Nat, NodeSkipped(t, h, timestamp)
      PROVE  DestructorInv'
    BY <1>24 DEF NodeSkipped, CallStep, Moved, StructInv, DestructorInv, PlaceInv, Exists,
        OnDisk, Holds, At, IsIdle
<1>25. CASE VictimSpared(t)
    BY <1>25 DEF VictimSpared, CallStep, Moved, StructInv, DestructorInv, PlaceInv, Exists,
        OnDisk, Holds, At, IsIdle
<1>26. ASSUME NEW h \in Handles, VictimUnloaded(t, h)
      PROVE  DestructorInv'
    BY <1>26 DEF VictimUnloaded, CallStep, Moved, HandleStep, StructInv, DestructorInv,
        PlaceInv, Exists, OnDisk, Holds, At, IsIdle
<1>27. CASE LimitChanged(t)
    BY <1>27 DEF LimitChanged, CallStep, StructInv, DestructorInv, PlaceInv, Exists, OnDisk,
        Holds, At, IsIdle
<1>28. CASE LimitStarted(t)
    BY <1>28 DEF LimitStarted, CallStep, StructInv, DestructorInv, PlaceInv, Exists, OnDisk,
        Holds, At, IsIdle
<1> QED
    BY <1>1, <1>2, <1>3, <1>4, <1>5, <1>6, <1>7, <1>8, <1>9, <1>10, <1>11, <1>12, <1>13, <1>14,
        <1>15, <1>16, <1>17, <1>18, <1>19, <1>20, <1>21, <1>22, <1>23, <1>24, <1>25, <1>26, <1>27, <1>28 DEF Effect

\* Pin keeps its handle locked and unloaded.
LEMMA PinPreserved ==
    ASSUME StructInv, NEW t \in Threads, Effect(t)
    PROVE  PinInv'
<1>1. ASSUME NEW h \in Handles, RegisteredAgain(t, h)
      PROVE  PinInv'
    BY <1>1, Types DEF RegisteredAgain, StructInv, PinInv, PlaceInv, At, IsIdle
<1>2. ASSUME NEW b \in DiskBlocks, NEW h \in Handles, RegisteredFirst(t, b, h)
      PROVE  PinInv'
    BY <1>2, Types DEF RegisteredFirst, HandleStep, StructInv, PinInv, PlaceInv, At, IsIdle,
        LifeInv, Exists
<1>3. ASSUME NEW kind \in {"temporary", "once"}, MemoryStarted(t, kind)
      PROVE  PinInv'
    BY <1>3, Types DEF MemoryStarted, CallStep, StructInv, PinInv, PlaceInv, At, IsIdle
<1>4. CASE Numbered(t)
    BY <1>4, Types DEF Numbered, CallStep, Moved, StructInv, PinInv, PlaceInv, At, IsIdle
<1>5. ASSUME NEW h \in Handles, OnceCreated(t, h)
      PROVE  PinInv'
    BY <1>5, Types DEF OnceCreated, CallStep, Ended, HandleStep, PinsStep, StructInv,
        PinInv, PlaceInv, At, IsIdle, LifeInv, Exists
<1>6. ASSUME NEW h \in Handles, TemporaryCreated(t, h)
      PROVE  PinInv'
    BY <1>6, Types DEF TemporaryCreated, CallStep, Ended, HandleStep, StructInv, PinInv,
        PlaceInv, At, IsIdle, LifeInv, Exists
<1>7. ASSUME NEW h \in Handles, PinnedLoaded(t, h)
      PROVE  PinInv'
    BY <1>7, Types DEF PinnedLoaded, HandleStep, PinsStep, StructInv, PinInv, PlaceInv, At,
        IsIdle
<1>8. ASSUME NEW h \in Handles, PinStarted(t, h)
      PROVE  PinInv'
    BY <1>8, Types DEF PinStarted, CallStep, HandleStep, StructInv, PinInv, PlaceInv, At,
        IsIdle
<1>9. ASSUME NEW h \in Handles, TargetLoaded(t, h)
      PROVE  PinInv'
    BY <1>9, Types DEF TargetLoaded, CallStep, Ended, HandleStep, PinsStep, StructInv,
        PinInv, PlaceInv, At, IsIdle
<1>10. ASSUME NEW h \in Handles, Written(t, h)
      PROVE  PinInv'
    BY <1>10, Types DEF Written, HandleStep, StructInv, PinInv, PlaceInv, At, IsIdle
<1>11. ASSUME NEW h \in Handles, UnpinnedLast(t, h)
      PROVE  PinInv'
    BY <1>11, Types DEF UnpinnedLast, Unpinned, CallStep, HandleStep, PinsStep, StructInv,
        PinInv, PlaceInv, At, IsIdle
<1>12. ASSUME NEW h \in Handles, UnpinnedOne(t, h)
      PROVE  PinInv'
    BY <1>12, Types DEF UnpinnedOne, Unpinned, CallStep, HandleStep, PinsStep, StructInv,
        PinInv, PlaceInv, At, IsIdle
<1>13. ASSUME NEW h \in Handles, OwnerDrops(t, h)
      PROVE  PinInv'
    BY <1>13, Types DEF OwnerDrops, CallStep, StructInv, PinInv, PlaceInv, At, IsIdle
<1>14. ASSUME NEW h \in Handles, NEW pc \in {"idle", "check"}, Kept(t, h, pc)
      PROVE  PinInv'
    BY <1>14, Types DEF Kept, LetsGo, GoesOn, CallStep, Ended, StructInv, PinInv, PlaceInv,
        At, IsIdle
<1>15. ASSUME NEW h \in Handles, NEW pc \in {"idle", "check"}, Destroyed(t, h, pc)
      PROVE  PinInv'
    BY <1>15, Types DEF Destroyed, LetsGo, GoesOn, CallStep, Ended, HandleGone, StructInv,
        PinInv, PlaceInv, At, IsIdle, HeldBesides, NoObject
<1>16. ASSUME NEW h \in Handles, NEW pc \in {"idle", "check"}, Destructing(t, h, pc)
      PROVE  PinInv'
    BY <1>16, Types DEF Destructing, LetsGo, CallStep, HandleStep, StructInv, PinInv,
        PlaceInv, At, IsIdle, HeldBesides
<1>17. ASSUME NEW h \in Handles, Unregistered(t, h)
      PROVE  PinInv'
    BY <1>17, Types DEF Unregistered, GoesOn, CallStep, Ended, HandleGone, StructInv,
        PinInv, PlaceInv, At, IsIdle, DestructorInv, Holds, NoObject
<1>18. CASE MemoryReserved(t)
    BY <1>18, Types DEF MemoryReserved, CallStep, Moved, StructInv, PinInv, PlaceInv, At,
        IsIdle
<1>19. CASE LimitExceeded(t)
    BY <1>19, Types DEF LimitExceeded, CallStep, Moved, StructInv, PinInv, PlaceInv, At,
        IsIdle
<1>20. CASE RoomFound(t)
    BY <1>20, Types DEF RoomFound, Passes, CallStep, Moved, StructInv, PinInv, PlaceInv, At,
        IsIdle
<1>21. CASE LimitSet(t)
    BY <1>21, Types DEF LimitSet, CallStep, Ended, StructInv, PinInv, PlaceInv, At, IsIdle
<1>22. CASE Refused(t)
    BY <1>22, Types DEF Refused, CallStep, Ended, HandleStep, StructInv, PinInv, PlaceInv,
        At, IsIdle
<1>23. ASSUME NEW h \in Handles, NEW timestamp \in Nat, VictimChosen(t, h, timestamp)
      PROVE  PinInv'
    BY <1>23, Types DEF VictimChosen, CallStep, StructInv, PinInv, PlaceInv, At, IsIdle
<1>24. ASSUME NEW h \in Handles, NEW timestamp \in Nat, NodeSkipped(t, h, timestamp)
      PROVE  PinInv'
    BY <1>24, Types DEF NodeSkipped, CallStep, Moved, StructInv, PinInv, PlaceInv, At,
        IsIdle
<1>25. CASE VictimSpared(t)
    BY <1>25, Types DEF VictimSpared, CallStep, Moved, StructInv, PinInv, PlaceInv, At,
        IsIdle
<1>26. ASSUME NEW h \in Handles, VictimUnloaded(t, h)
      PROVE  PinInv'
    BY <1>26, Types DEF VictimUnloaded, CallStep, Moved, HandleStep, StructInv, PinInv,
        PlaceInv, At, IsIdle
<1>27. CASE LimitChanged(t)
    BY <1>27, Types DEF LimitChanged, CallStep, StructInv, PinInv, PlaceInv, At, IsIdle
<1>28. CASE LimitStarted(t)
    BY <1>28, Types DEF LimitStarted, CallStep, StructInv, PinInv, PlaceInv, At, IsIdle
<1> QED
    BY <1>1, <1>2, <1>3, <1>4, <1>5, <1>6, <1>7, <1>8, <1>9, <1>10, <1>11, <1>12, <1>13, <1>14,
        <1>15, <1>16, <1>17, <1>18, <1>19, <1>20, <1>21, <1>22, <1>23, <1>24, <1>25, <1>26, <1>27, <1>28 DEF Effect

\* Readers are counted, and what they read is in memory.
LEMMA ReadersPreserved ==
    ASSUME StructInv, NEW t \in Threads, Effect(t)
    PROVE  ReadersInv'
<1>1. ASSUME NEW h \in Handles, RegisteredAgain(t, h)
      PROVE  ReadersInv'
    BY <1>1, Types DEF RegisteredAgain, StructInv, ReadersInv, Pinners
<1>2. ASSUME NEW b \in DiskBlocks, NEW h \in Handles, RegisteredFirst(t, b, h)
      PROVE  ReadersInv'
    <2>1. \A u \in Threads : h \notin pins[u]
        BY <1>2 DEF RegisteredFirst, StructInv, LifeInv, Holds
    <2>2. Pinners(h) = {}
        BY <2>1 DEF Pinners
    <2>3. \A g \in Handles : Pinners(g)' = Pinners(g)
        BY <1>2 DEF RegisteredFirst, Pinners
    <2>8. \A u \in Threads : \A g \in pins'[u] : handle'[g].loaded
        BY <1>2, <2>1, <2>2, <2>3, Types
            DEF RegisteredFirst, HandleStep, StructInv, ReadersInv
    <2>9. \A g \in Handles : handle'[g].readers = Cardinality(Pinners(g)')
        <3>1. handle'[h].readers = 0 /\ \A g \in Handles \ {h} : handle'[g] = handle[g]
            BY <1>2 DEF RegisteredFirst, HandleStep
        <3>2. Cardinality(Pinners(h)') = 0
            BY <2>2, <2>3, FS_EmptySet
        <3>3. \A g \in Handles : handle[g].readers = Cardinality(Pinners(g))
            BY DEF StructInv, ReadersInv
        <3> QED
            BY <2>3, <3>1, <3>2, <3>3
    <2> QED
        BY <2>8, <2>9 DEF ReadersInv
<1>3. ASSUME NEW kind \in {"temporary", "once"}, MemoryStarted(t, kind)
      PROVE  ReadersInv'
    BY <1>3, Types DEF MemoryStarted, CallStep, StructInv, ReadersInv, Pinners
<1>4. CASE Numbered(t)
    BY <1>4, Types DEF Numbered, CallStep, Moved, StructInv, ReadersInv, Pinners
<1>5. ASSUME NEW h \in Handles, OnceCreated(t, h)
      PROVE  ReadersInv'
    <2>1. \A u \in Threads : h \notin pins[u]
        BY <1>5 DEF OnceCreated, StructInv, LifeInv, Holds
    <2>2. Pinners(h)' = {t} /\ \A g \in Handles \ {h} : Pinners(g)' = Pinners(g)
        BY <1>5, <2>1 DEF OnceCreated, PinsStep, Pinners
    <2>3. Cardinality(Pinners(h)') = 1
        BY <2>2, FS_Singleton
    <2>8. \A u \in Threads : \A g \in pins'[u] : handle'[g].loaded
        BY <1>5, <2>1, <2>2, <2>3, Types
            DEF OnceCreated, HandleStep, PinsStep, StructInv, ReadersInv
    <2>9. \A g \in Handles : handle'[g].readers = Cardinality(Pinners(g)')
        BY <1>5, <2>1, <2>2, <2>3 DEF OnceCreated, HandleStep, StructInv, ReadersInv
    <2> QED
        BY <2>8, <2>9 DEF ReadersInv
<1>6. ASSUME NEW h \in Handles, TemporaryCreated(t, h)
      PROVE  ReadersInv'
    <2>1. \A u \in Threads : h \notin pins[u]
        BY <1>6 DEF TemporaryCreated, StructInv, LifeInv, Holds
    <2>2. Pinners(h) = {}
        BY <2>1 DEF Pinners
    <2>3. \A g \in Handles : Pinners(g)' = Pinners(g)
        BY <1>6 DEF TemporaryCreated, Pinners
    <2>8. \A u \in Threads : \A g \in pins'[u] : handle'[g].loaded
        BY <1>6, <2>1, <2>2, <2>3, Types
            DEF TemporaryCreated, HandleStep, StructInv, ReadersInv
    <2>9. \A g \in Handles : handle'[g].readers = Cardinality(Pinners(g)')
        BY <1>6, <2>1, <2>2, <2>3, FS_EmptySet
            DEF TemporaryCreated, HandleStep, StructInv, ReadersInv
    <2> QED
        BY <2>8, <2>9 DEF ReadersInv
<1>7. ASSUME NEW h \in Handles, PinnedLoaded(t, h)
      PROVE  ReadersInv'
    <2>1. /\ Pinners(h)' = Pinners(h) \cup {t} /\ t \notin Pinners(h)
          /\ \A g \in Handles \ {h} : Pinners(g)' = Pinners(g)
        BY <1>7 DEF PinnedLoaded, PinsStep, Pinners
    <2>2. Cardinality(Pinners(h)') = Cardinality(Pinners(h)) + 1
        BY <2>1, CountAdded, CountedFinite
    <2>8. \A u \in Threads : \A g \in pins'[u] : handle'[g].loaded
        BY <1>7, <2>1, <2>2, Types
            DEF PinnedLoaded, HandleStep, PinsStep, StructInv, ReadersInv
    <2>9. \A g \in Handles : handle'[g].readers = Cardinality(Pinners(g)')
        BY <1>7, <2>1, <2>2 DEF PinnedLoaded, HandleStep, StructInv, ReadersInv
    <2> QED
        BY <2>8, <2>9 DEF ReadersInv
<1>8. ASSUME NEW h \in Handles, PinStarted(t, h)
      PROVE  ReadersInv'
    <2>2. \A g \in Handles : Pinners(g)' = Pinners(g)
        BY <1>8 DEF PinStarted, Pinners
    <2>8. \A u \in Threads : \A g \in pins'[u] : handle'[g].loaded
        BY <1>8, <2>2, Types DEF PinStarted, HandleStep, StructInv, ReadersInv
    <2>9. \A g \in Handles : handle'[g].readers = Cardinality(Pinners(g)')
        BY <1>8, <2>2 DEF PinStarted, HandleStep, StructInv, ReadersInv
    <2> QED
        BY <2>8, <2>9 DEF ReadersInv
<1>9. ASSUME NEW h \in Handles, TargetLoaded(t, h)
      PROVE  ReadersInv'
    <2>1. ~handle[h].loaded
        BY <1>9 DEF TargetLoaded, StructInv, PlaceInv, PinInv, At
    <2>2. \A u \in Threads : h \notin pins[u]
        BY <2>1 DEF StructInv, ReadersInv
    <2>3. Pinners(h)' = {t} /\ \A g \in Handles \ {h} : Pinners(g)' = Pinners(g)
        BY <1>9, <2>2 DEF TargetLoaded, PinsStep, Pinners
    <2>4. Cardinality(Pinners(h)') = 1
        BY <2>3, FS_Singleton
    <2>8. \A u \in Threads : \A g \in pins'[u] : handle'[g].loaded
        BY <1>9, <2>2, <2>3, <2>4, Types
            DEF TargetLoaded, HandleStep, PinsStep, StructInv, ReadersInv
    <2>6. handle'[h].readers = Cardinality(Pinners(h)')
        BY <1>9, <2>4 DEF TargetLoaded, HandleStep
    <2>7. \A g \in Handles \ {h} : handle'[g].readers = handle[g].readers
        BY <1>9 DEF TargetLoaded, HandleStep
    <2>9. \A g \in Handles : handle'[g].readers = Cardinality(Pinners(g)')
        BY <2>3, <2>6, <2>7 DEF StructInv, ReadersInv
    <2> QED
        BY <2>8, <2>9 DEF ReadersInv
<1>10. ASSUME NEW h \in Handles, Written(t, h)
      PROVE  ReadersInv'
    BY <1>10, Types DEF Written, HandleStep, StructInv, ReadersInv, Pinners
<1>11. ASSUME NEW h \in Handles, UnpinnedLast(t, h)
      PROVE  ReadersInv'
    <2>1. /\ Pinners(h)' = Pinners(h) \ {t} /\ t \in Pinners(h)
          /\ \A g \in Handles \ {h} : Pinners(g)' = Pinners(g)
        BY <1>11 DEF UnpinnedLast, Unpinned, PinsStep, Pinners
    <2>2. /\ Cardinality(Pinners(h)') = Cardinality(Pinners(h)) - 1
          /\ Cardinality(Pinners(h)) \in Nat
        BY <2>1, CountRemoved, CountedFinite
    <2>8. \A u \in Threads : \A g \in pins'[u] : handle'[g].loaded
        BY <1>11, <2>1, <2>2, Types
            DEF UnpinnedLast, Unpinned, HandleStep, PinsStep, StructInv, ReadersInv
    <2>6. handle'[h].readers = Cardinality(Pinners(h)')
        BY <1>11, <2>2 DEF UnpinnedLast, Unpinned, HandleStep, StructInv, ReadersInv
    <2>7. \A g \in Handles \ {h} : handle'[g].readers = handle[g].readers
        BY <1>11 DEF UnpinnedLast, Unpinned, HandleStep
    <2>9. \A g \in Handles : handle'[g].readers = Cardinality(Pinners(g)')
        BY <2>1, <2>6, <2>7 DEF StructInv, ReadersInv
    <2> QED
        BY <2>8, <2>9 DEF ReadersInv
<1>12. ASSUME NEW h \in Handles, UnpinnedOne(t, h)
      PROVE  ReadersInv'
    <2>1. /\ Pinners(h)' = Pinners(h) \ {t} /\ t \in Pinners(h)
          /\ \A g \in Handles \ {h} : Pinners(g)' = Pinners(g)
        BY <1>12 DEF UnpinnedOne, Unpinned, PinsStep, Pinners
    <2>2. /\ Cardinality(Pinners(h)') = Cardinality(Pinners(h)) - 1
          /\ Cardinality(Pinners(h)) \in Nat
        BY <2>1, CountRemoved, CountedFinite
    <2>8. \A u \in Threads : \A g \in pins'[u] : handle'[g].loaded
        BY <1>12, <2>1, <2>2, Types
            DEF UnpinnedOne, Unpinned, HandleStep, PinsStep, StructInv, ReadersInv
    <2>9. \A g \in Handles : handle'[g].readers = Cardinality(Pinners(g)')
        BY <1>12, <2>1, <2>2 DEF UnpinnedOne, Unpinned, HandleStep, StructInv, ReadersInv
    <2> QED
        BY <2>8, <2>9 DEF ReadersInv
<1>13. ASSUME NEW h \in Handles, OwnerDrops(t, h)
      PROVE  ReadersInv'
    BY <1>13, Types DEF OwnerDrops, CallStep, StructInv, ReadersInv, Pinners
<1>14. ASSUME NEW h \in Handles, NEW pc \in {"idle", "check"}, Kept(t, h, pc)
      PROVE  ReadersInv'
    BY <1>14, Types DEF Kept, LetsGo, GoesOn, CallStep, Ended, StructInv, ReadersInv,
        Pinners
<1>15. ASSUME NEW h \in Handles, NEW pc \in {"idle", "check"}, Destroyed(t, h, pc)
      PROVE  ReadersInv'
    <2>1. \A u \in Threads : h \notin pins[u]
        BY <1>15 DEF Destroyed, HeldBesides, Holds
    <2>2. Pinners(h) = {}
        BY <2>1 DEF Pinners
    <2>3. \A g \in Handles : Pinners(g)' = Pinners(g)
        BY <1>15 DEF Destroyed, Pinners
    <2>8. \A u \in Threads : \A g \in pins'[u] : handle'[g].loaded
        BY <1>15, <2>1, <2>2, <2>3, Types
            DEF Destroyed, HandleGone, NoObject, StructInv, ReadersInv
    <2>9. \A g \in Handles : handle'[g].readers = Cardinality(Pinners(g)')
        BY <1>15, <2>1, <2>2, <2>3, FS_EmptySet
            DEF Destroyed, HandleGone, NoObject, StructInv, ReadersInv
    <2> QED
        BY <2>8, <2>9 DEF ReadersInv
<1>16. ASSUME NEW h \in Handles, NEW pc \in {"idle", "check"}, Destructing(t, h, pc)
      PROVE  ReadersInv'
    <2>1. \A u \in Threads : h \notin pins[u]
        BY <1>16 DEF Destructing, HeldBesides, Holds
    <2>2. \A g \in Handles : Pinners(g)' = Pinners(g)
        BY <1>16 DEF Destructing, Pinners
    <2>8. \A u \in Threads : \A g \in pins'[u] : handle'[g].loaded
        BY <1>16, <2>1, <2>2, Types DEF Destructing, HandleStep, StructInv, ReadersInv
    <2>9. \A g \in Handles : handle'[g].readers = Cardinality(Pinners(g)')
        BY <1>16, <2>1, <2>2 DEF Destructing, HandleStep, StructInv, ReadersInv
    <2> QED
        BY <2>8, <2>9 DEF ReadersInv
<1>17. ASSUME NEW h \in Handles, Unregistered(t, h)
      PROVE  ReadersInv'
    <2>1. \A u \in Threads : h \notin pins[u]
        BY <1>17 DEF Unregistered, StructInv, DestructorInv, Holds
    <2>2. Pinners(h) = {}
        BY <2>1 DEF Pinners
    <2>3. \A g \in Handles : Pinners(g)' = Pinners(g)
        BY <1>17 DEF Unregistered, Pinners
    <2>8. \A u \in Threads : \A g \in pins'[u] : handle'[g].loaded
        BY <1>17, <2>1, <2>2, <2>3, Types
            DEF Unregistered, HandleGone, NoObject, StructInv, ReadersInv
    <2>6. handle'[h].readers = Cardinality(Pinners(h)')
        BY <1>17, <2>2, <2>3, FS_EmptySet DEF Unregistered, HandleGone, NoObject
    <2>7. \A g \in Handles \ {h} : handle'[g].readers = handle[g].readers
        BY <1>17 DEF Unregistered, HandleGone
    <2>9. \A g \in Handles : handle'[g].readers = Cardinality(Pinners(g)')
        BY <2>3, <2>6, <2>7 DEF StructInv, ReadersInv
    <2> QED
        BY <2>8, <2>9 DEF ReadersInv
<1>18. CASE MemoryReserved(t)
    BY <1>18, Types DEF MemoryReserved, CallStep, Moved, StructInv, ReadersInv, Pinners
<1>19. CASE LimitExceeded(t)
    BY <1>19, Types DEF LimitExceeded, CallStep, Moved, StructInv, ReadersInv, Pinners
<1>20. CASE RoomFound(t)
    BY <1>20, Types DEF RoomFound, Passes, CallStep, Moved, StructInv, ReadersInv, Pinners
<1>21. CASE LimitSet(t)
    BY <1>21, Types DEF LimitSet, CallStep, Ended, StructInv, ReadersInv, Pinners
<1>22. CASE Refused(t)
    <2>2. \A g \in Handles : Pinners(g)' = Pinners(g)
        BY <1>22 DEF Refused, Pinners
    <2>8. \A u \in Threads : \A g \in pins'[u] : handle'[g].loaded
        BY <1>22, <2>2, Types DEF Refused, HandleStep, StructInv, ReadersInv, PinInv
    <2>9. \A g \in Handles : handle'[g].readers = Cardinality(Pinners(g)')
        BY <1>22, <2>2 DEF Refused, HandleStep, StructInv, ReadersInv, PinInv
    <2> QED
        BY <2>8, <2>9 DEF ReadersInv
<1>23. ASSUME NEW h \in Handles, NEW timestamp \in Nat, VictimChosen(t, h, timestamp)
      PROVE  ReadersInv'
    BY <1>23, Types DEF VictimChosen, CallStep, StructInv, ReadersInv, Pinners
<1>24. ASSUME NEW h \in Handles, NEW timestamp \in Nat, NodeSkipped(t, h, timestamp)
      PROVE  ReadersInv'
    BY <1>24, Types DEF NodeSkipped, CallStep, Moved, StructInv, ReadersInv, Pinners
<1>25. CASE VictimSpared(t)
    BY <1>25, Types DEF VictimSpared, CallStep, Moved, StructInv, ReadersInv, Pinners
<1>26. ASSUME NEW h \in Handles, VictimUnloaded(t, h)
      PROVE  ReadersInv'
    <2>1. \A u \in Threads : h \notin pins[u]
        BY <1>26, UnreadIsUnpinned DEF VictimUnloaded
    <2>2. \A g \in Handles : Pinners(g)' = Pinners(g)
        BY <1>26 DEF VictimUnloaded, Pinners
    <2>8. \A u \in Threads : \A g \in pins'[u] : handle'[g].loaded
        BY <1>26, <2>1, <2>2, Types DEF VictimUnloaded, HandleStep, StructInv, ReadersInv
    <2>9. \A g \in Handles : handle'[g].readers = Cardinality(Pinners(g)')
        BY <1>26, <2>1, <2>2 DEF VictimUnloaded, HandleStep, StructInv, ReadersInv
    <2> QED
        BY <2>8, <2>9 DEF ReadersInv
<1>27. CASE LimitChanged(t)
    BY <1>27, Types DEF LimitChanged, CallStep, StructInv, ReadersInv, Pinners
<1>28. CASE LimitStarted(t)
    BY <1>28, Types DEF LimitStarted, CallStep, StructInv, ReadersInv, Pinners
<1> QED
    BY <1>1, <1>2, <1>3, <1>4, <1>5, <1>6, <1>7, <1>8, <1>9, <1>10, <1>11, <1>12, <1>13, <1>14,
        <1>15, <1>16, <1>17, <1>18, <1>19, <1>20, <1>21, <1>22, <1>23, <1>24, <1>25, <1>26, <1>27, <1>28 DEF Effect

\* Memory is counted when it is reserved and when it is freed.
LEMMA MemoryPreserved ==
    ASSUME StructInv, MemoryAccounted, NEW t \in Threads, Effect(t)
    PROVE  MemoryAccounted'
<1>1. ASSUME NEW h \in Handles, RegisteredAgain(t, h)
      PROVE  MemoryAccounted'
    <2>1. Loaded' = Loaded
        BY <1>1 DEF RegisteredAgain, Loaded
    <2>2. Reserved' = Reserved
        BY <1>1 DEF RegisteredAgain, Reserved, At
    <2> QED
        BY <1>1, <2>1, <2>2 DEF RegisteredAgain, MemoryAccounted, memory
<1>2. ASSUME NEW b \in DiskBlocks, NEW h \in Handles, RegisteredFirst(t, b, h)
      PROVE  MemoryAccounted'
    <2>1. Loaded' = Loaded
        BY <1>2 DEF RegisteredFirst, HandleStep, Loaded, StructInv, SlotInv, NoObject
    <2>2. Reserved' = Reserved
        BY <1>2 DEF RegisteredFirst, Reserved, At
    <2> QED
        BY <1>2, <2>1, <2>2 DEF RegisteredFirst, MemoryAccounted, memory
<1>3. ASSUME NEW kind \in {"temporary", "once"}, MemoryStarted(t, kind)
      PROVE  MemoryAccounted'
    <2>1. Loaded' = Loaded
        BY <1>3 DEF MemoryStarted, Loaded
    <2>2. Reserved' = Reserved
        BY <1>3 DEF MemoryStarted, CallStep, Reserved, StructInv, PlaceInv, At, IsIdle
    <2> QED
        BY <1>3, <2>1, <2>2 DEF MemoryStarted, MemoryAccounted, memory
<1>4. CASE Numbered(t)
    <2>1. Loaded' = Loaded
        BY <1>4 DEF Numbered, Loaded
    <2>2. Reserved' = Reserved
        BY <1>4 DEF Numbered, CallStep, Moved, Reserved, StructInv, PlaceInv, At, IsIdle
    <2> QED
        BY <1>4, <2>1, <2>2 DEF Numbered, MemoryAccounted, memory
<1>5. ASSUME NEW h \in Handles, OnceCreated(t, h)
      PROVE  MemoryAccounted'
    <2>1. Loaded' = Loaded \cup {h} /\ h \notin Loaded
        BY <1>5 DEF OnceCreated, HandleStep, Loaded, StructInv, SlotInv, NoObject
    <2>2. Reserved' = Reserved \ {t} /\ t \in Reserved
        BY <1>5 DEF OnceCreated, CallStep, Ended, Reserved, StructInv, PlaceInv, At, IsIdle
    <2>3. Cardinality(Loaded') = Cardinality(Loaded) + 1
        BY <2>1, CountedFinite, CountAdded
    <2>4. Cardinality(Reserved') = Cardinality(Reserved) - 1
        BY <2>2, CountedFinite, CountRemoved
    <2> QED
        BY <1>5, <2>3, <2>4, CountedFinite DEF OnceCreated, MemoryAccounted, memory
<1>6. ASSUME NEW h \in Handles, TemporaryCreated(t, h)
      PROVE  MemoryAccounted'
    <2>1. Loaded' = Loaded \cup {h} /\ h \notin Loaded
        BY <1>6 DEF TemporaryCreated, HandleStep, Loaded, StructInv, SlotInv, NoObject
    <2>2. Reserved' = Reserved \ {t} /\ t \in Reserved
        BY <1>6 DEF TemporaryCreated, CallStep, Ended, Reserved, StructInv, PlaceInv, At,
            IsIdle
    <2>3. Cardinality(Loaded') = Cardinality(Loaded) + 1
        BY <2>1, CountedFinite, CountAdded
    <2>4. Cardinality(Reserved') = Cardinality(Reserved) - 1
        BY <2>2, CountedFinite, CountRemoved
    <2> QED
        BY <1>6, <2>3, <2>4, CountedFinite DEF TemporaryCreated, MemoryAccounted, memory
<1>7. ASSUME NEW h \in Handles, PinnedLoaded(t, h)
      PROVE  MemoryAccounted'
    <2>1. Loaded' = Loaded
        BY <1>7 DEF PinnedLoaded, HandleStep, Loaded
    <2>2. Reserved' = Reserved
        BY <1>7 DEF PinnedLoaded, Reserved, At
    <2> QED
        BY <1>7, <2>1, <2>2 DEF PinnedLoaded, MemoryAccounted, memory
<1>8. ASSUME NEW h \in Handles, PinStarted(t, h)
      PROVE  MemoryAccounted'
    <2>1. Loaded' = Loaded
        BY <1>8 DEF PinStarted, HandleStep, Loaded
    <2>2. Reserved' = Reserved
        BY <1>8 DEF PinStarted, CallStep, Reserved, StructInv, PlaceInv, At, IsIdle
    <2> QED
        BY <1>8, <2>1, <2>2 DEF PinStarted, MemoryAccounted, memory
<1>9. ASSUME NEW h \in Handles, TargetLoaded(t, h)
      PROVE  MemoryAccounted'
    <2>1. Loaded' = Loaded \cup {h} /\ h \notin Loaded
        BY <1>9 DEF TargetLoaded, HandleStep, Loaded, StructInv, PlaceInv, PinInv, At
    <2>2. Reserved' = Reserved \ {t} /\ t \in Reserved
        BY <1>9 DEF TargetLoaded, CallStep, Ended, Reserved, StructInv, PlaceInv, At,
            IsIdle
    <2>3. Cardinality(Loaded') = Cardinality(Loaded) + 1
        BY <2>1, CountedFinite, CountAdded
    <2>4. Cardinality(Reserved') = Cardinality(Reserved) - 1
        BY <2>2, CountedFinite, CountRemoved
    <2> QED
        BY <1>9, <2>3, <2>4, CountedFinite DEF TargetLoaded, MemoryAccounted, memory
<1>10. ASSUME NEW h \in Handles, Written(t, h)
      PROVE  MemoryAccounted'
    <2>1. Loaded' = Loaded
        BY <1>10 DEF Written, HandleStep, Loaded
    <2>2. Reserved' = Reserved
        BY <1>10 DEF Written, Reserved, At
    <2> QED
        BY <1>10, <2>1, <2>2 DEF Written, MemoryAccounted, memory
<1>11. ASSUME NEW h \in Handles, UnpinnedLast(t, h)
      PROVE  MemoryAccounted'
    <2>1. Loaded' = Loaded
        BY <1>11 DEF UnpinnedLast, Unpinned, HandleStep, Loaded
    <2>2. Reserved' = Reserved
        BY <1>11 DEF UnpinnedLast, Unpinned, CallStep, Reserved, StructInv, PlaceInv, At,
            IsIdle
    <2> QED
        BY <1>11, <2>1, <2>2 DEF UnpinnedLast, MemoryAccounted, memory, Unpinned
<1>12. ASSUME NEW h \in Handles, UnpinnedOne(t, h)
      PROVE  MemoryAccounted'
    <2>1. Loaded' = Loaded
        BY <1>12 DEF UnpinnedOne, Unpinned, HandleStep, Loaded
    <2>2. Reserved' = Reserved
        BY <1>12 DEF UnpinnedOne, Unpinned, CallStep, Reserved, StructInv, PlaceInv, At,
            IsIdle
    <2> QED
        BY <1>12, <2>1, <2>2 DEF UnpinnedOne, MemoryAccounted, memory, Unpinned
<1>13. ASSUME NEW h \in Handles, OwnerDrops(t, h)
      PROVE  MemoryAccounted'
    <2>1. Loaded' = Loaded
        BY <1>13 DEF OwnerDrops, Loaded
    <2>2. Reserved' = Reserved
        BY <1>13 DEF OwnerDrops, CallStep, Reserved, StructInv, PlaceInv, At, IsIdle
    <2> QED
        BY <1>13, <2>1, <2>2 DEF OwnerDrops, MemoryAccounted, memory
<1>14. ASSUME NEW h \in Handles, NEW pc \in {"idle", "check"}, Kept(t, h, pc)
      PROVE  MemoryAccounted'
    <2>1. Loaded' = Loaded
        BY <1>14 DEF Kept, Loaded
    <2>2. Reserved' = Reserved
        BY <1>14 DEF Kept, LetsGo, GoesOn, CallStep, Ended, Reserved, StructInv, PlaceInv,
            At, IsIdle
    <2> QED
        BY <1>14, <2>1, <2>2 DEF Kept, MemoryAccounted, memory
<1>15. ASSUME NEW h \in Handles, NEW pc \in {"idle", "check"}, Destroyed(t, h, pc)
      PROVE  MemoryAccounted'
    <2>1. Loaded' = Loaded \ {h} /\ (h \in Loaded <=> handle[h].loaded)
        BY <1>15 DEF Destroyed, HandleGone, Loaded, NoObject
    <2>2. Reserved' = Reserved
        BY <1>15 DEF Destroyed, LetsGo, GoesOn, CallStep, Ended, Reserved, StructInv,
            PlaceInv, At, IsIdle
    <2>3. CASE handle[h].loaded
        <3>1. Cardinality(Loaded') = Cardinality(Loaded) - 1
            BY <2>1, <2>3, CountedFinite, CountRemoved
        <3> QED
            BY <1>15, <2>2, <2>3, <3>1, CountedFinite DEF Destroyed, MemoryAccounted,
                memory, FreedMemory
    <2>4. CASE ~handle[h].loaded
        <3>1. Loaded' = Loaded
            BY <2>1, <2>4
        <3> QED
            BY <1>15, <2>2, <2>4, <3>1, CountedFinite DEF Destroyed, MemoryAccounted,
                memory, FreedMemory
    <2> QED
        BY <2>3, <2>4
<1>16. ASSUME NEW h \in Handles, NEW pc \in {"idle", "check"}, Destructing(t, h, pc)
      PROVE  MemoryAccounted'
    <2>1. Loaded' = Loaded \ {h} /\ (h \in Loaded <=> handle[h].loaded)
        BY <1>16 DEF Destructing, HandleStep, Loaded
    <2>2. Reserved' = Reserved
        BY <1>16 DEF Destructing, LetsGo, CallStep, Reserved, StructInv, PlaceInv, At,
            IsIdle
    <2>3. CASE handle[h].loaded
        <3>1. Cardinality(Loaded') = Cardinality(Loaded) - 1
            BY <2>1, <2>3, CountedFinite, CountRemoved
        <3> QED
            BY <1>16, <2>2, <2>3, <3>1, CountedFinite DEF Destructing, MemoryAccounted,
                memory, FreedMemory
    <2>4. CASE ~handle[h].loaded
        <3>1. Loaded' = Loaded
            BY <2>1, <2>4
        <3> QED
            BY <1>16, <2>2, <2>4, <3>1, CountedFinite DEF Destructing, MemoryAccounted,
                memory, FreedMemory
    <2> QED
        BY <2>3, <2>4
<1>17. ASSUME NEW h \in Handles, Unregistered(t, h)
      PROVE  MemoryAccounted'
    <2>1. Loaded' = Loaded
        BY <1>17 DEF Unregistered, HandleGone, Loaded, StructInv, DestructorInv, NoObject
    <2>2. Reserved' = Reserved
        BY <1>17 DEF Unregistered, GoesOn, CallStep, Ended, Reserved, StructInv, PlaceInv,
            At, IsIdle
    <2> QED
        BY <1>17, <2>1, <2>2 DEF Unregistered, MemoryAccounted, memory
<1>18. CASE MemoryReserved(t)
    <2>1. Loaded' = Loaded
        BY <1>18 DEF MemoryReserved, Loaded
    <2>2. Reserved' = Reserved \cup {t} /\ t \notin Reserved
        BY <1>18 DEF MemoryReserved, CallStep, Moved, Reserved, StructInv, PlaceInv, At,
            IsIdle
    <2>3. Cardinality(Reserved') = Cardinality(Reserved) + 1
        BY <2>2, CountedFinite, CountAdded
    <2> QED
        BY <1>18, <2>1, <2>3, CountedFinite DEF MemoryReserved, MemoryAccounted, memory
<1>19. CASE LimitExceeded(t)
    <2>1. Loaded' = Loaded
        BY <1>19 DEF LimitExceeded, Loaded
    <2>2. Reserved' = Reserved
        BY <1>19 DEF LimitExceeded, CallStep, Moved, Reserved, StructInv, PlaceInv, At,
            IsIdle
    <2> QED
        BY <1>19, <2>1, <2>2 DEF LimitExceeded, MemoryAccounted, memory
<1>20. CASE RoomFound(t)
    <2>1. Loaded' = Loaded
        BY <1>20 DEF RoomFound, Loaded
    <2>2. Reserved' = Reserved
        BY <1>20 DEF RoomFound, Passes, CallStep, Moved, Reserved, StructInv, PlaceInv, At,
            IsIdle
    <2> QED
        BY <1>20, <2>1, <2>2 DEF RoomFound, MemoryAccounted, memory
<1>21. CASE LimitSet(t)
    <2>1. Loaded' = Loaded
        BY <1>21 DEF LimitSet, Loaded
    <2>2. Reserved' = Reserved
        BY <1>21 DEF LimitSet, CallStep, Ended, Reserved, StructInv, PlaceInv, At, IsIdle
    <2> QED
        BY <1>21, <2>1, <2>2 DEF LimitSet, MemoryAccounted, memory
<1>22. CASE Refused(t)
    <2>1. Loaded' = Loaded
        BY <1>22 DEF Refused, HandleStep, Loaded
    <2>2. Reserved' = Reserved \ {t} /\ (t \in Reserved <=> Extra(t) = 1)
        BY <1>22 DEF Refused, CallStep, Ended, Reserved, StructInv, PlaceInv, At, IsIdle,
            Extra, Evicting
    <2>3. CASE t \in Reserved
        <3>1. current_memory' = current_memory - 1
            BY <1>22, <2>2, <2>3 DEF Refused
        <3>2. Cardinality(Reserved') = Cardinality(Reserved) - 1
            BY <2>2, <2>3, CountedFinite, CountRemoved
        <3> QED
            BY <2>1, <3>1, <3>2, CountedFinite DEF MemoryAccounted
    <2>4. CASE t \notin Reserved
        <3>1. Reserved' = Reserved /\ Extra(t) = 0
            BY <2>2, <2>4 DEF Extra
        <3> QED
            BY <1>22, <2>1, <3>1, CountedFinite DEF Refused, MemoryAccounted, memory
    <2> QED
        BY <2>3, <2>4
<1>23. ASSUME NEW h \in Handles, NEW timestamp \in Nat, VictimChosen(t, h, timestamp)
      PROVE  MemoryAccounted'
    <2>1. Loaded' = Loaded
        BY <1>23 DEF VictimChosen, Loaded
    <2>2. Reserved' = Reserved
        BY <1>23 DEF VictimChosen, CallStep, Reserved, StructInv, PlaceInv, At, IsIdle
    <2> QED
        BY <1>23, <2>1, <2>2 DEF VictimChosen, MemoryAccounted, memory
<1>24. ASSUME NEW h \in Handles, NEW timestamp \in Nat, NodeSkipped(t, h, timestamp)
      PROVE  MemoryAccounted'
    <2>1. Loaded' = Loaded
        BY <1>24 DEF NodeSkipped, Loaded
    <2>2. Reserved' = Reserved
        BY <1>24 DEF NodeSkipped, CallStep, Moved, Reserved, StructInv, PlaceInv, At, IsIdle
    <2> QED
        BY <1>24, <2>1, <2>2 DEF NodeSkipped, MemoryAccounted, memory
<1>25. CASE VictimSpared(t)
    <2>1. Loaded' = Loaded
        BY <1>25 DEF VictimSpared, Loaded
    <2>2. Reserved' = Reserved
        BY <1>25 DEF VictimSpared, CallStep, Moved, Reserved, StructInv, PlaceInv, At,
            IsIdle
    <2> QED
        BY <1>25, <2>1, <2>2 DEF VictimSpared, MemoryAccounted, memory
<1>26. ASSUME NEW h \in Handles, VictimUnloaded(t, h)
      PROVE  MemoryAccounted'
    <2>1. Loaded' = Loaded \ {h} /\ h \in Loaded
        BY <1>26 DEF VictimUnloaded, HandleStep, Loaded
    <2>2. Reserved' = Reserved
        BY <1>26 DEF VictimUnloaded, CallStep, Moved, Reserved, StructInv, PlaceInv, At,
            IsIdle
    <2>3. Cardinality(Loaded') = Cardinality(Loaded) - 1
        BY <2>1, CountedFinite, CountRemoved
    <2> QED
        BY <1>26, <2>3, <2>2, CountedFinite DEF VictimUnloaded, MemoryAccounted, memory
<1>27. CASE LimitChanged(t)
    <2>1. Loaded' = Loaded
        BY <1>27 DEF LimitChanged, Loaded
    <2>2. Reserved' = Reserved
        BY <1>27 DEF LimitChanged, CallStep, Reserved, StructInv, PlaceInv, At, IsIdle
    <2> QED
        BY <1>27, <2>1, <2>2 DEF LimitChanged, MemoryAccounted, memory
<1>28. CASE LimitStarted(t)
    <2>1. Loaded' = Loaded
        BY <1>28 DEF LimitStarted, Loaded
    <2>2. Reserved' = Reserved
        BY <1>28 DEF LimitStarted, CallStep, Reserved, StructInv, PlaceInv, At, IsIdle
    <2> QED
        BY <1>28, <2>1, <2>2 DEF LimitStarted, MemoryAccounted, memory
<1> QED
    BY <1>1, <1>2, <1>3, <1>4, <1>5, <1>6, <1>7, <1>8, <1>9, <1>10, <1>11, <1>12, <1>13, <1>14,
        <1>15, <1>16, <1>17, <1>18, <1>19, <1>20, <1>21, <1>22, <1>23, <1>24, <1>25, <1>26, <1>27, <1>28 DEF Effect

LEMMA InitStruct ==
    ASSUME Init
    PROVE  StructInv /\ MemoryAccounted
<1> USE BufferAssumption DEF Init
<1>1. TypeOK
    <2>1. NoObject \in HandleObjects /\ Idle \in Calls
        BY ConstructorTypes
    <2>2. handle \in [Handles -> HandleObjects] /\ call \in [Threads -> Calls]
        BY <2>1
    <2>3. /\ maximum_memory \in Nat /\ current_memory \in Nat
          /\ temporary_id \in 0 .. MaxTemporary
        OBVIOUS
    <2> QED
        BY <2>2, <2>3 DEF TypeOK
<1>2. /\ \A t \in Threads : call[t].kind = "none" /\ call[t].pc = "idle"
      /\ \A t \in Threads : pins[t] = {}
    BY DEF Idle
<1>3. \A h \in Handles : ~handle[h].loaded /\ handle[h].readers = 0 /\ handle[h].lock = None
    BY DEF NoObject
<1>4. PlaceInv /\ DestructorInv
    BY <1>2 DEF PlaceInv, DestructorInv, At
<1>5. SlotInv /\ LifeInv
    BY <1>2 DEF SlotInv, LifeInv, Holds, At
<1>6. PinInv
    BY <1>2, <1>3 DEF PinInv
<1>7. ReadersInv
    <2>1. \A h \in Handles : Pinners(h) = {}
        BY <1>2 DEF Pinners
    <2> QED
        BY <1>2, <1>3, <2>1, FS_EmptySet DEF ReadersInv
<1>8. MemoryAccounted
    <2>1. Loaded = {} /\ Reserved = {}
        BY <1>2, <1>3 DEF Loaded, Reserved
    <2> QED
        BY <2>1, FS_EmptySet DEF MemoryAccounted
<1> QED
    BY <1>1, <1>4, <1>5, <1>6, <1>7, <1>8 DEF StructInv

LEMMA StructUnchanged ==
    ASSUME StructInv, MemoryAccounted, UNCHANGED vars
    PROVE  StructInv' /\ MemoryAccounted'
<1> USE DEF vars, memory
<1>1. TypeOK'
    BY DEF StructInv, TypeOK
<1>2. PlaceInv' /\ SlotInv' /\ PinInv'
    BY DEF StructInv, PlaceInv, SlotInv, PinInv, At, Exists
<1>3. LifeInv' /\ DestructorInv'
    BY DEF StructInv, LifeInv, DestructorInv, At, Exists, Holds, OnDisk
<1>4. ReadersInv' /\ MemoryAccounted'
    BY DEF StructInv, ReadersInv, Pinners, MemoryAccounted, Loaded, Reserved, At
<1> QED
    BY <1>1, <1>2, <1>3, <1>4 DEF StructInv

\* Every step preserves the structure and the count of memory; the steps are those of
\* one thread each, with the effects listed above.
LEMMA StructStep ==
    ASSUME StructInv, MemoryAccounted, ReliableFiles, Next
    PROVE  /\ StructInv' /\ MemoryAccounted'
           /\ \E t \in Threads : Effect(t)
<1>1. ShapeOK'
    BY NextEffect
<1>2. PICK t \in Threads : Effect(t)
    BY NextEffect
<1>3. MemoryAccounted'
    BY <1>2, MemoryPreserved
<1>4. current_memory' \in Nat
    <2>1. Loaded' \in SUBSET Handles /\ Reserved' \in SUBSET Threads
        BY DEF Loaded, Reserved
    <2>2. IsFiniteSet(Loaded') /\ IsFiniteSet(Reserved')
        BY <2>1, BufferAssumption, FS_Subset
    <2>3. Cardinality(Loaded') \in Nat /\ Cardinality(Reserved') \in Nat
        BY <2>2, FS_CardinalityType
    <2> QED
        BY <1>3, <2>3 DEF MemoryAccounted
<1>5. TypeOK'
    BY <1>1, <1>4 DEF ShapeOK, TypeOK
<1>6. PlaceInv' /\ SlotInv' /\ LifeInv' /\ DestructorInv' /\ PinInv' /\ ReadersInv'
    BY <1>2, PlacePreserved, SlotPreserved, LifePreserved, DestructorPreserved, PinPreserved,
        ReadersPreserved
<1> QED
    BY <1>2, <1>3, <1>5, <1>6 DEF StructInv

\* The structure of the buffer manager: types, which call is where, which handles are
\* alive, locked and read, and that current_memory counts the blocks in memory and the
\* reservations, whoever evicts, drops or destroys a handle first.
THEOREM Structure ==
    ASSUME ReliableFiles
    PROVE  Spec => [](StructInv /\ MemoryAccounted)
<1>1. Init => StructInv /\ MemoryAccounted
    BY InitStruct
<1>2. StructInv /\ MemoryAccounted /\ [Next]_vars => (StructInv /\ MemoryAccounted)'
    BY StructStep, StructUnchanged
<1> QED
    BY <1>1, <1>2, PTL DEF Spec

\* With reliable files the state of the buffer manager always has its types; above all
\* current_memory never gets negative, whatever threads free.
THEOREM BufferTypeCorrect ==
    ASSUME ReliableFiles
    PROVE  Spec => []TypeOK
BY Structure, PTL DEF StructInv

\* current_memory is the memory of the loaded blocks and of the calls that reserved some.
THEOREM MemoryIsAccounted ==
    ASSUME ReliableFiles
    PROVE  Spec => []MemoryAccounted
BY Structure, PTL

\* A pinned block stays in memory, and each BufferHandle of it is counted as a reader.
THEOREM PinnedBlocksStay ==
    ASSUME ReliableFiles
    PROVE  Spec => []PinnedStaysLoaded
<1>1. StructInv => PinnedStaysLoaded
    BY DEF StructInv, ReadersInv, Pinners, PinnedStaysLoaded
<1> QED
    BY <1>1, Structure, PTL

-----------------------------------------------------------------------------
(***************************************************************************)
(* What can be evicted is found.                                           *)
(***************************************************************************)
\* A node leaves the queue only with a thread that looks at its handle, or when it
\* is out of date.
LEMMA QueuedPreserved ==
    ASSUME StructInv, EvictableIsQueued, NEW t \in Threads, Effect(t)
    PROVE  EvictableIsQueued'
<1>1. ASSUME NEW h \in Handles, RegisteredAgain(t, h)
      PROVE  EvictableIsQueued'
    BY <1>1, Types DEF RegisteredAgain, EvictableIsQueued, At, IsIdle
<1>2. ASSUME NEW b \in DiskBlocks, NEW h \in Handles, RegisteredFirst(t, b, h)
      PROVE  EvictableIsQueued'
    BY <1>2, Types DEF RegisteredFirst, HandleStep, EvictableIsQueued, At, IsIdle
<1>3. ASSUME NEW kind \in {"temporary", "once"}, MemoryStarted(t, kind)
      PROVE  EvictableIsQueued'
    BY <1>3, Types DEF MemoryStarted, CallStep, EvictableIsQueued, At, IsIdle
<1>4. CASE Numbered(t)
    BY <1>4, Types DEF Numbered, CallStep, Moved, EvictableIsQueued, At, IsIdle
<1>5. ASSUME NEW h \in Handles, OnceCreated(t, h)
      PROVE  EvictableIsQueued'
    BY <1>5, Types DEF OnceCreated, CallStep, Ended, HandleStep, PinsStep,
        EvictableIsQueued, At, IsIdle
<1>6. ASSUME NEW h \in Handles, TemporaryCreated(t, h)
      PROVE  EvictableIsQueued'
    BY <1>6, Types DEF TemporaryCreated, CallStep, Ended, HandleStep, EvictableIsQueued, At,
        IsIdle
<1>7. ASSUME NEW h \in Handles, PinnedLoaded(t, h)
      PROVE  EvictableIsQueued'
    BY <1>7, Types DEF PinnedLoaded, HandleStep, PinsStep, EvictableIsQueued, At, IsIdle
<1>8. ASSUME NEW h \in Handles, PinStarted(t, h)
      PROVE  EvictableIsQueued'
    BY <1>8, Types DEF PinStarted, CallStep, HandleStep, EvictableIsQueued, At, IsIdle
<1>9. ASSUME NEW h \in Handles, TargetLoaded(t, h)
      PROVE  EvictableIsQueued'
    BY <1>9, Types DEF TargetLoaded, CallStep, Ended, HandleStep, PinsStep,
        EvictableIsQueued, At, IsIdle
<1>10. ASSUME NEW h \in Handles, Written(t, h)
      PROVE  EvictableIsQueued'
    BY <1>10, Types DEF Written, HandleStep, EvictableIsQueued, At, IsIdle
<1>11. ASSUME NEW h \in Handles, UnpinnedLast(t, h)
      PROVE  EvictableIsQueued'
    BY <1>11, Types DEF UnpinnedLast, Unpinned, CallStep, HandleStep, PinsStep,
        EvictableIsQueued, At, IsIdle
<1>12. ASSUME NEW h \in Handles, UnpinnedOne(t, h)
      PROVE  EvictableIsQueued'
    BY <1>12, Types, PinnedIsRead DEF UnpinnedOne, Unpinned, CallStep, HandleStep, PinsStep,
        EvictableIsQueued, At, IsIdle
<1>13. ASSUME NEW h \in Handles, OwnerDrops(t, h)
      PROVE  EvictableIsQueued'
    BY <1>13, Types DEF OwnerDrops, CallStep, EvictableIsQueued, At, IsIdle
<1>14. ASSUME NEW h \in Handles, NEW pc \in {"idle", "check"}, Kept(t, h, pc)
      PROVE  EvictableIsQueued'
    BY <1>14, Types DEF Kept, LetsGo, GoesOn, CallStep, Ended, EvictableIsQueued, At, IsIdle
<1>15. ASSUME NEW h \in Handles, NEW pc \in {"idle", "check"}, Destroyed(t, h, pc)
      PROVE  EvictableIsQueued'
    BY <1>15, Types DEF Destroyed, LetsGo, GoesOn, CallStep, Ended, HandleGone,
        EvictableIsQueued, At, IsIdle, NoObject
<1>16. ASSUME NEW h \in Handles, NEW pc \in {"idle", "check"}, Destructing(t, h, pc)
      PROVE  EvictableIsQueued'
    BY <1>16, Types DEF Destructing, LetsGo, CallStep, HandleStep, EvictableIsQueued, At,
        IsIdle
<1>17. ASSUME NEW h \in Handles, Unregistered(t, h)
      PROVE  EvictableIsQueued'
    BY <1>17, Types DEF Unregistered, GoesOn, CallStep, Ended, HandleGone,
        EvictableIsQueued, At, IsIdle, NoObject
<1>18. CASE MemoryReserved(t)
    BY <1>18, Types DEF MemoryReserved, CallStep, Moved, EvictableIsQueued, At, IsIdle
<1>19. CASE LimitExceeded(t)
    BY <1>19, Types DEF LimitExceeded, CallStep, Moved, EvictableIsQueued, At, IsIdle
<1>20. CASE RoomFound(t)
    BY <1>20, Types DEF RoomFound, Passes, CallStep, Moved, EvictableIsQueued, At, IsIdle
<1>21. CASE LimitSet(t)
    BY <1>21, Types DEF LimitSet, CallStep, Ended, EvictableIsQueued, At, IsIdle
<1>22. CASE Refused(t)
    BY <1>22, Types DEF Refused, CallStep, Ended, HandleStep, EvictableIsQueued, At, IsIdle
<1>23. ASSUME NEW h \in Handles, NEW timestamp \in Nat, VictimChosen(t, h, timestamp)
      PROVE  EvictableIsQueued'
    BY <1>23, Types DEF VictimChosen, CallStep, EvictableIsQueued, At, IsIdle, CanUnload
<1>24. ASSUME NEW h \in Handles, NEW timestamp \in Nat, NodeSkipped(t, h, timestamp)
      PROVE  EvictableIsQueued'
    BY <1>24, Types DEF NodeSkipped, CallStep, Moved, EvictableIsQueued, At, IsIdle,
        CanUnload
<1>25. CASE VictimSpared(t)
    BY <1>25, Types DEF VictimSpared, CallStep, Moved, EvictableIsQueued, At, IsIdle,
        StillUnloadable, CanUnload
<1>26. ASSUME NEW h \in Handles, VictimUnloaded(t, h)
      PROVE  EvictableIsQueued'
    BY <1>26, Types DEF VictimUnloaded, CallStep, Moved, HandleStep, EvictableIsQueued, At,
        IsIdle
<1>27. CASE LimitChanged(t)
    BY <1>27, Types DEF LimitChanged, CallStep, EvictableIsQueued, At, IsIdle
<1>28. CASE LimitStarted(t)
    BY <1>28, Types DEF LimitStarted, CallStep, EvictableIsQueued, At, IsIdle
<1> QED
    BY <1>1, <1>2, <1>3, <1>4, <1>5, <1>6, <1>7, <1>8, <1>9, <1>10, <1>11, <1>12, <1>13, <1>14,
        <1>15, <1>16, <1>17, <1>18, <1>19, <1>20, <1>21, <1>22, <1>23, <1>24, <1>25, <1>26, <1>27, <1>28 DEF Effect

\* A block that was used and can be evicted is in the queue, or in the hands of a thread
\* that is about to evict it, however the threads that pin, unpin and evict interleave.
THEOREM EvictableIsFound ==
    ASSUME ReliableFiles
    PROVE  Spec => []EvictableIsQueued
<1>1. Init => EvictableIsQueued
    BY DEF Init, NoObject, EvictableIsQueued
<1>2. /\ StructInv /\ MemoryAccounted /\ EvictableIsQueued /\ [Next]_vars
      => EvictableIsQueued'
    <2>1. ASSUME StructInv, MemoryAccounted, EvictableIsQueued, Next
          PROVE  EvictableIsQueued'
        BY <2>1, StructStep, QueuedPreserved
    <2>2. ASSUME EvictableIsQueued, UNCHANGED vars
          PROVE  EvictableIsQueued'
        BY <2>2 DEF vars, EvictableIsQueued, At
    <2> QED
        BY <2>1, <2>2
<1> QED
    BY <1>1, <1>2, Structure, PTL DEF Spec

-----------------------------------------------------------------------------
(***************************************************************************)
(* Who waits for whom.                                                     *)
(***************************************************************************)
\* SetLimit, and nobody else, holds manager_lock across steps.
LEMMA LimitLockPreserved ==
    ASSUME StructInv, LimitLockInv, NEW t \in Threads, Effect(t)
    PROVE  LimitLockInv'
<1>1. ASSUME NEW h \in Handles, RegisteredAgain(t, h)
      PROVE  LimitLockInv'
    BY <1>1, Types DEF RegisteredAgain, StructInv, PlaceInv, LimitLockInv, At, IsIdle,
        memory
<1>2. ASSUME NEW b \in DiskBlocks, NEW h \in Handles, RegisteredFirst(t, b, h)
      PROVE  LimitLockInv'
    BY <1>2, Types DEF RegisteredFirst, HandleStep, StructInv, PlaceInv, LimitLockInv, At,
        IsIdle, memory
<1>3. ASSUME NEW kind \in {"temporary", "once"}, MemoryStarted(t, kind)
      PROVE  LimitLockInv'
    BY <1>3, Types DEF MemoryStarted, CallStep, StructInv, PlaceInv, LimitLockInv, At,
        IsIdle, memory
<1>4. CASE Numbered(t)
    BY <1>4, Types DEF Numbered, CallStep, Moved, StructInv, PlaceInv, LimitLockInv, At,
        IsIdle, memory
<1>5. ASSUME NEW h \in Handles, OnceCreated(t, h)
      PROVE  LimitLockInv'
    BY <1>5, Types DEF OnceCreated, CallStep, Ended, HandleStep, PinsStep, StructInv,
        PlaceInv, LimitLockInv, At, IsIdle, memory
<1>6. ASSUME NEW h \in Handles, TemporaryCreated(t, h)
      PROVE  LimitLockInv'
    BY <1>6, Types DEF TemporaryCreated, CallStep, Ended, HandleStep, StructInv, PlaceInv,
        LimitLockInv, At, IsIdle, memory
<1>7. ASSUME NEW h \in Handles, PinnedLoaded(t, h)
      PROVE  LimitLockInv'
    BY <1>7, Types DEF PinnedLoaded, HandleStep, PinsStep, StructInv, PlaceInv,
        LimitLockInv, At, IsIdle, memory
<1>8. ASSUME NEW h \in Handles, PinStarted(t, h)
      PROVE  LimitLockInv'
    BY <1>8, Types DEF PinStarted, CallStep, HandleStep, StructInv, PlaceInv, LimitLockInv,
        At, IsIdle, memory
<1>9. ASSUME NEW h \in Handles, TargetLoaded(t, h)
      PROVE  LimitLockInv'
    BY <1>9, Types DEF TargetLoaded, CallStep, Ended, HandleStep, PinsStep, StructInv,
        PlaceInv, LimitLockInv, At, IsIdle, memory
<1>10. ASSUME NEW h \in Handles, Written(t, h)
      PROVE  LimitLockInv'
    BY <1>10, Types DEF Written, HandleStep, StructInv, PlaceInv, LimitLockInv, At, IsIdle,
        memory
<1>11. ASSUME NEW h \in Handles, UnpinnedLast(t, h)
      PROVE  LimitLockInv'
    BY <1>11, Types DEF UnpinnedLast, Unpinned, CallStep, HandleStep, PinsStep, StructInv,
        PlaceInv, LimitLockInv, At, IsIdle, memory
<1>12. ASSUME NEW h \in Handles, UnpinnedOne(t, h)
      PROVE  LimitLockInv'
    BY <1>12, Types DEF UnpinnedOne, Unpinned, CallStep, HandleStep, PinsStep, StructInv,
        PlaceInv, LimitLockInv, At, IsIdle, memory
<1>13. ASSUME NEW h \in Handles, OwnerDrops(t, h)
      PROVE  LimitLockInv'
    BY <1>13, Types DEF OwnerDrops, CallStep, StructInv, PlaceInv, LimitLockInv, At, IsIdle,
        memory
<1>14. ASSUME NEW h \in Handles, NEW pc \in {"idle", "check"}, Kept(t, h, pc)
      PROVE  LimitLockInv'
    BY <1>14, Types DEF Kept, LetsGo, GoesOn, CallStep, Ended, StructInv, PlaceInv,
        LimitLockInv, At, IsIdle, memory
<1>15. ASSUME NEW h \in Handles, NEW pc \in {"idle", "check"}, Destroyed(t, h, pc)
      PROVE  LimitLockInv'
    BY <1>15, Types DEF Destroyed, LetsGo, GoesOn, CallStep, Ended, HandleGone, StructInv,
        PlaceInv, LimitLockInv, At, IsIdle, memory
<1>16. ASSUME NEW h \in Handles, NEW pc \in {"idle", "check"}, Destructing(t, h, pc)
      PROVE  LimitLockInv'
    BY <1>16, Types DEF Destructing, LetsGo, CallStep, HandleStep, StructInv, PlaceInv,
        LimitLockInv, At, IsIdle, memory
<1>17. ASSUME NEW h \in Handles, Unregistered(t, h)
      PROVE  LimitLockInv'
    BY <1>17, Types DEF Unregistered, GoesOn, CallStep, Ended, HandleGone, StructInv,
        PlaceInv, LimitLockInv, At, IsIdle, memory
<1>18. CASE MemoryReserved(t)
    BY <1>18, Types DEF MemoryReserved, CallStep, Moved, StructInv, PlaceInv, LimitLockInv,
        At, IsIdle, memory
<1>19. CASE LimitExceeded(t)
    BY <1>19, Types DEF LimitExceeded, CallStep, Moved, StructInv, PlaceInv, LimitLockInv,
        At, IsIdle, memory
<1>20. CASE RoomFound(t)
    BY <1>20, Types DEF RoomFound, Passes, CallStep, Moved, StructInv, PlaceInv,
        LimitLockInv, At, IsIdle, memory
<1>21. CASE LimitSet(t)
    BY <1>21, Types DEF LimitSet, CallStep, Ended, StructInv, PlaceInv, LimitLockInv, At,
        IsIdle, memory
<1>22. CASE Refused(t)
    BY <1>22, Types DEF Refused, CallStep, Ended, HandleStep, StructInv, PlaceInv,
        LimitLockInv, At, IsIdle, memory, Evicting
<1>23. ASSUME NEW h \in Handles, NEW timestamp \in Nat, VictimChosen(t, h, timestamp)
      PROVE  LimitLockInv'
    BY <1>23, Types DEF VictimChosen, CallStep, StructInv, PlaceInv, LimitLockInv, At,
        IsIdle, memory
<1>24. ASSUME NEW h \in Handles, NEW timestamp \in Nat, NodeSkipped(t, h, timestamp)
      PROVE  LimitLockInv'
    BY <1>24, Types DEF NodeSkipped, CallStep, Moved, StructInv, PlaceInv, LimitLockInv, At,
        IsIdle, memory
<1>25. CASE VictimSpared(t)
    BY <1>25, Types DEF VictimSpared, CallStep, Moved, StructInv, PlaceInv, LimitLockInv,
        At, IsIdle, memory
<1>26. ASSUME NEW h \in Handles, VictimUnloaded(t, h)
      PROVE  LimitLockInv'
    BY <1>26, Types DEF VictimUnloaded, CallStep, Moved, HandleStep, StructInv, PlaceInv,
        LimitLockInv, At, IsIdle, memory
<1>27. CASE LimitChanged(t)
    BY <1>27, Types DEF LimitChanged, CallStep, StructInv, PlaceInv, LimitLockInv, At,
        IsIdle, memory
<1>28. CASE LimitStarted(t)
    BY <1>28, Types DEF LimitStarted, CallStep, StructInv, PlaceInv, LimitLockInv, At,
        IsIdle, memory
<1> QED
    BY <1>1, <1>2, <1>3, <1>4, <1>5, <1>6, <1>7, <1>8, <1>9, <1>10, <1>11, <1>12, <1>13, <1>14,
        <1>15, <1>16, <1>17, <1>18, <1>19, <1>20, <1>21, <1>22, <1>23, <1>24, <1>25, <1>26, <1>27, <1>28 DEF Effect

\* A thread waits for the lock of its victim, which a thread in Pin holds.
WaitsForVictim(t, u) == At(t, "victim") /\ handle[call[t].victim].lock = u

\* A step makes nobody wait, or only for the thread that takes it, which then waits for
\* nobody itself.
NoNewWait(t) ==
    \/ \A a, b \in Threads : WaitsForVictim(a, b)' => WaitsForVictim(a, b)
    \/ /\ \A a, b \in Threads : WaitsForVictim(a, b)' => WaitsForVictim(a, b) \/ b = t
       /\ \A b \in Threads : ~WaitsForVictim(t, b)'

\* A victim is chosen while it is unlocked; only Pin locks a handle others wait for.
LEMMA WaitsAdded ==
    ASSUME StructInv, NEW t \in Threads, Effect(t)
    PROVE  NoNewWait(t)
<1>1. ASSUME NEW h \in Handles, RegisteredAgain(t, h)
      PROVE  NoNewWait(t)
    BY <1>1, Types DEF RegisteredAgain, NoNewWait, WaitsForVictim, StructInv, PlaceInv, At,
        IsIdle
<1>2. ASSUME NEW b \in DiskBlocks, NEW h \in Handles, RegisteredFirst(t, b, h)
      PROVE  NoNewWait(t)
    BY <1>2, Types DEF RegisteredFirst, HandleStep, NoNewWait, WaitsForVictim, StructInv,
        PlaceInv, At, IsIdle
<1>3. ASSUME NEW kind \in {"temporary", "once"}, MemoryStarted(t, kind)
      PROVE  NoNewWait(t)
    BY <1>3, Types DEF MemoryStarted, CallStep, NoNewWait, WaitsForVictim, StructInv,
        PlaceInv, At, IsIdle
<1>4. CASE Numbered(t)
    BY <1>4, Types DEF Numbered, CallStep, Moved, NoNewWait, WaitsForVictim, StructInv,
        PlaceInv, At, IsIdle
<1>5. ASSUME NEW h \in Handles, OnceCreated(t, h)
      PROVE  NoNewWait(t)
    BY <1>5, Types DEF OnceCreated, CallStep, Ended, HandleStep, PinsStep, NoNewWait,
        WaitsForVictim, StructInv, PlaceInv, At, IsIdle
<1>6. ASSUME NEW h \in Handles, TemporaryCreated(t, h)
      PROVE  NoNewWait(t)
    BY <1>6, Types DEF TemporaryCreated, CallStep, Ended, HandleStep, NoNewWait,
        WaitsForVictim, StructInv, PlaceInv, At, IsIdle
<1>7. ASSUME NEW h \in Handles, PinnedLoaded(t, h)
      PROVE  NoNewWait(t)
    BY <1>7, Types DEF PinnedLoaded, HandleStep, PinsStep, NoNewWait, WaitsForVictim,
        StructInv, PlaceInv, At, IsIdle
<1>8. ASSUME NEW h \in Handles, PinStarted(t, h)
      PROVE  NoNewWait(t)
    <2>1. \A a, b \in Threads : WaitsForVictim(a, b)' => WaitsForVictim(a, b) \/ b = t
        BY <1>8, Types DEF PinStarted, CallStep, HandleStep, StructInv, PlaceInv, At, WaitsForVictim
    <2>2. \A b \in Threads : ~WaitsForVictim(t, b)'
        BY <1>8 DEF PinStarted, CallStep, At, WaitsForVictim
    <2> QED
        BY <2>1, <2>2 DEF NoNewWait
<1>9. ASSUME NEW h \in Handles, TargetLoaded(t, h)
      PROVE  NoNewWait(t)
    BY <1>9, Types DEF TargetLoaded, CallStep, Ended, HandleStep, PinsStep, NoNewWait,
        WaitsForVictim, StructInv, PlaceInv, At, IsIdle
<1>10. ASSUME NEW h \in Handles, Written(t, h)
      PROVE  NoNewWait(t)
    BY <1>10, Types DEF Written, HandleStep, NoNewWait, WaitsForVictim, StructInv, PlaceInv,
        At, IsIdle
<1>11. ASSUME NEW h \in Handles, UnpinnedLast(t, h)
      PROVE  NoNewWait(t)
    BY <1>11, Types DEF UnpinnedLast, Unpinned, CallStep, HandleStep, PinsStep, NoNewWait,
        WaitsForVictim, StructInv, PlaceInv, At, IsIdle
<1>12. ASSUME NEW h \in Handles, UnpinnedOne(t, h)
      PROVE  NoNewWait(t)
    BY <1>12, Types DEF UnpinnedOne, Unpinned, CallStep, HandleStep, PinsStep, NoNewWait,
        WaitsForVictim, StructInv, PlaceInv, At, IsIdle
<1>13. ASSUME NEW h \in Handles, OwnerDrops(t, h)
      PROVE  NoNewWait(t)
    BY <1>13, Types DEF OwnerDrops, CallStep, NoNewWait, WaitsForVictim, StructInv,
        PlaceInv, At, IsIdle
<1>14. ASSUME NEW h \in Handles, NEW pc \in {"idle", "check"}, Kept(t, h, pc)
      PROVE  NoNewWait(t)
    BY <1>14, Types DEF Kept, LetsGo, GoesOn, CallStep, Ended, NoNewWait, WaitsForVictim,
        StructInv, PlaceInv, At, IsIdle
<1>15. ASSUME NEW h \in Handles, NEW pc \in {"idle", "check"}, Destroyed(t, h, pc)
      PROVE  NoNewWait(t)
    BY <1>15, Types DEF Destroyed, LetsGo, GoesOn, CallStep, Ended, HandleGone, NoNewWait,
        WaitsForVictim, StructInv, PlaceInv, At, IsIdle, NoObject
<1>16. ASSUME NEW h \in Handles, NEW pc \in {"idle", "check"}, Destructing(t, h, pc)
      PROVE  NoNewWait(t)
    BY <1>16, Types DEF Destructing, LetsGo, CallStep, HandleStep, NoNewWait,
        WaitsForVictim, StructInv, PlaceInv, At, IsIdle
<1>17. ASSUME NEW h \in Handles, Unregistered(t, h)
      PROVE  NoNewWait(t)
    BY <1>17, Types DEF Unregistered, GoesOn, CallStep, Ended, HandleGone, NoNewWait,
        WaitsForVictim, StructInv, PlaceInv, At, IsIdle, NoObject
<1>18. CASE MemoryReserved(t)
    BY <1>18, Types DEF MemoryReserved, CallStep, Moved, NoNewWait, WaitsForVictim,
        StructInv, PlaceInv, At, IsIdle
<1>19. CASE LimitExceeded(t)
    BY <1>19, Types DEF LimitExceeded, CallStep, Moved, NoNewWait, WaitsForVictim,
        StructInv, PlaceInv, At, IsIdle
<1>20. CASE RoomFound(t)
    BY <1>20, Types DEF RoomFound, Passes, CallStep, Moved, NoNewWait, WaitsForVictim,
        StructInv, PlaceInv, At, IsIdle
<1>21. CASE LimitSet(t)
    BY <1>21, Types DEF LimitSet, CallStep, Ended, NoNewWait, WaitsForVictim, StructInv,
        PlaceInv, At, IsIdle
<1>22. CASE Refused(t)
    BY <1>22, Types DEF Refused, CallStep, Ended, HandleStep, NoNewWait, WaitsForVictim,
        StructInv, PlaceInv, At, IsIdle, PinInv
<1>23. ASSUME NEW h \in Handles, NEW timestamp \in Nat, VictimChosen(t, h, timestamp)
      PROVE  NoNewWait(t)
    BY <1>23, Types DEF VictimChosen, CallStep, NoNewWait, WaitsForVictim, StructInv,
        PlaceInv, At, IsIdle, CanUnload, PinInv
<1>24. ASSUME NEW h \in Handles, NEW timestamp \in Nat, NodeSkipped(t, h, timestamp)
      PROVE  NoNewWait(t)
    BY <1>24, Types DEF NodeSkipped, CallStep, Moved, NoNewWait, WaitsForVictim, StructInv,
        PlaceInv, At, IsIdle
<1>25. CASE VictimSpared(t)
    BY <1>25, Types DEF VictimSpared, CallStep, Moved, NoNewWait, WaitsForVictim, StructInv,
        PlaceInv, At, IsIdle
<1>26. ASSUME NEW h \in Handles, VictimUnloaded(t, h)
      PROVE  NoNewWait(t)
    BY <1>26, Types DEF VictimUnloaded, CallStep, Moved, HandleStep, NoNewWait,
        WaitsForVictim, StructInv, PlaceInv, At, IsIdle
<1>27. CASE LimitChanged(t)
    BY <1>27, Types DEF LimitChanged, CallStep, NoNewWait, WaitsForVictim, StructInv,
        PlaceInv, At, IsIdle
<1>28. CASE LimitStarted(t)
    BY <1>28, Types DEF LimitStarted, CallStep, NoNewWait, WaitsForVictim, StructInv,
        PlaceInv, At, IsIdle
<1> QED
    BY <1>1, <1>2, <1>3, <1>4, <1>5, <1>6, <1>7, <1>8, <1>9, <1>10, <1>11, <1>12, <1>13, <1>14,
        <1>15, <1>16, <1>17, <1>18, <1>19, <1>20, <1>21, <1>22, <1>23, <1>24, <1>25, <1>26, <1>27, <1>28 DEF Effect

\* Among any threads there is one that waits for no other of them to unlock a victim.
VictimsInOrder ==
    \A S \in (SUBSET Threads) \ {{}} : \E a \in S : \A b \in S : ~WaitsForVictim(a, b)

WaitInv == StructInv /\ MemoryAccounted /\ LimitLockInv /\ VictimsInOrder

LEMMA WaitStep ==
    ASSUME ReliableFiles, WaitInv, [Next]_vars
    PROVE  WaitInv'
<1>1. CASE UNCHANGED vars
    <2>1. StructInv' /\ MemoryAccounted'
        BY <1>1, StructUnchanged DEF WaitInv
    <2>2. LimitLockInv'
        BY <1>1 DEF WaitInv, vars, memory, LimitLockInv
    <2>3. VictimsInOrder'
        BY <1>1 DEF WaitInv, vars, VictimsInOrder, WaitsForVictim, At
    <2> QED
        BY <2>1, <2>2, <2>3 DEF WaitInv
<1>2. CASE Next
    <2>1. StructInv' /\ MemoryAccounted'
        BY <1>2, StructStep DEF WaitInv
    <2>2. PICK t \in Threads : Effect(t)
        BY <1>2, StructStep DEF WaitInv
    <2>3. LimitLockInv'
        BY <2>2, LimitLockPreserved DEF WaitInv
    <2>4. NoNewWait(t)
        BY <2>2, WaitsAdded DEF WaitInv
    <2>5. VictimsInOrder'
        <3>1. SUFFICES ASSUME NEW S \in (SUBSET Threads) \ {{}}
                       PROVE  \E a \in S : \A b \in S : ~WaitsForVictim(a, b)'
            BY DEF VictimsInOrder
        <3>2. PICK a \in S : \A b \in S : ~WaitsForVictim(a, b)
            BY DEF WaitInv, VictimsInOrder
        <3>3. CASE \A c, b \in Threads : WaitsForVictim(c, b)' => WaitsForVictim(c, b)
            BY <3>2, <3>3
        <3>4. CASE /\ \A c, b \in Threads : WaitsForVictim(c, b)' => WaitsForVictim(c, b) \/ b = t
                   /\ \A b \in Threads : ~WaitsForVictim(t, b)'
            <4>1. CASE t \in S
                BY <3>4, <4>1
            <4>2. CASE t \notin S
                BY <3>2, <3>4, <4>2
            <4> QED
                BY <4>1, <4>2
        <3> QED
            BY <2>4, <3>3, <3>4 DEF NoNewWait
    <2> QED
        BY <2>1, <2>3, <2>5 DEF WaitInv
<1> QED
    BY <1>1, <1>2

\* Pin keeps the lock of its handle while it locks others to evict them, in no order at
\* all, and reading a block takes manager_lock on top; still threads wait for each other
\* in a circle only when one of them is in SetLimit.
THEOREM NobodyWaitsInACircle ==
    ASSUME ReliableFiles
    PROVE  Spec => []NoCircularWait
<1>1. Init => WaitInv
    <2> SUFFICES ASSUME Init PROVE WaitInv
        OBVIOUS
    <2>1. \A t \in Threads : call[t].kind = "none" /\ call[t].pc = "idle"
        BY DEF Init, Idle
    <2>2. LimitLockInv
        BY <2>1, BufferAssumption DEF Init, LimitLockInv
    <2>3. VictimsInOrder
        BY <2>1 DEF VictimsInOrder, WaitsForVictim, At
    <2> QED
        BY <2>2, <2>3, InitStruct DEF WaitInv
<1>2. WaitInv /\ [Next]_vars => WaitInv'
    BY WaitStep
<1>3. WaitInv => NoCircularWait
    <2> SUFFICES ASSUME WaitInv, NEW S \in SUBSET Threads, Circle(S),
                        \A t \in S : call[t].kind \notin {"limit", "limit_again"}
                 PROVE  FALSE
        BY DEF NoCircularWait
    <2>1. S # {} /\ \A t \in S : \E u \in S : WaitsFor(t, u)
        BY DEF Circle
    <2>2. PICK a \in S : \A b \in S : ~WaitsForVictim(a, b)
        BY <2>1 DEF WaitInv, VictimsInOrder
    <2>3. PICK u \in S : WaitsFor(a, u)
        BY <2>1
    \* Only SetLimit holds manager_lock.
    <2>4. manager_lock # u
        BY DEF WaitInv, LimitLockInv
    <2>5. WaitsForVictim(a, u)
        BY <2>3, <2>4 DEF WaitsFor, WaitsForVictim
    <2> QED
        BY <2>2, <2>5
<1> QED
    BY <1>1, <1>2, <1>3, PTL DEF Spec

-----------------------------------------------------------------------------
(***************************************************************************)
(* The limit.                                                              *)
(***************************************************************************)
\* A call that was granted memory or will be has reserved it.
LEMMA EntitledReserved ==
    ASSUME StructInv, MemoryAccounted, NEW limit \in Nat
    PROVE  /\ Entitled(limit) \subseteq Reserved
           /\ IsFiniteSet(Entitled(limit)) /\ Cardinality(Entitled(limit)) \in Nat
           /\ Cardinality(Loaded) + Cardinality(Entitled(limit)) <= current_memory
<1>1. Entitled(limit) \subseteq Reserved
    BY DEF Entitled, Granted, Reserved, StructInv, PlaceInv, At
<1>2. IsFiniteSet(Entitled(limit)) /\ Cardinality(Entitled(limit)) <= Cardinality(Reserved)
    BY <1>1, CountedFinite, FS_Subset
<1>3. Cardinality(Entitled(limit)) \in Nat
    BY <1>2, FS_CardinalityType
<1> QED
    BY <1>1, <1>2, <1>3, CountedFinite DEF MemoryAccounted

LEMMA WithinSmaller ==
    ASSUME StructInv, MemoryAccounted, NEW limit \in Nat, Within(limit),
           Loaded' \subseteq Loaded, Entitled(limit)' \subseteq Entitled(limit)
    PROVE  Within(limit)'
<1>1. /\ Cardinality(Loaded') <= Cardinality(Loaded)
      /\ Cardinality(Entitled(limit)') <= Cardinality(Entitled(limit))
      /\ IsFiniteSet(Loaded') /\ IsFiniteSet(Entitled(limit)')
    BY EntitledReserved, CountedFinite, FS_Subset
<1>2. Cardinality(Loaded') \in Nat /\ Cardinality(Entitled(limit)') \in Nat
    BY <1>1, FS_CardinalityType
<1> QED
    BY <1>1, <1>2, EntitledReserved, CountedFinite DEF Within

\* A call that was granted memory is replaced by the block it was for.
LEMMA WithinLoaded ==
    ASSUME StructInv, MemoryAccounted, NEW limit \in Nat, Within(limit),
           NEW t, NEW h, Loaded' = Loaded \cup {h}, h \notin Loaded,
           Entitled(limit)' = Entitled(limit) \ {t}, t \in Entitled(limit)
    PROVE  Within(limit)'
<1>1. Cardinality(Loaded') = Cardinality(Loaded) + 1
    BY CountedFinite, CountAdded
<1>2. Cardinality(Entitled(limit)') = Cardinality(Entitled(limit)) - 1
    BY EntitledReserved, CountRemoved
<1> QED
    BY <1>1, <1>2, EntitledReserved, CountedFinite DEF Within

LEMMA CallLimits ==
    ASSUME StructInv
    PROVE  /\ \A t \in Threads : call[t].limit \in Nat /\ call[t].old_limit \in Nat
           /\ current_memory \in Nat /\ maximum_memory \in Nat
BY DEF StructInv, TypeOK, Calls

\* What is within a limit stays so, if no call that read a higher one reserves memory.
LEMMA WithinPreserved ==
    ASSUME StructInv, MemoryAccounted, NEW t \in Threads, Effect(t),
           NEW limit \in Nat, Within(limit), At(t, "reserve") => call[t].limit <= limit
    PROVE  Within(limit)'
<1>1. ASSUME NEW h \in Handles, RegisteredAgain(t, h)
      PROVE  Within(limit)'
    <2>1. Loaded' \subseteq Loaded
        BY <1>1 DEF RegisteredAgain, Loaded
    <2>2. Entitled(limit)' \subseteq Entitled(limit)
        BY <1>1 DEF RegisteredAgain, Entitled, Granted, Reserved, At
    <2> QED
        BY <2>1, <2>2, WithinSmaller
<1>2. ASSUME NEW b \in DiskBlocks, NEW h \in Handles, RegisteredFirst(t, b, h)
      PROVE  Within(limit)'
    <2>1. Loaded' \subseteq Loaded
        BY <1>2 DEF RegisteredFirst, HandleStep, Loaded, StructInv, SlotInv, NoObject
    <2>2. Entitled(limit)' \subseteq Entitled(limit)
        BY <1>2 DEF RegisteredFirst, Entitled, Granted, Reserved, At
    <2> QED
        BY <2>1, <2>2, WithinSmaller
<1>3. ASSUME NEW kind \in {"temporary", "once"}, MemoryStarted(t, kind)
      PROVE  Within(limit)'
    <2>1. Loaded' \subseteq Loaded
        BY <1>3 DEF MemoryStarted, Loaded
    <2>2. Entitled(limit)' \subseteq Entitled(limit)
        BY <1>3 DEF MemoryStarted, CallStep, Entitled, Granted, Reserved, At, IsIdle,
            StructInv, PlaceInv
    <2> QED
        BY <2>1, <2>2, WithinSmaller
<1>4. CASE Numbered(t)
    <2>1. Loaded' \subseteq Loaded
        BY <1>4 DEF Numbered, Loaded
    <2>2. Entitled(limit)' \subseteq Entitled(limit)
        BY <1>4 DEF Numbered, CallStep, Moved, Entitled, Granted, Reserved, At, IsIdle,
            StructInv, PlaceInv
    <2> QED
        BY <2>1, <2>2, WithinSmaller
<1>5. ASSUME NEW h \in Handles, OnceCreated(t, h)
      PROVE  Within(limit)'
    <2>1. Loaded' = Loaded \cup {h} /\ h \notin Loaded
        BY <1>5 DEF OnceCreated, HandleStep, Loaded, StructInv, SlotInv, NoObject
    <2>2. Entitled(limit)' = Entitled(limit) \ {t} /\ t \in Entitled(limit)
        BY <1>5 DEF OnceCreated, CallStep, Ended, Entitled, Granted, Reserved, At, IsIdle,
            StructInv, PlaceInv
    <2> QED
        BY <2>1, <2>2, WithinLoaded
<1>6. ASSUME NEW h \in Handles, TemporaryCreated(t, h)
      PROVE  Within(limit)'
    <2>1. Loaded' = Loaded \cup {h} /\ h \notin Loaded
        BY <1>6 DEF TemporaryCreated, HandleStep, Loaded, StructInv, SlotInv, NoObject
    <2>2. Entitled(limit)' = Entitled(limit) \ {t} /\ t \in Entitled(limit)
        BY <1>6 DEF TemporaryCreated, CallStep, Ended, Entitled, Granted, Reserved, At,
            IsIdle, StructInv, PlaceInv
    <2> QED
        BY <2>1, <2>2, WithinLoaded
<1>7. ASSUME NEW h \in Handles, PinnedLoaded(t, h)
      PROVE  Within(limit)'
    <2>1. Loaded' \subseteq Loaded
        BY <1>7 DEF PinnedLoaded, HandleStep, Loaded
    <2>2. Entitled(limit)' \subseteq Entitled(limit)
        BY <1>7 DEF PinnedLoaded, Entitled, Granted, Reserved, At
    <2> QED
        BY <2>1, <2>2, WithinSmaller
<1>8. ASSUME NEW h \in Handles, PinStarted(t, h)
      PROVE  Within(limit)'
    <2>1. Loaded' \subseteq Loaded
        BY <1>8 DEF PinStarted, HandleStep, Loaded
    <2>2. Entitled(limit)' \subseteq Entitled(limit)
        BY <1>8 DEF PinStarted, CallStep, Entitled, Granted, Reserved, At, IsIdle,
            StructInv, PlaceInv
    <2> QED
        BY <2>1, <2>2, WithinSmaller
<1>9. ASSUME NEW h \in Handles, TargetLoaded(t, h)
      PROVE  Within(limit)'
    <2>1. Loaded' = Loaded \cup {h} /\ h \notin Loaded
        BY <1>9 DEF TargetLoaded, HandleStep, Loaded, StructInv, PlaceInv, PinInv, At
    <2>2. Entitled(limit)' = Entitled(limit) \ {t} /\ t \in Entitled(limit)
        BY <1>9 DEF TargetLoaded, CallStep, Ended, Entitled, Granted, Reserved, At, IsIdle,
            StructInv, PlaceInv
    <2> QED
        BY <2>1, <2>2, WithinLoaded
<1>10. ASSUME NEW h \in Handles, Written(t, h)
      PROVE  Within(limit)'
    <2>1. Loaded' \subseteq Loaded
        BY <1>10 DEF Written, HandleStep, Loaded
    <2>2. Entitled(limit)' \subseteq Entitled(limit)
        BY <1>10 DEF Written, Entitled, Granted, Reserved, At
    <2> QED
        BY <2>1, <2>2, WithinSmaller
<1>11. ASSUME NEW h \in Handles, UnpinnedLast(t, h)
      PROVE  Within(limit)'
    <2>1. Loaded' \subseteq Loaded
        BY <1>11 DEF UnpinnedLast, Unpinned, HandleStep, Loaded
    <2>2. Entitled(limit)' \subseteq Entitled(limit)
        BY <1>11 DEF UnpinnedLast, Unpinned, CallStep, Entitled, Granted, Reserved, At,
            IsIdle, StructInv, PlaceInv
    <2> QED
        BY <2>1, <2>2, WithinSmaller
<1>12. ASSUME NEW h \in Handles, UnpinnedOne(t, h)
      PROVE  Within(limit)'
    <2>1. Loaded' \subseteq Loaded
        BY <1>12 DEF UnpinnedOne, Unpinned, HandleStep, Loaded
    <2>2. Entitled(limit)' \subseteq Entitled(limit)
        BY <1>12 DEF UnpinnedOne, Unpinned, CallStep, Entitled, Granted, Reserved, At,
            IsIdle, StructInv, PlaceInv
    <2> QED
        BY <2>1, <2>2, WithinSmaller
<1>13. ASSUME NEW h \in Handles, OwnerDrops(t, h)
      PROVE  Within(limit)'
    <2>1. Loaded' \subseteq Loaded
        BY <1>13 DEF OwnerDrops, Loaded
    <2>2. Entitled(limit)' \subseteq Entitled(limit)
        BY <1>13 DEF OwnerDrops, CallStep, Entitled, Granted, Reserved, At, IsIdle,
            StructInv, PlaceInv
    <2> QED
        BY <2>1, <2>2, WithinSmaller
<1>14. ASSUME NEW h \in Handles, NEW pc \in {"idle", "check"}, Kept(t, h, pc)
      PROVE  Within(limit)'
    <2>1. Loaded' \subseteq Loaded
        BY <1>14 DEF Kept, Loaded
    <2>2. Entitled(limit)' \subseteq Entitled(limit)
        BY <1>14 DEF Kept, LetsGo, GoesOn, CallStep, Ended, Entitled, Granted, Reserved, At,
            IsIdle, StructInv, PlaceInv
    <2> QED
        BY <2>1, <2>2, WithinSmaller
<1>15. ASSUME NEW h \in Handles, NEW pc \in {"idle", "check"}, Destroyed(t, h, pc)
      PROVE  Within(limit)'
    <2>1. Loaded' \subseteq Loaded
        BY <1>15 DEF Destroyed, HandleGone, Loaded, NoObject
    <2>2. Entitled(limit)' \subseteq Entitled(limit)
        BY <1>15 DEF Destroyed, LetsGo, GoesOn, CallStep, Ended, Entitled, Granted,
            Reserved, At, IsIdle, StructInv, PlaceInv
    <2> QED
        BY <2>1, <2>2, WithinSmaller
<1>16. ASSUME NEW h \in Handles, NEW pc \in {"idle", "check"}, Destructing(t, h, pc)
      PROVE  Within(limit)'
    <2>1. Loaded' \subseteq Loaded
        BY <1>16 DEF Destructing, HandleStep, Loaded
    <2>2. Entitled(limit)' \subseteq Entitled(limit)
        BY <1>16 DEF Destructing, LetsGo, CallStep, Entitled, Granted, Reserved, At, IsIdle,
            StructInv, PlaceInv
    <2> QED
        BY <2>1, <2>2, WithinSmaller
<1>17. ASSUME NEW h \in Handles, Unregistered(t, h)
      PROVE  Within(limit)'
    <2>1. Loaded' \subseteq Loaded
        BY <1>17 DEF Unregistered, HandleGone, Loaded, StructInv, DestructorInv, NoObject
    <2>2. Entitled(limit)' \subseteq Entitled(limit)
        BY <1>17 DEF Unregistered, GoesOn, CallStep, Ended, Entitled, Granted, Reserved, At,
            IsIdle, StructInv, PlaceInv
    <2> QED
        BY <2>1, <2>2, WithinSmaller
<1>18. CASE MemoryReserved(t)
    <2>1. Loaded' \subseteq Loaded
        BY <1>18 DEF MemoryReserved, Loaded
    <2>2. Entitled(limit)' \subseteq Entitled(limit)
        BY <1>18, CallLimits DEF MemoryReserved, CallStep, Moved, Entitled, Granted,
            Reserved, At, IsIdle, StructInv, PlaceInv
    <2> QED
        BY <2>1, <2>2, WithinSmaller
<1>19. CASE LimitExceeded(t)
    <2>1. Loaded' \subseteq Loaded
        BY <1>19 DEF LimitExceeded, Loaded
    <2>2. Entitled(limit)' \subseteq Entitled(limit)
        BY <1>19 DEF LimitExceeded, CallStep, Moved, Entitled, Granted, Reserved, At,
            IsIdle, StructInv, PlaceInv
    <2> QED
        BY <2>1, <2>2, WithinSmaller
<1>20. CASE RoomFound(t)
    <2>1. Loaded' = Loaded /\ Entitled(limit)' \subseteq Reserved
        BY <1>20 DEF RoomFound, CallStep, Moved, Passes, Loaded, Entitled, Granted, Reserved, At,
            StructInv, PlaceInv
    <2>2. CASE call[t].limit <= limit
        <3>1. IsFiniteSet(Entitled(limit)') /\ Cardinality(Entitled(limit)') <= Cardinality(Reserved)
            BY <2>1, CountedFinite, FS_Subset
        <3>2. Cardinality(Entitled(limit)') \in Nat
            BY <3>1, FS_CardinalityType
        <3>3. current_memory <= call[t].limit
            BY <1>20 DEF RoomFound
        <3> QED
            BY <2>1, <2>2, <3>1, <3>2, <3>3, CallLimits, CountedFinite
                DEF Within, MemoryAccounted
    <2>3. CASE call[t].limit > limit
        <3>1. Entitled(limit)' \subseteq Entitled(limit)
            BY <1>20, <2>3 DEF RoomFound, CallStep, Moved, Passes, Entitled, Granted, Reserved,
                At, StructInv, PlaceInv
        <3> QED
            BY <2>1, <3>1, WithinSmaller
    <2> QED
        BY <2>2, <2>3, CallLimits
<1>21. CASE LimitSet(t)
    <2>1. Loaded' \subseteq Loaded
        BY <1>21 DEF LimitSet, Loaded
    <2>2. Entitled(limit)' \subseteq Entitled(limit)
        BY <1>21 DEF LimitSet, CallStep, Ended, Entitled, Granted, Reserved, At, IsIdle,
            StructInv, PlaceInv
    <2> QED
        BY <2>1, <2>2, WithinSmaller
<1>22. CASE Refused(t)
    <2>1. Loaded' \subseteq Loaded
        BY <1>22 DEF Refused, HandleStep, Loaded
    <2>2. Entitled(limit)' \subseteq Entitled(limit)
        BY <1>22 DEF Refused, CallStep, Ended, Entitled, Granted, Reserved, At, IsIdle,
            StructInv, PlaceInv
    <2> QED
        BY <2>1, <2>2, WithinSmaller
<1>23. ASSUME NEW h \in Handles, NEW timestamp \in Nat, VictimChosen(t, h, timestamp)
      PROVE  Within(limit)'
    <2>1. Loaded' \subseteq Loaded
        BY <1>23 DEF VictimChosen, Loaded
    <2>2. Entitled(limit)' \subseteq Entitled(limit)
        BY <1>23 DEF VictimChosen, CallStep, Entitled, Granted, Reserved, At, IsIdle,
            StructInv, PlaceInv
    <2> QED
        BY <2>1, <2>2, WithinSmaller
<1>24. ASSUME NEW h \in Handles, NEW timestamp \in Nat, NodeSkipped(t, h, timestamp)
      PROVE  Within(limit)'
    <2>1. Loaded' \subseteq Loaded
        BY <1>24 DEF NodeSkipped, Loaded
    <2>2. Entitled(limit)' \subseteq Entitled(limit)
        BY <1>24 DEF NodeSkipped, CallStep, Moved, Entitled, Granted, Reserved, At, IsIdle,
            StructInv, PlaceInv
    <2> QED
        BY <2>1, <2>2, WithinSmaller
<1>25. CASE VictimSpared(t)
    <2>1. Loaded' \subseteq Loaded
        BY <1>25 DEF VictimSpared, Loaded
    <2>2. Entitled(limit)' \subseteq Entitled(limit)
        BY <1>25 DEF VictimSpared, CallStep, Moved, Entitled, Granted, Reserved, At, IsIdle,
            StructInv, PlaceInv
    <2> QED
        BY <2>1, <2>2, WithinSmaller
<1>26. ASSUME NEW h \in Handles, VictimUnloaded(t, h)
      PROVE  Within(limit)'
    <2>1. Loaded' \subseteq Loaded
        BY <1>26 DEF VictimUnloaded, HandleStep, Loaded
    <2>2. Entitled(limit)' \subseteq Entitled(limit)
        BY <1>26 DEF VictimUnloaded, CallStep, Moved, Entitled, Granted, Reserved, At,
            IsIdle, StructInv, PlaceInv
    <2> QED
        BY <2>1, <2>2, WithinSmaller
<1>27. CASE LimitChanged(t)
    <2>1. Loaded' \subseteq Loaded
        BY <1>27 DEF LimitChanged, Loaded
    <2>2. Entitled(limit)' \subseteq Entitled(limit)
        BY <1>27 DEF LimitChanged, CallStep, Entitled, Granted, Reserved, At, IsIdle,
            StructInv, PlaceInv
    <2> QED
        BY <2>1, <2>2, WithinSmaller
<1>28. CASE LimitStarted(t)
    <2>1. Loaded' \subseteq Loaded
        BY <1>28 DEF LimitStarted, Loaded
    <2>2. Entitled(limit)' \subseteq Entitled(limit)
        BY <1>28 DEF LimitStarted, CallStep, Entitled, Granted, Reserved, At, IsIdle,
            StructInv, PlaceInv
    <2> QED
        BY <2>1, <2>2, WithinSmaller
<1> QED
    BY <1>1, <1>2, <1>3, <1>4, <1>5, <1>6, <1>7, <1>8, <1>9, <1>10, <1>11, <1>12, <1>13, <1>14,
        <1>15, <1>16, <1>17, <1>18, <1>19, <1>20, <1>21, <1>22, <1>23, <1>24, <1>25, <1>26, <1>27, <1>28 DEF Effect

\* Steps that change neither the limit nor a call of SetLimit that changed it.
LEMMA QuietLimit ==
    ASSUME StructInv, MemoryAccounted, LimitInv, NEW t \in Threads, Effect(t),
           ~At(t, "reserve"), maximum_memory' = maximum_memory, stale' = stale,
           \A u \in Threads :
             /\ call'[u].kind = "limit_again" <=> call[u].kind = "limit_again"
             /\ call[u].kind = "limit_again" => /\ call'[u].limit = call[u].limit
                                                /\ call'[u].old_limit = call[u].old_limit
    PROVE  LimitInv'
<1>1. \A limit \in Nat : Within(limit) => Within(limit)'
    BY WithinPreserved
<1>2. PICK m \in Nat : m = maximum_memory
    BY CallLimits
<1>3. ASSUME ~stale, \A u \in Threads : call[u].kind # "limit_again"
      PROVE  Within(maximum_memory)'
    <2>1. Within(m)'
        BY <1>1, <1>2, <1>3 DEF LimitInv
    <2>2. m = maximum_memory'
        BY <1>2
    <2> QED
        BY <2>1, <2>2 DEF Within, Entitled
<1>4. ASSUME ~stale, NEW u \in Threads, call[u].kind = "limit_again",
             call[u].old_limit >= call[u].limit
      PROVE  Within(call[u].old_limit)'
    <2>1. PICK l \in Nat : l = call[u].old_limit
        BY CallLimits
    <2>2. Within(l)'
        BY <1>1, <1>4, <2>1 DEF LimitInv
    <2>3. l = call'[u].old_limit
        BY <1>4, <2>1
    <2> QED
        BY <2>2, <2>3 DEF Within, Entitled
<1> QED
    BY <1>3, <1>4 DEF LimitInv

\* The memory of the calls that read a higher limit is counted when it is lowered.
LEMMA LimitPreserved ==
    ASSUME StructInv, MemoryAccounted, LimitLockInv, LimitInv, NEW t \in Threads, Effect(t)
    PROVE  LimitInv'
<1>1. ASSUME NEW h \in Handles, RegisteredAgain(t, h)
      PROVE  LimitInv'
    <2>1. /\ ~At(t, "reserve") /\ maximum_memory' = maximum_memory /\ stale' = stale
          /\ \A u \in Threads :
               /\ call'[u].kind = "limit_again" <=> call[u].kind = "limit_again"
               /\ call[u].kind = "limit_again" => /\ call'[u].limit = call[u].limit
                                                  /\ call'[u].old_limit = call[u].old_limit
        BY <1>1 DEF RegisteredAgain, StructInv, PlaceInv, At, IsIdle, memory
    <2> QED
        BY <1>1, <2>1, QuietLimit DEF Effect
<1>2. ASSUME NEW b \in DiskBlocks, NEW h \in Handles, RegisteredFirst(t, b, h)
      PROVE  LimitInv'
    <2>1. /\ ~At(t, "reserve") /\ maximum_memory' = maximum_memory /\ stale' = stale
          /\ \A u \in Threads :
               /\ call'[u].kind = "limit_again" <=> call[u].kind = "limit_again"
               /\ call[u].kind = "limit_again" => /\ call'[u].limit = call[u].limit
                                                  /\ call'[u].old_limit = call[u].old_limit
        BY <1>2 DEF RegisteredFirst, StructInv, PlaceInv, At, IsIdle, memory
    <2> QED
        BY <1>2, <2>1, QuietLimit DEF Effect
<1>3. ASSUME NEW kind \in {"temporary", "once"}, MemoryStarted(t, kind)
      PROVE  LimitInv'
    <2>1. /\ ~At(t, "reserve") /\ maximum_memory' = maximum_memory /\ stale' = stale
          /\ \A u \in Threads :
               /\ call'[u].kind = "limit_again" <=> call[u].kind = "limit_again"
               /\ call[u].kind = "limit_again" => /\ call'[u].limit = call[u].limit
                                                  /\ call'[u].old_limit = call[u].old_limit
        BY <1>3 DEF MemoryStarted, CallStep, StructInv, PlaceInv, At, IsIdle, memory
    <2> QED
        BY <1>3, <2>1, QuietLimit DEF Effect
<1>4. CASE Numbered(t)
    <2>1. /\ ~At(t, "reserve") /\ maximum_memory' = maximum_memory /\ stale' = stale
          /\ \A u \in Threads :
               /\ call'[u].kind = "limit_again" <=> call[u].kind = "limit_again"
               /\ call[u].kind = "limit_again" => /\ call'[u].limit = call[u].limit
                                                  /\ call'[u].old_limit = call[u].old_limit
        BY <1>4 DEF Numbered, CallStep, Moved, StructInv, PlaceInv, At, IsIdle, memory
    <2> QED
        BY <1>4, <2>1, QuietLimit DEF Effect
<1>5. ASSUME NEW h \in Handles, OnceCreated(t, h)
      PROVE  LimitInv'
    <2>1. /\ ~At(t, "reserve") /\ maximum_memory' = maximum_memory /\ stale' = stale
          /\ \A u \in Threads :
               /\ call'[u].kind = "limit_again" <=> call[u].kind = "limit_again"
               /\ call[u].kind = "limit_again" => /\ call'[u].limit = call[u].limit
                                                  /\ call'[u].old_limit = call[u].old_limit
        BY <1>5 DEF OnceCreated, CallStep, Ended, StructInv, PlaceInv, At, IsIdle, memory
    <2> QED
        BY <1>5, <2>1, QuietLimit DEF Effect
<1>6. ASSUME NEW h \in Handles, TemporaryCreated(t, h)
      PROVE  LimitInv'
    <2>1. /\ ~At(t, "reserve") /\ maximum_memory' = maximum_memory /\ stale' = stale
          /\ \A u \in Threads :
               /\ call'[u].kind = "limit_again" <=> call[u].kind = "limit_again"
               /\ call[u].kind = "limit_again" => /\ call'[u].limit = call[u].limit
                                                  /\ call'[u].old_limit = call[u].old_limit
        BY <1>6 DEF TemporaryCreated, CallStep, Ended, StructInv, PlaceInv, At, IsIdle,
            memory
    <2> QED
        BY <1>6, <2>1, QuietLimit DEF Effect
<1>7. ASSUME NEW h \in Handles, PinnedLoaded(t, h)
      PROVE  LimitInv'
    <2>1. /\ ~At(t, "reserve") /\ maximum_memory' = maximum_memory /\ stale' = stale
          /\ \A u \in Threads :
               /\ call'[u].kind = "limit_again" <=> call[u].kind = "limit_again"
               /\ call[u].kind = "limit_again" => /\ call'[u].limit = call[u].limit
                                                  /\ call'[u].old_limit = call[u].old_limit
        BY <1>7 DEF PinnedLoaded, StructInv, PlaceInv, At, IsIdle, memory
    <2> QED
        BY <1>7, <2>1, QuietLimit DEF Effect
<1>8. ASSUME NEW h \in Handles, PinStarted(t, h)
      PROVE  LimitInv'
    <2>1. /\ ~At(t, "reserve") /\ maximum_memory' = maximum_memory /\ stale' = stale
          /\ \A u \in Threads :
               /\ call'[u].kind = "limit_again" <=> call[u].kind = "limit_again"
               /\ call[u].kind = "limit_again" => /\ call'[u].limit = call[u].limit
                                                  /\ call'[u].old_limit = call[u].old_limit
        BY <1>8 DEF PinStarted, CallStep, StructInv, PlaceInv, At, IsIdle, memory
    <2> QED
        BY <1>8, <2>1, QuietLimit DEF Effect
<1>9. ASSUME NEW h \in Handles, TargetLoaded(t, h)
      PROVE  LimitInv'
    <2>1. /\ ~At(t, "reserve") /\ maximum_memory' = maximum_memory /\ stale' = stale
          /\ \A u \in Threads :
               /\ call'[u].kind = "limit_again" <=> call[u].kind = "limit_again"
               /\ call[u].kind = "limit_again" => /\ call'[u].limit = call[u].limit
                                                  /\ call'[u].old_limit = call[u].old_limit
        BY <1>9 DEF TargetLoaded, CallStep, Ended, StructInv, PlaceInv, At, IsIdle, memory
    <2> QED
        BY <1>9, <2>1, QuietLimit DEF Effect
<1>10. ASSUME NEW h \in Handles, Written(t, h)
      PROVE  LimitInv'
    <2>1. /\ ~At(t, "reserve") /\ maximum_memory' = maximum_memory /\ stale' = stale
          /\ \A u \in Threads :
               /\ call'[u].kind = "limit_again" <=> call[u].kind = "limit_again"
               /\ call[u].kind = "limit_again" => /\ call'[u].limit = call[u].limit
                                                  /\ call'[u].old_limit = call[u].old_limit
        BY <1>10 DEF Written, StructInv, PlaceInv, At, IsIdle, memory
    <2> QED
        BY <1>10, <2>1, QuietLimit DEF Effect
<1>11. ASSUME NEW h \in Handles, UnpinnedLast(t, h)
      PROVE  LimitInv'
    <2>1. /\ ~At(t, "reserve") /\ maximum_memory' = maximum_memory /\ stale' = stale
          /\ \A u \in Threads :
               /\ call'[u].kind = "limit_again" <=> call[u].kind = "limit_again"
               /\ call[u].kind = "limit_again" => /\ call'[u].limit = call[u].limit
                                                  /\ call'[u].old_limit = call[u].old_limit
        BY <1>11 DEF UnpinnedLast, Unpinned, CallStep, StructInv, PlaceInv, At, IsIdle,
            memory
    <2> QED
        BY <1>11, <2>1, QuietLimit DEF Effect
<1>12. ASSUME NEW h \in Handles, UnpinnedOne(t, h)
      PROVE  LimitInv'
    <2>1. /\ ~At(t, "reserve") /\ maximum_memory' = maximum_memory /\ stale' = stale
          /\ \A u \in Threads :
               /\ call'[u].kind = "limit_again" <=> call[u].kind = "limit_again"
               /\ call[u].kind = "limit_again" => /\ call'[u].limit = call[u].limit
                                                  /\ call'[u].old_limit = call[u].old_limit
        BY <1>12 DEF UnpinnedOne, Unpinned, CallStep, StructInv, PlaceInv, At, IsIdle,
            memory
    <2> QED
        BY <1>12, <2>1, QuietLimit DEF Effect
<1>13. ASSUME NEW h \in Handles, OwnerDrops(t, h)
      PROVE  LimitInv'
    <2>1. /\ ~At(t, "reserve") /\ maximum_memory' = maximum_memory /\ stale' = stale
          /\ \A u \in Threads :
               /\ call'[u].kind = "limit_again" <=> call[u].kind = "limit_again"
               /\ call[u].kind = "limit_again" => /\ call'[u].limit = call[u].limit
                                                  /\ call'[u].old_limit = call[u].old_limit
        BY <1>13 DEF OwnerDrops, CallStep, StructInv, PlaceInv, At, IsIdle, memory
    <2> QED
        BY <1>13, <2>1, QuietLimit DEF Effect
<1>14. ASSUME NEW h \in Handles, NEW pc \in {"idle", "check"}, Kept(t, h, pc)
      PROVE  LimitInv'
    <2>1. /\ ~At(t, "reserve") /\ maximum_memory' = maximum_memory /\ stale' = stale
          /\ \A u \in Threads :
               /\ call'[u].kind = "limit_again" <=> call[u].kind = "limit_again"
               /\ call[u].kind = "limit_again" => /\ call'[u].limit = call[u].limit
                                                  /\ call'[u].old_limit = call[u].old_limit
        BY <1>14 DEF Kept, LetsGo, GoesOn, CallStep, Ended, StructInv, PlaceInv, At, IsIdle,
            memory
    <2> QED
        BY <1>14, <2>1, QuietLimit DEF Effect
<1>15. ASSUME NEW h \in Handles, NEW pc \in {"idle", "check"}, Destroyed(t, h, pc)
      PROVE  LimitInv'
    <2>1. /\ ~At(t, "reserve") /\ maximum_memory' = maximum_memory /\ stale' = stale
          /\ \A u \in Threads :
               /\ call'[u].kind = "limit_again" <=> call[u].kind = "limit_again"
               /\ call[u].kind = "limit_again" => /\ call'[u].limit = call[u].limit
                                                  /\ call'[u].old_limit = call[u].old_limit
        BY <1>15 DEF Destroyed, LetsGo, GoesOn, CallStep, Ended, StructInv, PlaceInv, At,
            IsIdle, memory
    <2> QED
        BY <1>15, <2>1, QuietLimit DEF Effect
<1>16. ASSUME NEW h \in Handles, NEW pc \in {"idle", "check"}, Destructing(t, h, pc)
      PROVE  LimitInv'
    <2>1. /\ ~At(t, "reserve") /\ maximum_memory' = maximum_memory /\ stale' = stale
          /\ \A u \in Threads :
               /\ call'[u].kind = "limit_again" <=> call[u].kind = "limit_again"
               /\ call[u].kind = "limit_again" => /\ call'[u].limit = call[u].limit
                                                  /\ call'[u].old_limit = call[u].old_limit
        BY <1>16 DEF Destructing, LetsGo, CallStep, StructInv, PlaceInv, At, IsIdle, memory
    <2> QED
        BY <1>16, <2>1, QuietLimit DEF Effect
<1>17. ASSUME NEW h \in Handles, Unregistered(t, h)
      PROVE  LimitInv'
    <2>1. /\ ~At(t, "reserve") /\ maximum_memory' = maximum_memory /\ stale' = stale
          /\ \A u \in Threads :
               /\ call'[u].kind = "limit_again" <=> call[u].kind = "limit_again"
               /\ call[u].kind = "limit_again" => /\ call'[u].limit = call[u].limit
                                                  /\ call'[u].old_limit = call[u].old_limit
        BY <1>17 DEF Unregistered, GoesOn, CallStep, Ended, StructInv, PlaceInv, At, IsIdle,
            memory
    <2> QED
        BY <1>17, <2>1, QuietLimit DEF Effect
<1>18. CASE MemoryReserved(t)
    <2>0. /\ maximum_memory' = maximum_memory
          /\ \A u \in Threads : /\ call'[u].kind = call[u].kind /\ call'[u].limit = call[u].limit
                                /\ call'[u].old_limit = call[u].old_limit
        BY <1>18 DEF MemoryReserved, Moved, CallStep
    <2>1. ASSUME NEW limit \in Nat, Within(limit), call[t].limit <= limit
          PROVE  Within(limit)'
        BY <2>1, <1>18, WithinPreserved DEF Effect
    <2>2. PICK m \in Nat : m = maximum_memory
        BY CallLimits
    <2>3. ASSUME ~stale', \A u \in Threads : call[u].kind # "limit_again"
          PROVE  Within(maximum_memory)'
        <3>0. stale \in BOOLEAN
            BY DEF StructInv, TypeOK
        <3>3. ~stale /\ ~(call[t].limit > maximum_memory)
            BY <1>18, <2>3, <3>0, Zenon DEF MemoryReserved
        <3>1. call[t].limit <= m
            BY <2>2, <3>3, CallLimits
        <3>2. Within(m)'
            BY <2>1, <2>2, <2>3, <3>1, <3>3 DEF LimitInv
        <3> QED
            BY <2>0, <2>2, <3>2 DEF Within, Entitled
    <2>4. ASSUME ~stale', NEW u \in Threads, call[u].kind = "limit_again",
                 call[u].old_limit >= call[u].limit
          PROVE  Within(call[u].old_limit)'
        <3>1. PICK l \in Nat : l = call[u].old_limit
            BY CallLimits
        <3>2. /\ call[u].limit = maximum_memory
              /\ \A v \in Threads : call[v].kind = "limit_again" => v = u
            BY <2>4 DEF LimitLockInv
        <3>0. stale \in BOOLEAN
            BY DEF StructInv, TypeOK
        <3>5. /\ ~stale
              /\ ~(call[t].limit > maximum_memory)
                   \/ \E v \in Threads : /\ call[v].kind = "limit_again"
                                        /\ ~(call[v].old_limit < call[t].limit)
            BY <1>18, <2>4, <3>0, Zenon DEF MemoryReserved
        <3>6. call[t].limit <= call[u].limit \/ call[t].limit <= call[u].old_limit
            BY <3>2, <3>5, CallLimits
        <3>3. call[t].limit <= l
            BY <2>4, <3>1, <3>6, CallLimits
        <3>4. Within(l)'
            BY <2>1, <2>4, <3>1, <3>3, <3>5 DEF LimitInv
        <3> QED
            BY <2>0, <3>1, <3>4 DEF Within, Entitled
    <2> QED
        BY <2>0, <2>3, <2>4 DEF LimitInv
<1>19. CASE LimitExceeded(t)
    <2>1. /\ ~At(t, "reserve") /\ maximum_memory' = maximum_memory /\ stale' = stale
          /\ \A u \in Threads :
               /\ call'[u].kind = "limit_again" <=> call[u].kind = "limit_again"
               /\ call[u].kind = "limit_again" => /\ call'[u].limit = call[u].limit
                                                  /\ call'[u].old_limit = call[u].old_limit
        BY <1>19 DEF LimitExceeded, CallStep, Moved, StructInv, PlaceInv, At, IsIdle, memory
    <2> QED
        BY <1>19, <2>1, QuietLimit DEF Effect
<1>20. CASE RoomFound(t)
    <2>1. /\ ~At(t, "reserve") /\ maximum_memory' = maximum_memory /\ stale' = stale
          /\ \A u \in Threads :
               /\ call'[u].kind = "limit_again" <=> call[u].kind = "limit_again"
               /\ call[u].kind = "limit_again" => /\ call'[u].limit = call[u].limit
                                                  /\ call'[u].old_limit = call[u].old_limit
        BY <1>20 DEF RoomFound, Passes, CallStep, Moved, StructInv, PlaceInv, At, IsIdle,
            memory
    <2> QED
        BY <1>20, <2>1, QuietLimit DEF Effect
<1>21. CASE LimitSet(t)
    <2>0. /\ maximum_memory' = maximum_memory
          /\ \A u \in Threads : call'[u].kind # "limit_again"
        BY <1>21 DEF LimitSet, Ended, CallStep, LimitLockInv, memory
    <2>1. PICK m \in Nat : m = maximum_memory
        BY CallLimits
    <2>2. current_memory <= m
        BY <1>21, <2>1 DEF LimitSet, LimitLockInv
    <2>3. Within(m)
        BY <2>2, EntitledReserved, CallLimits, CountedFinite DEF Within
    <2>4. ~At(t, "reserve")
        BY <1>21 DEF LimitSet, At
    <2>5. Within(m)'
        BY <1>21, <2>3, <2>4, WithinPreserved DEF Effect
    <2>6. Within(maximum_memory)'
        BY <2>0, <2>1, <2>5 DEF Within, Entitled
    <2> QED
        BY <2>0, <2>6 DEF LimitInv
<1>22. CASE Refused(t)
    <2>0. ~At(t, "reserve") /\ \A u \in Threads \ {t} : call'[u] = call[u]
        BY <1>22 DEF Refused, Ended, CallStep, At
    <2>1. CASE call[t].kind = "limit_again"
        <3>1. /\ \A u \in Threads : call'[u].kind # "limit_again"
              /\ maximum_memory' = call[t].old_limit
              /\ stale' = (stale \/ call[t].old_limit < call[t].limit)
            BY <1>22, <2>1 DEF Refused, Ended, CallStep, LimitLockInv
        <3>2. PICK l \in Nat : l = call[t].old_limit
            BY CallLimits
        <3>6. stale \in BOOLEAN
            BY DEF StructInv, TypeOK
        <3>7. ~stale' => ~stale /\ ~(call[t].old_limit < call[t].limit)
            BY <3>1, <3>6, Zenon
        <3>8. ~(call[t].old_limit < call[t].limit) => call[t].old_limit >= call[t].limit
            BY CallLimits
        <3>3. ~stale' => Within(l)
            BY <2>1, <3>2, <3>7, <3>8 DEF LimitInv
        <3>4. ~stale' => Within(l)'
            BY <1>22, <2>0, <3>3, WithinPreserved DEF Effect
        <3>5. ~stale' => Within(maximum_memory)'
            BY <3>1, <3>2, <3>4 DEF Within, Entitled
        <3> QED
            BY <3>1, <3>5 DEF LimitInv
    <2>2. CASE call[t].kind # "limit_again"
        <3>1. maximum_memory' = maximum_memory /\ stale' = stale
            BY <1>22, <2>2 DEF Refused, StructInv, TypeOK
        <3>2. Effect(t) /\ call'[t].kind = "none"
            BY <1>22 DEF Effect, Refused, Ended, CallStep
        <3> QED
            BY <2>0, <2>2, <3>1, <3>2, QuietLimit
    <2> QED
        BY <2>1, <2>2
<1>23. ASSUME NEW h \in Handles, NEW timestamp \in Nat, VictimChosen(t, h, timestamp)
      PROVE  LimitInv'
    <2>1. /\ ~At(t, "reserve") /\ maximum_memory' = maximum_memory /\ stale' = stale
          /\ \A u \in Threads :
               /\ call'[u].kind = "limit_again" <=> call[u].kind = "limit_again"
               /\ call[u].kind = "limit_again" => /\ call'[u].limit = call[u].limit
                                                  /\ call'[u].old_limit = call[u].old_limit
        BY <1>23 DEF VictimChosen, CallStep, StructInv, PlaceInv, At, IsIdle, memory
    <2> QED
        BY <1>23, <2>1, QuietLimit DEF Effect
<1>24. ASSUME NEW h \in Handles, NEW timestamp \in Nat, NodeSkipped(t, h, timestamp)
      PROVE  LimitInv'
    <2>1. /\ ~At(t, "reserve") /\ maximum_memory' = maximum_memory /\ stale' = stale
          /\ \A u \in Threads :
               /\ call'[u].kind = "limit_again" <=> call[u].kind = "limit_again"
               /\ call[u].kind = "limit_again" => /\ call'[u].limit = call[u].limit
                                                  /\ call'[u].old_limit = call[u].old_limit
        BY <1>24 DEF NodeSkipped, CallStep, Moved, StructInv, PlaceInv, At, IsIdle, memory
    <2> QED
        BY <1>24, <2>1, QuietLimit DEF Effect
<1>25. CASE VictimSpared(t)
    <2>1. /\ ~At(t, "reserve") /\ maximum_memory' = maximum_memory /\ stale' = stale
          /\ \A u \in Threads :
               /\ call'[u].kind = "limit_again" <=> call[u].kind = "limit_again"
               /\ call[u].kind = "limit_again" => /\ call'[u].limit = call[u].limit
                                                  /\ call'[u].old_limit = call[u].old_limit
        BY <1>25 DEF VictimSpared, CallStep, Moved, StructInv, PlaceInv, At, IsIdle, memory
    <2> QED
        BY <1>25, <2>1, QuietLimit DEF Effect
<1>26. ASSUME NEW h \in Handles, VictimUnloaded(t, h)
      PROVE  LimitInv'
    <2>1. /\ ~At(t, "reserve") /\ maximum_memory' = maximum_memory /\ stale' = stale
          /\ \A u \in Threads :
               /\ call'[u].kind = "limit_again" <=> call[u].kind = "limit_again"
               /\ call[u].kind = "limit_again" => /\ call'[u].limit = call[u].limit
                                                  /\ call'[u].old_limit = call[u].old_limit
        BY <1>26 DEF VictimUnloaded, CallStep, Moved, StructInv, PlaceInv, At, IsIdle,
            memory
    <2> QED
        BY <1>26, <2>1, QuietLimit DEF Effect
<1>27. CASE LimitChanged(t)
    <2>1. /\ call[t].kind = "limit" /\ ~At(t, "reserve")
          /\ \A u \in Threads : call[u].kind # "limit_again"
        BY <1>27 DEF LimitChanged, StructInv, PlaceInv, LimitLockInv, At
    <2>2. /\ call'[t].kind = "limit_again" /\ call'[t].old_limit = maximum_memory
          /\ \A u \in Threads \ {t} : call'[u].kind # "limit_again"
          /\ stale' = stale
        BY <1>27, <2>1 DEF LimitChanged, CallStep
    <2>3. PICK m \in Nat : m = maximum_memory
        BY CallLimits
    <2>4. ~stale => Within(m)'
        BY <1>27, <2>1, <2>3, WithinPreserved DEF Effect, LimitInv
    <2>5. ~stale => Within(call[t].old_limit)'
        BY <2>2, <2>3, <2>4 DEF Within, Entitled
    <2> QED
        BY <2>2, <2>5 DEF LimitInv
<1>28. CASE LimitStarted(t)
    <2>1. /\ ~At(t, "reserve") /\ maximum_memory' = maximum_memory /\ stale' = stale
          /\ \A u \in Threads :
               /\ call'[u].kind = "limit_again" <=> call[u].kind = "limit_again"
               /\ call[u].kind = "limit_again" => /\ call'[u].limit = call[u].limit
                                                  /\ call'[u].old_limit = call[u].old_limit
        BY <1>28 DEF LimitStarted, CallStep, StructInv, PlaceInv, At, IsIdle, memory
    <2> QED
        BY <1>28, <2>1, QuietLimit DEF Effect
<1> QED
    BY <1>1, <1>2, <1>3, <1>4, <1>5, <1>6, <1>7, <1>8, <1>9, <1>10, <1>11, <1>12, <1>13, <1>14,
        <1>15, <1>16, <1>17, <1>18, <1>19, <1>20, <1>21, <1>22, <1>23, <1>24, <1>25, <1>26, <1>27, <1>28 DEF Effect

\* The memory in use stays within the limit, also while SetLimit changes it and other
\* threads reserve memory or evict, with the two exceptions that stale records.
THEOREM LimitIsRespected ==
    ASSUME ReliableFiles
    PROVE  Spec => []LimitRespected
<1> DEFINE Inv == StructInv /\ MemoryAccounted /\ LimitLockInv /\ LimitInv
<1>1. Init => Inv
    <2> SUFFICES ASSUME Init PROVE Inv
        OBVIOUS
    <2>1. \A t \in Threads : call[t].kind = "none" /\ call[t].pc = "idle"
        BY DEF Init, Idle
    <2>2. LimitLockInv
        BY <2>1, BufferAssumption DEF Init, LimitLockInv
    <2>3. StructInv /\ MemoryAccounted
        BY InitStruct
    <2>4. Within(maximum_memory)
        <3>1. current_memory = 0 /\ maximum_memory \in Nat
            BY BufferAssumption DEF Init
        <3> QED
            BY <2>3, <3>1, EntitledReserved, CountedFinite DEF Within
    <2> QED
        BY <2>1, <2>2, <2>3, <2>4 DEF LimitInv
<1>2. Inv /\ [Next]_vars => Inv'
    <2> SUFFICES ASSUME Inv, [Next]_vars PROVE Inv'
        OBVIOUS
    <2>1. CASE UNCHANGED vars
        <3>1. StructInv' /\ MemoryAccounted'
            BY <2>1, StructUnchanged
        <3>2. LimitLockInv' /\ LimitInv'
            BY <2>1 DEF vars, memory, LimitLockInv, LimitInv, Within, Entitled, Granted,
                Reserved, Loaded, At
        <3> QED
            BY <3>1, <3>2
    <2>2. CASE Next
        BY <2>2, StructStep, LimitLockPreserved, LimitPreserved
    <2> QED
        BY <2>1, <2>2
<1>3. Inv => LimitRespected
    <2> SUFFICES ASSUME Inv, ~stale, \A t \in Threads : call[t].kind # "limit_again"
                 PROVE  Cardinality(Loaded) + Cardinality(Granted) <= maximum_memory
        BY DEF LimitRespected
    <2>1. maximum_memory \in Nat /\ Within(maximum_memory)
        BY CallLimits DEF LimitInv
    <2>2. Granted \subseteq Entitled(maximum_memory)
        BY DEF Entitled
    <2>3. /\ IsFiniteSet(Granted)
          /\ Cardinality(Granted) <= Cardinality(Entitled(maximum_memory))
        BY <2>1, <2>2, EntitledReserved, FS_Subset
    <2>4. Cardinality(Granted) \in Nat
        BY <2>3, FS_CardinalityType
    <2> QED
        BY <2>1, <2>3, <2>4, EntitledReserved, CountedFinite DEF Within
<1> HIDE DEF Inv
<1> QED
    BY <1>1, <1>2, <1>3, PTL DEF Spec

-----------------------------------------------------------------------------
(***************************************************************************)
(* What was written to a block is read again.                              *)
(***************************************************************************)
\* A handle that gets a file others have is recorded with them.
LEMMA SharedPreserved ==
    ASSUME StructInv, SharedInv, NEW t \in Threads, Effect(t)
    PROVE  SharedInv'
<1>1. ASSUME NEW h \in Handles, RegisteredAgain(t, h)
      PROVE  SharedInv'
    BY <1>1, Types DEF RegisteredAgain, SharedInv, OneFile, Exists,
        OnDisk
<1>2. ASSUME NEW b \in DiskBlocks, NEW h \in Handles, RegisteredFirst(t, b, h)
      PROVE  SharedInv'
    <2>1. /\ \A g \in Handles \ {h} : handle'[g] = handle[g]
          /\ handle'[h].block_id = b /\ shared' = shared
        BY <1>2 DEF RegisteredFirst, HandleStep
    <2> SUFFICES ASSUME NEW f \in Handles, NEW g \in Handles, OneFile(f, g)'
                 PROVE  g \in shared'
        BY DEF SharedInv
    <2>2. f # h /\ g # h
        BY <2>1 DEF OneFile, OnDisk
    <2> QED
        BY <2>1, <2>2 DEF SharedInv, OneFile, Exists, OnDisk
<1>3. ASSUME NEW kind \in {"temporary", "once"}, MemoryStarted(t, kind)
      PROVE  SharedInv'
    BY <1>3, Types DEF MemoryStarted, CallStep, SharedInv, OneFile, Exists,
        OnDisk
<1>4. CASE Numbered(t)
    BY <1>4, Types DEF Numbered, CallStep, Moved, SharedInv, OneFile, Exists,
        OnDisk
<1>5. ASSUME NEW h \in Handles, OnceCreated(t, h)
      PROVE  SharedInv'
    <2>1. /\ \A g \in Handles \ {h} : handle'[g] = handle[g]
          /\ handle'[h].can_destroy /\ shared' = shared
        BY <1>5 DEF OnceCreated, HandleStep
    <2> SUFFICES ASSUME NEW f \in Handles, NEW g \in Handles, OneFile(f, g)'
                 PROVE  g \in shared'
        BY DEF SharedInv
    <2>2. f # h /\ g # h
        BY <2>1 DEF OneFile
    <2> QED
        BY <2>1, <2>2 DEF SharedInv, OneFile, Exists, OnDisk
<1>6. ASSUME NEW h \in Handles, TemporaryCreated(t, h)
      PROVE  SharedInv'
    <2>1. /\ \A g \in Handles \ {h} : handle'[g] = handle[g]
          /\ handle'[h].block_id = call[t].id
          /\ shared' = IF FileOf(call[t].id) = {} THEN shared
                       ELSE shared \cup FileOf(call[t].id) \cup {h}
        BY <1>6 DEF TemporaryCreated, HandleStep
    <2> SUFFICES ASSUME NEW f \in Handles, NEW g \in Handles, OneFile(f, g)'
                 PROVE  g \in shared'
        BY DEF SharedInv
    <2>2. CASE f # h /\ g # h
        BY <2>1, <2>2 DEF SharedInv, OneFile, Exists, OnDisk
    <2>3. CASE f = h
        <3>1. g # h /\ g \in FileOf(call[t].id)
            BY <2>1, <2>3 DEF OneFile, FileOf
        <3> QED
            BY <2>1, <3>1
    <2>4. CASE g = h
        <3>1. f # h /\ f \in FileOf(call[t].id)
            BY <2>1, <2>4 DEF OneFile, FileOf
        <3> QED
            BY <2>1, <2>4, <3>1
    <2> QED
        BY <2>2, <2>3, <2>4
<1>7. ASSUME NEW h \in Handles, PinnedLoaded(t, h)
      PROVE  SharedInv'
    BY <1>7, Types DEF PinnedLoaded, HandleStep, PinsStep, SharedInv, OneFile, Exists,
        OnDisk
<1>8. ASSUME NEW h \in Handles, PinStarted(t, h)
      PROVE  SharedInv'
    BY <1>8, Types DEF PinStarted, CallStep, HandleStep, SharedInv, OneFile, Exists,
        OnDisk
<1>9. ASSUME NEW h \in Handles, TargetLoaded(t, h)
      PROVE  SharedInv'
    BY <1>9, Types DEF TargetLoaded, CallStep, Ended, HandleStep, PinsStep, SharedInv, OneFile, Exists,
        OnDisk
<1>10. ASSUME NEW h \in Handles, Written(t, h)
      PROVE  SharedInv'
    BY <1>10, Types DEF Written, HandleStep, SharedInv, OneFile, Exists,
        OnDisk
<1>11. ASSUME NEW h \in Handles, UnpinnedLast(t, h)
      PROVE  SharedInv'
    BY <1>11, Types DEF UnpinnedLast, Unpinned, CallStep, HandleStep, PinsStep, SharedInv, OneFile, Exists,
        OnDisk
<1>12. ASSUME NEW h \in Handles, UnpinnedOne(t, h)
      PROVE  SharedInv'
    BY <1>12, Types DEF UnpinnedOne, Unpinned, CallStep, HandleStep, PinsStep, SharedInv, OneFile, Exists,
        OnDisk
<1>13. ASSUME NEW h \in Handles, OwnerDrops(t, h)
      PROVE  SharedInv'
    BY <1>13, Types DEF OwnerDrops, CallStep, SharedInv, OneFile, Exists,
        OnDisk
<1>14. ASSUME NEW h \in Handles, NEW pc \in {"idle", "check"}, Kept(t, h, pc)
      PROVE  SharedInv'
    BY <1>14, Types DEF Kept, LetsGo, GoesOn, CallStep, Ended, SharedInv, OneFile, Exists,
        OnDisk
<1>15. ASSUME NEW h \in Handles, NEW pc \in {"idle", "check"}, Destroyed(t, h, pc)
      PROVE  SharedInv'
    <2>1. /\ \A g \in Handles \ {h} : handle'[g] = handle[g]
          /\ handle'[h].block_id = None /\ shared \ {h} \subseteq shared'
        BY <1>15 DEF Destroyed, HandleGone, NoObject
    <2> SUFFICES ASSUME NEW f \in Handles, NEW g \in Handles, OneFile(f, g)'
                 PROVE  g \in shared'
        BY DEF SharedInv
    <2>2. f # h /\ g # h
        BY <2>1 DEF OneFile, Exists
    <2> QED
        BY <2>1, <2>2 DEF SharedInv, OneFile, Exists, OnDisk
<1>16. ASSUME NEW h \in Handles, NEW pc \in {"idle", "check"}, Destructing(t, h, pc)
      PROVE  SharedInv'
    BY <1>16, Types DEF Destructing, LetsGo, CallStep, HandleStep, SharedInv, OneFile, Exists,
        OnDisk
<1>17. ASSUME NEW h \in Handles, Unregistered(t, h)
      PROVE  SharedInv'
    <2>1. /\ \A g \in Handles \ {h} : handle'[g] = handle[g]
          /\ handle'[h].block_id = None /\ shared \ {h} \subseteq shared'
        BY <1>17 DEF Unregistered, HandleGone, NoObject
    <2> SUFFICES ASSUME NEW f \in Handles, NEW g \in Handles, OneFile(f, g)'
                 PROVE  g \in shared'
        BY DEF SharedInv
    <2>2. f # h /\ g # h
        BY <2>1 DEF OneFile, Exists
    <2> QED
        BY <2>1, <2>2 DEF SharedInv, OneFile, Exists, OnDisk
<1>18. CASE MemoryReserved(t)
    BY <1>18, Types DEF MemoryReserved, CallStep, Moved, SharedInv, OneFile, Exists,
        OnDisk
<1>19. CASE LimitExceeded(t)
    BY <1>19, Types DEF LimitExceeded, CallStep, Moved, SharedInv, OneFile, Exists,
        OnDisk
<1>20. CASE RoomFound(t)
    BY <1>20, Types DEF RoomFound, Passes, CallStep, Moved, SharedInv, OneFile, Exists,
        OnDisk
<1>21. CASE LimitSet(t)
    BY <1>21, Types DEF LimitSet, CallStep, Ended, SharedInv, OneFile, Exists,
        OnDisk
<1>22. CASE Refused(t)
    BY <1>22, Types DEF Refused, CallStep, Ended, HandleStep, SharedInv, OneFile, Exists,
        OnDisk
<1>23. ASSUME NEW h \in Handles, NEW timestamp \in Nat, VictimChosen(t, h, timestamp)
      PROVE  SharedInv'
    BY <1>23, Types DEF VictimChosen, CallStep, SharedInv, OneFile, Exists,
        OnDisk
<1>24. ASSUME NEW h \in Handles, NEW timestamp \in Nat, NodeSkipped(t, h, timestamp)
      PROVE  SharedInv'
    BY <1>24, Types DEF NodeSkipped, CallStep, Moved, SharedInv, OneFile, Exists,
        OnDisk
<1>25. CASE VictimSpared(t)
    BY <1>25, Types DEF VictimSpared, CallStep, Moved, SharedInv, OneFile, Exists,
        OnDisk
<1>26. ASSUME NEW h \in Handles, VictimUnloaded(t, h)
      PROVE  SharedInv'
    BY <1>26, Types DEF VictimUnloaded, CallStep, Moved, HandleStep, SharedInv, OneFile, Exists,
        OnDisk
<1>27. CASE LimitChanged(t)
    BY <1>27, Types DEF LimitChanged, CallStep, SharedInv, OneFile, Exists,
        OnDisk
<1>28. CASE LimitStarted(t)
    BY <1>28, Types DEF LimitStarted, CallStep, SharedInv, OneFile, Exists,
        OnDisk
<1> QED
    BY <1>1, <1>2, <1>3, <1>4, <1>5, <1>6, <1>7, <1>8, <1>9, <1>10, <1>11, <1>12, <1>13, <1>14,
        <1>15, <1>16, <1>17, <1>18, <1>19, <1>20, <1>21, <1>22, <1>23, <1>24, <1>25, <1>26, <1>27, <1>28 DEF Effect

LEMMA OwnerPreserved ==
    ASSUME StructInv, OwnerInv, NEW t \in Threads, Effect(t)
    PROVE  OwnerInv'
<1>0. /\ \A b \in DiskBlocks : blocks[b] \in Handles \cup {None}
      /\ \A h \in Handles : handle[h].can_destroy \in BOOLEAN
    BY DEF StructInv, TypeOK, HandleObjects
<1>1. ASSUME NEW h \in Handles, RegisteredAgain(t, h)
      PROVE  OwnerInv'
    BY <1>1, <1>0, Types DEF RegisteredAgain, LatestStep, StructInv, OwnerInv, Exists,
        OnDisk
<1>2. ASSUME NEW b \in DiskBlocks, NEW h \in Handles, RegisteredFirst(t, b, h)
      PROVE  OwnerInv'
    BY <1>2, <1>0, Types DEF RegisteredFirst, HandleStep, LatestStep, StructInv, OwnerInv,
        Exists, OnDisk
<1>3. ASSUME NEW kind \in {"temporary", "once"}, MemoryStarted(t, kind)
      PROVE  OwnerInv'
    BY <1>3, <1>0, Types DEF MemoryStarted, CallStep, LatestStep, StructInv, OwnerInv,
        Exists, OnDisk
<1>4. CASE Numbered(t)
    BY <1>4, <1>0, Types DEF Numbered, CallStep, Moved, LatestStep, StructInv, OwnerInv,
        Exists, OnDisk
<1>5. ASSUME NEW h \in Handles, OnceCreated(t, h)
      PROVE  OwnerInv'
    <2>1. call[t].id \notin DiskBlocks
        BY <1>5, BufferAssumption DEF OnceCreated, StructInv, PlaceInv, At, TemporaryIds
    <2>2. /\ \A g \in Handles \ {h} : handle'[g] = handle[g] /\ latest'[g] = latest[g]
          /\ handle'[h].block_id = call[t].id /\ blocks' = blocks /\ ~Exists(h)
        BY <1>5 DEF OnceCreated, HandleStep, LatestStep
    <2>3. \A b \in DiskBlocks : blocks[b] # h
        BY <2>2, Types DEF OwnerInv, Exists
    <2>4. h \notin owned /\ \A g \in owned' \ {h} : g \in owned /\ g \in Handles
        BY <1>5, <2>2, Types DEF OnceCreated, StructInv, LifeInv
    <2>5. h \in owned' => ~handle'[h].can_destroy
        BY <1>5, <2>4 DEF OnceCreated, HandleStep
    <2> QED
        BY <1>0, <2>1, <2>2, <2>3, <2>4, <2>5 DEF OwnerInv, OnDisk
<1>6. ASSUME NEW h \in Handles, TemporaryCreated(t, h)
      PROVE  OwnerInv'
    <2>1. call[t].id \notin DiskBlocks
        BY <1>6, BufferAssumption DEF TemporaryCreated, StructInv, PlaceInv, At, TemporaryIds
    <2>2. /\ \A g \in Handles \ {h} : handle'[g] = handle[g] /\ latest'[g] = latest[g]
          /\ handle'[h].block_id = call[t].id /\ blocks' = blocks /\ ~Exists(h)
        BY <1>6 DEF TemporaryCreated, HandleStep, LatestStep
    <2>3. \A b \in DiskBlocks : blocks[b] # h
        BY <2>2, Types DEF OwnerInv, Exists
    <2>4. h \notin owned /\ \A g \in owned' \ {h} : g \in owned /\ g \in Handles
        BY <1>6, <2>2, Types DEF TemporaryCreated, StructInv, LifeInv
    <2>5. h \in owned' => ~handle'[h].can_destroy
        BY <1>6, <2>4 DEF TemporaryCreated, HandleStep
    <2> QED
        BY <1>0, <2>1, <2>2, <2>3, <2>4, <2>5 DEF OwnerInv, OnDisk
<1>7. ASSUME NEW h \in Handles, PinnedLoaded(t, h)
      PROVE  OwnerInv'
    BY <1>7, <1>0, Types DEF PinnedLoaded, HandleStep, PinsStep, LatestStep, StructInv,
        OwnerInv, Exists, OnDisk
<1>8. ASSUME NEW h \in Handles, PinStarted(t, h)
      PROVE  OwnerInv'
    BY <1>8, <1>0, Types DEF PinStarted, CallStep, HandleStep, LatestStep, StructInv,
        OwnerInv, Exists, OnDisk
<1>9. ASSUME NEW h \in Handles, TargetLoaded(t, h)
      PROVE  OwnerInv'
    BY <1>9, <1>0, Types DEF TargetLoaded, CallStep, Ended, HandleStep, PinsStep,
        LatestStep, StructInv, OwnerInv, Exists, OnDisk
<1>10. ASSUME NEW h \in Handles, Written(t, h)
      PROVE  OwnerInv'
    BY <1>10, <1>0, Types DEF Written, HandleStep, LatestStep, StructInv, OwnerInv, Exists,
        OnDisk
<1>11. ASSUME NEW h \in Handles, UnpinnedLast(t, h)
      PROVE  OwnerInv'
    BY <1>11, <1>0, Types DEF UnpinnedLast, Unpinned, CallStep, HandleStep, PinsStep,
        LatestStep, StructInv, OwnerInv, Exists, OnDisk
<1>12. ASSUME NEW h \in Handles, UnpinnedOne(t, h)
      PROVE  OwnerInv'
    BY <1>12, <1>0, Types DEF UnpinnedOne, Unpinned, CallStep, HandleStep, PinsStep,
        LatestStep, StructInv, OwnerInv, Exists, OnDisk
<1>13. ASSUME NEW h \in Handles, OwnerDrops(t, h)
      PROVE  OwnerInv'
    BY <1>13, <1>0, Types DEF OwnerDrops, CallStep, LatestStep, StructInv, OwnerInv, Exists,
        OnDisk
<1>14. ASSUME NEW h \in Handles, NEW pc \in {"idle", "check"}, Kept(t, h, pc)
      PROVE  OwnerInv'
    BY <1>14, <1>0, Types DEF Kept, LetsGo, GoesOn, CallStep, Ended, LatestStep, StructInv,
        OwnerInv, Exists, OnDisk
<1>15. ASSUME NEW h \in Handles, NEW pc \in {"idle", "check"}, Destroyed(t, h, pc)
      PROVE  OwnerInv'
    BY <1>15, <1>0, Types DEF Destroyed, LetsGo, GoesOn, CallStep, Ended, HandleGone,
        LatestStep, StructInv, OwnerInv, Exists, OnDisk, NoObject, HeldBesides, LifeInv
<1>16. ASSUME NEW h \in Handles, NEW pc \in {"idle", "check"}, Destructing(t, h, pc)
      PROVE  OwnerInv'
    BY <1>16, <1>0, Types DEF Destructing, LetsGo, CallStep, HandleStep, LatestStep,
        StructInv, OwnerInv, Exists, OnDisk
<1>17. ASSUME NEW h \in Handles, Unregistered(t, h)
      PROVE  OwnerInv'
    BY <1>17, <1>0, Types DEF Unregistered, GoesOn, CallStep, Ended, HandleGone, LatestStep,
        StructInv, OwnerInv, Exists, OnDisk, NoObject, HeldBesides, DestructorInv
<1>18. CASE MemoryReserved(t)
    BY <1>18, <1>0, Types DEF MemoryReserved, CallStep, Moved, LatestStep, StructInv,
        OwnerInv, Exists, OnDisk
<1>19. CASE LimitExceeded(t)
    BY <1>19, <1>0, Types DEF LimitExceeded, CallStep, Moved, LatestStep, StructInv,
        OwnerInv, Exists, OnDisk
<1>20. CASE RoomFound(t)
    BY <1>20, <1>0, Types DEF RoomFound, Passes, CallStep, Moved, LatestStep, StructInv,
        OwnerInv, Exists, OnDisk
<1>21. CASE LimitSet(t)
    BY <1>21, <1>0, Types DEF LimitSet, CallStep, Ended, LatestStep, StructInv, OwnerInv,
        Exists, OnDisk
<1>22. CASE Refused(t)
    BY <1>22, <1>0, Types DEF Refused, CallStep, Ended, HandleStep, LatestStep, StructInv,
        OwnerInv, Exists, OnDisk
<1>23. ASSUME NEW h \in Handles, NEW timestamp \in Nat, VictimChosen(t, h, timestamp)
      PROVE  OwnerInv'
    BY <1>23, <1>0, Types DEF VictimChosen, CallStep, LatestStep, StructInv, OwnerInv,
        Exists, OnDisk
<1>24. ASSUME NEW h \in Handles, NEW timestamp \in Nat, NodeSkipped(t, h, timestamp)
      PROVE  OwnerInv'
    BY <1>24, <1>0, Types DEF NodeSkipped, CallStep, Moved, LatestStep, StructInv, OwnerInv,
        Exists, OnDisk
<1>25. CASE VictimSpared(t)
    BY <1>25, <1>0, Types DEF VictimSpared, CallStep, Moved, LatestStep, StructInv,
        OwnerInv, Exists, OnDisk
<1>26. ASSUME NEW h \in Handles, VictimUnloaded(t, h)
      PROVE  OwnerInv'
    BY <1>26, <1>0, Types DEF VictimUnloaded, CallStep, Moved, HandleStep, LatestStep,
        StructInv, OwnerInv, Exists, OnDisk
<1>27. CASE LimitChanged(t)
    BY <1>27, <1>0, Types DEF LimitChanged, CallStep, LatestStep, StructInv, OwnerInv,
        Exists, OnDisk
<1>28. CASE LimitStarted(t)
    BY <1>28, <1>0, Types DEF LimitStarted, CallStep, LatestStep, StructInv, OwnerInv,
        Exists, OnDisk
<1> QED
    BY <1>1, <1>2, <1>3, <1>4, <1>5, <1>6, <1>7, <1>8, <1>9, <1>10, <1>11, <1>12, <1>13, <1>14,
        <1>15, <1>16, <1>17, <1>18, <1>19, <1>20, <1>21, <1>22, <1>23, <1>24, <1>25, <1>26, <1>27, <1>28 DEF Effect

\* Eviction writes and the destructor deletes the file of no other buffer that shared does
\* not record, and a buffer that is loaded again was written.
LEMMA ContentPreserved ==
    ASSUME StructInv, SharedInv, OwnerInv, ContentKept, NEW t \in Threads, Effect(t)
    PROVE  ContentKept'
<1>0. /\ \A h \in Handles : handle[h].can_destroy \in BOOLEAN /\ handle[h].loaded \in BOOLEAN
      /\ \A h \in Handles : Exists(h) /\ ~OnDisk(h) => handle[h].block_id \in TemporaryIds
      /\ file \in [TemporaryIds -> Contents \cup {None}]
    BY DEF StructInv, TypeOK, HandleObjects, Exists, OnDisk, BlockIds
<1>1. ASSUME NEW h \in Handles, RegisteredAgain(t, h)
      PROVE  ContentKept'
    BY <1>1, <1>0, Types DEF RegisteredAgain, LatestStep, StructInv, ContentKept, Keeps, Exists,
        OnDisk
<1>2. ASSUME NEW b \in DiskBlocks, NEW h \in Handles, RegisteredFirst(t, b, h)
      PROVE  ContentKept'
    BY <1>2, <1>0, Types DEF RegisteredFirst, HandleStep, LatestStep, StructInv,
        ContentKept, Keeps, Exists, OnDisk
<1>3. ASSUME NEW kind \in {"temporary", "once"}, MemoryStarted(t, kind)
      PROVE  ContentKept'
    BY <1>3, <1>0, Types DEF MemoryStarted, CallStep, LatestStep, StructInv, ContentKept, Keeps,
        Exists, OnDisk
<1>4. CASE Numbered(t)
    BY <1>4, <1>0, Types DEF Numbered, CallStep, Moved, LatestStep, StructInv, ContentKept, Keeps,
        Exists, OnDisk
<1>5. ASSUME NEW h \in Handles, OnceCreated(t, h)
      PROVE  ContentKept'
    BY <1>5, <1>0, Types DEF OnceCreated, CallStep, Ended, HandleStep, PinsStep, LatestStep,
        StructInv, ContentKept, Keeps, Exists, OnDisk
<1>6. ASSUME NEW h \in Handles, TemporaryCreated(t, h)
      PROVE  ContentKept'
    BY <1>6, <1>0, Types DEF TemporaryCreated, CallStep, Ended, HandleStep, LatestStep,
        StructInv, ContentKept, Keeps, Exists, OnDisk
<1>7. ASSUME NEW h \in Handles, PinnedLoaded(t, h)
      PROVE  ContentKept'
    BY <1>7, <1>0, Types DEF PinnedLoaded, HandleStep, PinsStep, LatestStep, StructInv,
        ContentKept, Keeps, Exists, OnDisk
<1>8. ASSUME NEW h \in Handles, PinStarted(t, h)
      PROVE  ContentKept'
    BY <1>8, <1>0, Types DEF PinStarted, CallStep, HandleStep, LatestStep, StructInv,
        ContentKept, Keeps, Exists, OnDisk
<1>9. ASSUME NEW h \in Handles, TargetLoaded(t, h)
      PROVE  ContentKept'
    <2>1. h \in owned /\ ~handle[h].loaded /\ ~handle[h].can_destroy /\ Exists(h)
        BY <1>9 DEF TargetLoaded, StructInv, PlaceInv, PinInv, LifeInv, OwnerInv, At
    <2>2. /\ OnDisk(h) => <<handle[h].block_id, 0>> = latest[h]
          /\ ~OnDisk(h) /\ h \notin shared => file[handle[h].block_id] = latest[h]
        BY <2>1 DEF ContentKept, Keeps, OwnerInv
    <2>3. /\ \A g \in Handles \ {h} : handle'[g] = handle[g]
          /\ handle'[h].loaded /\ (h \notin shared => handle'[h].buffer = latest[h])
          /\ latest' = latest /\ file' = file /\ shared' = shared
        BY <1>9, <2>2 DEF TargetLoaded, HandleStep
    <2> QED
        BY <2>3 DEF ContentKept, Keeps, Exists, OnDisk
<1>10. ASSUME NEW h \in Handles, Written(t, h)
      PROVE  ContentKept'
    BY <1>10, <1>0, Types DEF Written, HandleStep, LatestStep, StructInv, ContentKept, Keeps,
        Exists, OnDisk, ReadersInv
<1>11. ASSUME NEW h \in Handles, UnpinnedLast(t, h)
      PROVE  ContentKept'
    BY <1>11, <1>0, Types DEF UnpinnedLast, Unpinned, CallStep, HandleStep, PinsStep,
        LatestStep, StructInv, ContentKept, Keeps, Exists, OnDisk
<1>12. ASSUME NEW h \in Handles, UnpinnedOne(t, h)
      PROVE  ContentKept'
    BY <1>12, <1>0, Types DEF UnpinnedOne, Unpinned, CallStep, HandleStep, PinsStep,
        LatestStep, StructInv, ContentKept, Keeps, Exists, OnDisk
<1>13. ASSUME NEW h \in Handles, OwnerDrops(t, h)
      PROVE  ContentKept'
    BY <1>13, <1>0, Types DEF OwnerDrops, CallStep, LatestStep, StructInv, ContentKept, Keeps,
        Exists, OnDisk
<1>14. ASSUME NEW h \in Handles, NEW pc \in {"idle", "check"}, Kept(t, h, pc)
      PROVE  ContentKept'
    BY <1>14, <1>0, Types DEF Kept, LetsGo, GoesOn, CallStep, Ended, LatestStep, StructInv,
        ContentKept, Keeps, Exists, OnDisk
<1>15. ASSUME NEW h \in Handles, NEW pc \in {"idle", "check"}, Destroyed(t, h, pc)
      PROVE  ContentKept'
    <2>1. Exists(h) /\ ~OnDisk(h)
        BY <1>15 DEF Destroyed, LetsGo, StructInv, PlaceInv, LifeInv, Holds, At
    <2>2. /\ \A g \in Handles \ {h} : handle'[g] = handle[g] /\ latest'[g] = latest[g]
          /\ ~Exists(h)' /\ ~handle'[h].loaded /\ shared' = shared \ {h}
        BY <1>15 DEF Destroyed, HandleGone, LatestStep, NoObject, Exists
    <2>3. ASSUME NEW g \in Handles \ {h}, g \notin shared,
                 Exists(g), ~OnDisk(g), ~handle[g].can_destroy
          PROVE  file'[handle[g].block_id] = file[handle[g].block_id]
        <3>1. ~OneFile(h, g)
            BY <2>3 DEF SharedInv
        <3> QED
            BY <1>0, <1>15, <2>1, <2>3, <3>1 DEF Destroyed, DeleteTemporaryFile, OneFile
    <2> QED
        BY <2>2, <2>3 DEF ContentKept, Keeps, Exists, OnDisk
<1>16. ASSUME NEW h \in Handles, NEW pc \in {"idle", "check"}, Destructing(t, h, pc)
      PROVE  ContentKept'
    BY <1>16, <1>0, Types DEF Destructing, LetsGo, CallStep, HandleStep, LatestStep,
        StructInv, ContentKept, Keeps, Exists, OnDisk
<1>17. ASSUME NEW h \in Handles, Unregistered(t, h)
      PROVE  ContentKept'
    BY <1>17, <1>0, Types DEF Unregistered, GoesOn, CallStep, Ended, HandleGone, LatestStep,
        StructInv, ContentKept, Keeps, Exists, OnDisk, NoObject
<1>18. CASE MemoryReserved(t)
    BY <1>18, <1>0, Types DEF MemoryReserved, CallStep, Moved, LatestStep, StructInv,
        ContentKept, Keeps, Exists, OnDisk
<1>19. CASE LimitExceeded(t)
    BY <1>19, <1>0, Types DEF LimitExceeded, CallStep, Moved, LatestStep, StructInv,
        ContentKept, Keeps, Exists, OnDisk
<1>20. CASE RoomFound(t)
    BY <1>20, <1>0, Types DEF RoomFound, Passes, CallStep, Moved, LatestStep, StructInv,
        ContentKept, Keeps, Exists, OnDisk
<1>21. CASE LimitSet(t)
    BY <1>21, <1>0, Types DEF LimitSet, CallStep, Ended, LatestStep, StructInv, ContentKept, Keeps,
        Exists, OnDisk
<1>22. CASE Refused(t)
    BY <1>22, <1>0, Types DEF Refused, CallStep, Ended, HandleStep, LatestStep, StructInv,
        ContentKept, Keeps, Exists, OnDisk
<1>23. ASSUME NEW h \in Handles, NEW timestamp \in Nat, VictimChosen(t, h, timestamp)
      PROVE  ContentKept'
    BY <1>23, <1>0, Types DEF VictimChosen, CallStep, LatestStep, StructInv, ContentKept, Keeps,
        Exists, OnDisk
<1>24. ASSUME NEW h \in Handles, NEW timestamp \in Nat, NodeSkipped(t, h, timestamp)
      PROVE  ContentKept'
    BY <1>24, <1>0, Types DEF NodeSkipped, CallStep, Moved, LatestStep, StructInv,
        ContentKept, Keeps, Exists, OnDisk
<1>25. CASE VictimSpared(t)
    BY <1>25, <1>0, Types DEF VictimSpared, CallStep, Moved, LatestStep, StructInv,
        ContentKept, Keeps, Exists, OnDisk
<1>26. ASSUME NEW h \in Handles, VictimUnloaded(t, h)
      PROVE  ContentKept'
    <2>1. /\ Exists(h) /\ handle[h].loaded
          /\ h \notin shared => handle[h].buffer = latest[h]
        BY <1>26 DEF VictimUnloaded, StructInv, LifeInv, Holds, At, ContentKept, Keeps
    <2>2. /\ \A g \in Handles \ {h} : handle'[g] = handle[g]
          /\ handle'[h].block_id = handle[h].block_id /\ ~handle'[h].loaded
          /\ handle'[h].can_destroy = handle[h].can_destroy /\ latest' = latest
          /\ shared' = shared
        BY <1>26 DEF VictimUnloaded, HandleStep
    <2>3. CASE OnDisk(h) \/ handle[h].can_destroy
        <3>1. file' = file
            BY <1>26, <2>3 DEF VictimUnloaded, WriteTemporaryBuffer
        <3> QED
            BY <2>2, <2>3, <3>1 DEF ContentKept, Keeps, Exists, OnDisk
    <2>4. CASE ~OnDisk(h) /\ ~handle[h].can_destroy
        <3>1. file' = [file EXCEPT ![handle[h].block_id] = handle[h].buffer]
            BY <1>26, <2>4 DEF VictimUnloaded, WriteTemporaryBuffer
        <3>2. h \notin shared => file'[handle[h].block_id] = latest[h]
            BY <1>0, <2>1, <2>4, <3>1
        <3>3. ASSUME NEW g \in Handles \ {h}, g \notin shared,
                     Exists(g), ~OnDisk(g), ~handle[g].can_destroy
              PROVE  file'[handle[g].block_id] = file[handle[g].block_id]
            <4>1. ~OneFile(h, g)
                BY <3>3 DEF SharedInv
            <4> QED
                BY <1>0, <2>1, <2>4, <3>1, <3>3, <4>1 DEF OneFile
        <3> QED
            BY <2>2, <3>2, <3>3 DEF ContentKept, Keeps, Exists, OnDisk
    <2> QED
        BY <2>3, <2>4
<1>27. CASE LimitChanged(t)
    BY <1>27, <1>0, Types DEF LimitChanged, CallStep, LatestStep, StructInv, ContentKept, Keeps,
        Exists, OnDisk
<1>28. CASE LimitStarted(t)
    BY <1>28, <1>0, Types DEF LimitStarted, CallStep, LatestStep, StructInv, ContentKept, Keeps,
        Exists, OnDisk
<1> QED
    BY <1>1, <1>2, <1>3, <1>4, <1>5, <1>6, <1>7, <1>8, <1>9, <1>10, <1>11, <1>12, <1>13, <1>14,
        <1>15, <1>16, <1>17, <1>18, <1>19, <1>20, <1>21, <1>22, <1>23, <1>24, <1>25, <1>26, <1>27, <1>28 DEF Effect

\* What was last written to a block is what its buffer holds, or its temporary file while
\* it is evicted, however many threads allocate, pin and evict, unless it was given the
\* temporary_id of a buffer that had a file of that name.
THEOREM ContentsAreKept ==
    ASSUME ReliableFiles
    PROVE  Spec => []ContentKept
<1> DEFINE Inv == StructInv /\ MemoryAccounted /\ SharedInv /\ OwnerInv /\ ContentKept
<1>1. Init => Inv
    <2> SUFFICES ASSUME Init PROVE Inv
        OBVIOUS
    <2>1. StructInv /\ MemoryAccounted
        BY InitStruct
    <2>2. \A t \in Threads : call[t].kind = "none" /\ call[t].pc = "idle"
        BY DEF Init, Idle
    <2>3. \A h \in Handles : ~Exists(h) /\ ~OnDisk(h) /\ ~handle[h].loaded
        BY Types, <2>1 DEF Init, NoObject, Exists, OnDisk
    <2>4. SharedInv
        BY <2>3 DEF SharedInv, OneFile
    <2>5. OwnerInv /\ ContentKept
        BY <2>3 DEF Init, OwnerInv, ContentKept, Keeps
    <2> QED
        BY <2>1, <2>4, <2>5
<1>2. Inv /\ [Next]_vars => Inv'
    <2> SUFFICES ASSUME Inv, [Next]_vars PROVE Inv'
        OBVIOUS
    <2>1. CASE UNCHANGED vars
        <3>1. StructInv' /\ MemoryAccounted'
            BY <2>1, StructUnchanged
        <3>2. SharedInv' /\ OwnerInv' /\ ContentKept'
            BY <2>1 DEF vars, SharedInv, OneFile, OwnerInv, ContentKept, Keeps, Exists, OnDisk
        <3> QED
            BY <3>1, <3>2
    <2>2. CASE Next
        BY <2>2, StructStep, SharedPreserved, OwnerPreserved, ContentPreserved
    <2> QED
        BY <2>1, <2>2
<1>3. Inv => ContentKept
    OBVIOUS
<1> HIDE DEF Inv
<1> QED
    BY <1>1, <1>2, <1>3, PTL DEF Spec

=============================================================================
