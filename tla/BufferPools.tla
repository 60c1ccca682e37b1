----------------------------- MODULE BufferPools -----------------------------
(***************************************************************************)
(* The two buffer pools of bw-core: StaticSlotPool (pool.rs), a stack of    *)
(* free slots whose head carries a generation against ABA, and              *)
(* LockFreeMemoryPool (memory.rs), an occupancy flag per slot.  Both lock   *)
(* the mutex of a slot once it is claimed, and both give a slot back before *)
(* that mutex is unlocked: the guard's fields are dropped after the body of *)
(* its drop.                                                                *)
(*                                                                          *)
(* One step is one atomic access.  A thread may hold several guards.        *)
(***************************************************************************)
EXTENDS Integers, FiniteSets, Functions

CONSTANTS
  Thread,
  POOL_SIZE,
  GENERATIONS    \* values of the generation (2^16, u16), which wraps

ASSUME PoolAssumption ==
  /\ IsFiniteSet(Thread)
  /\ POOL_SIZE \in Nat \ {0} /\ GENERATIONS \in Nat \ {0, 1}

VARIABLES
  kind,     \* the pool: "static" or "flags"
  head,     \* [gen, index]; index POOL_SIZE is the empty stack
  nodes,    \* the link of every slot
  flags,    \* occupancy_flags
  memory,   \* of every slot: "zero", or "used" by a holder
  mutex,    \* of every slot: {} or the {thread} that has locked it
  holds,    \* of every thread: the slots whose guards it has
  pc,       \* of every thread: [at, seen, index, next], its place and its local variables
  lag       \* updates of the head since a thread that is to exchange it has seen it

vars == <<kind, head, nodes, flags, memory, mutex, holds, pc, lag>>

Slot == 0 .. POOL_SIZE - 1
TaggedIndex(g, i) == [gen |-> g % GENERATIONS, index |-> i]
Idle == [at |-> "idle", seen |-> TaggedIndex(0, 0), index |-> 0, next |-> 0]

Init ==
  /\ kind \in {"static", "flags"}
  /\ head = TaggedIndex(0, 0)
  /\ nodes = [s \in Slot |-> s + 1]
  /\ flags = [s \in Slot |-> FALSE]
  /\ memory = [s \in Slot |-> "zero"]
  /\ mutex = [s \in Slot |-> {}]
  /\ holds = [t \in Thread |-> {}]
  /\ pc = [t \in Thread |-> Idle]
  /\ lag = [t \in Thread |-> 0]

Goes(t, p) == pc' = [pc EXCEPT ![t] = p]

\* The head is updated.  No thread sleeps between its load of the head and its exchange
\* while the others go once through all the generations: this is assumed of the
\* scheduler, since the code compares the generation modulo 2^16 and nothing else.
Watching(t) == pc[t].at \in {"link", "pop", "relink", "push"}
NotOvertaken(t) == \A u \in Thread \ {t} : Watching(u) => lag[u] + 1 < GENERATIONS
Update(t) ==
  /\ NotOvertaken(t)
  /\ lag' = [u \in Thread |-> IF u # t /\ Watching(u) THEN lag[u] + 1 ELSE 0]

(***************************************************************************)
(* StaticSlotPool::checkout                                                  *)
(***************************************************************************)

\* The head is loaded, or has been returned by a failed exchange: an empty stack is an
\* error.
Sees(t, at) ==
  /\ IF at = "link" /\ head.index >= POOL_SIZE
     THEN Goes(t, Idle)
     ELSE Goes(t, [pc[t] EXCEPT !.at = at, !.seen = head])
  /\ lag' = [lag EXCEPT ![t] = 0]

StaticCheckout(t) ==
  /\ kind = "static" /\ pc[t].at = "idle"
  /\ Sees(t, "link")
  /\ UNCHANGED <<kind, head, nodes, flags, memory, mutex, holds>>

ReadLink(t) ==
  /\ pc[t].at = "link"
  /\ Goes(t, [pc[t] EXCEPT !.at = "pop", !.index = pc[t].seen.index,
                           !.next = nodes[pc[t].seen.index]])
  /\ UNCHANGED <<kind, head, nodes, flags, memory, mutex, holds, lag>>

\* Mutant: the generation stays the same.
SameTag(seen, i) == TaggedIndex(seen.gen, i)

\* The new head, one generation on.
NextTag(seen, i) == TaggedIndex(seen.gen + 1, i)

\* compare_exchange_weak, which may also fail when the head is as it was.
Pop(t) ==
  /\ pc[t].at = "pop"
  /\ \/ /\ head = pc[t].seen /\ Update(t)
        /\ head' = NextTag(pc[t].seen, pc[t].next)
        /\ Goes(t, [pc[t] EXCEPT !.at = "lock"])
     \/ Sees(t, "link") /\ UNCHANGED head
  /\ UNCHANGED <<kind, nodes, flags, memory, mutex, holds>>

(***************************************************************************)
(* LockFreeMemoryPool::checkout                                              *)
(***************************************************************************)
FlagsCheckout(t) ==
  /\ kind = "flags" /\ pc[t].at = "idle"
  /\ Goes(t, [Idle EXCEPT !.at = "flag"])
  /\ UNCHANGED <<kind, head, nodes, flags, memory, mutex, holds, lag>>

\* The flag of the next slot is exchanged; past the last one checkout fails.
ClaimFlag(t) ==
  /\ pc[t].at = "flag"
  /\ LET i == pc[t].index
     IN  \/ /\ ~flags[i]
            /\ flags' = [flags EXCEPT ![i] = TRUE]
            /\ Goes(t, [pc[t] EXCEPT !.at = "lock"])
         \/ /\ flags[i]
            /\ Goes(t, IF i + 1 < POOL_SIZE THEN [pc[t] EXCEPT !.index = i + 1] ELSE Idle)
            /\ UNCHANGED flags
  /\ UNCHANGED <<kind, head, nodes, memory, mutex, holds, lag>>

(***************************************************************************)
(* The guard                                                                 *)
(***************************************************************************)

\* The mutex of the claimed slot is locked, which completes the checkout...
Lock(t) ==
  /\ pc[t].at \in {"lock", "wait"} /\ mutex[pc[t].index] = {}
  /\ mutex' = [mutex EXCEPT ![pc[t].index] = {t}]
  /\ holds' = [holds EXCEPT ![t] = @ \union {pc[t].index}]
  /\ Goes(t, Idle)
  /\ UNCHANGED <<kind, head, nodes, flags, memory, lag>>

\* ...or is found locked, and the thread waits for it.
Wait(t) ==
  /\ pc[t].at = "lock" /\ mutex[pc[t].index] # {}
  /\ Goes(t, [pc[t] EXCEPT !.at = "wait"])
  /\ UNCHANGED <<kind, head, nodes, flags, memory, mutex, holds, lag>>

\* as_mut_slice, get_mut
Write(t) ==
  /\ pc[t].at = "idle"
  /\ \E s \in holds[t] : memory' = [memory EXCEPT ![s] = "used"]
  /\ UNCHANGED <<kind, head, nodes, flags, mutex, holds, pc, lag>>

Zeroize(s) == memory' = [memory EXCEPT ![s] = "zero"]

\* drop: the buffer is zeroized (ZeroizePolicy::OnRelease, and always in memory.rs)...
Drop(t) ==
  /\ pc[t].at = "idle"
  /\ \E s \in holds[t] :
       /\ Zeroize(s)
       /\ holds' = [holds EXCEPT ![t] = @ \ {s}]
       /\ Goes(t, [Idle EXCEPT !.at = IF kind = "static" THEN "release" ELSE "clear", !.index = s])
  /\ UNCHANGED <<kind, head, nodes, flags, mutex, lag>>

\* ...then the slot is given back: release loads the head, links the slot before it and
\* exchanges the head,
LoadHead(t) ==
  /\ pc[t].at = "release"
  /\ Sees(t, "relink")
  /\ UNCHANGED <<kind, head, nodes, flags, memory, mutex, holds>>

Relink(t) ==
  /\ pc[t].at = "relink"
  /\ nodes' = [nodes EXCEPT ![pc[t].index] = pc[t].seen.index]
  /\ Goes(t, [pc[t] EXCEPT !.at = "push"])
  /\ UNCHANGED <<kind, head, flags, memory, mutex, holds, lag>>

Push(t) ==
  /\ pc[t].at = "push"
  /\ \/ /\ head = pc[t].seen /\ Update(t)
        /\ head' = NextTag(pc[t].seen, pc[t].index)
        /\ Goes(t, [pc[t] EXCEPT !.at = "unlock"])
     \/ Sees(t, "relink") /\ UNCHANGED head
  /\ UNCHANGED <<kind, nodes, flags, memory, mutex, holds>>

\* or the flag is cleared;
ClearFlag(t) ==
  /\ pc[t].at = "clear"
  /\ flags' = [flags EXCEPT ![pc[t].index] = FALSE]
  /\ Goes(t, [pc[t] EXCEPT !.at = "unlock"])
  /\ UNCHANGED <<kind, head, nodes, memory, mutex, holds, lag>>

\* and the field `guard' is dropped last.
Unlock(t) ==
  /\ pc[t].at = "unlock"
  /\ mutex' = [mutex EXCEPT ![pc[t].index] = {}]
  /\ Goes(t, Idle)
  /\ UNCHANGED <<kind, head, nodes, flags, memory, holds, lag>>

Next ==
  \E t \in Thread :
    \/ StaticCheckout(t) \/ ReadLink(t) \/ Pop(t) \/ FlagsCheckout(t) \/ ClaimFlag(t)
    \/ Lock(t) \/ Wait(t) \/ Write(t) \/ Drop(t) \/ LoadHead(t) \/ Relink(t) \/ Push(t) \/ ClearFlag(t)
    \/ Unlock(t)

Spec == Init /\ [][Next]_vars

(***************************************************************************)
(* Properties                                                                *)
(***************************************************************************)

\* The slot that is reached from the head by i links, POOL_SIZE past the last one.
Stack ==
  LET walk[i \in 0 .. POOL_SIZE] ==
        IF i = 0 THEN head.index
        ELSE IF walk[i - 1] < POOL_SIZE THEN nodes[walk[i - 1]] ELSE POOL_SIZE
  IN  walk

Free(s) == IF kind = "static" THEN s \in Range(Stack) ELSE ~flags[s]

\* Slots a thread has claimed and not yet given back.
Claimed(t) ==
  holds[t] \union
  (IF pc[t].at \in {"lock", "wait", "release", "relink", "push", "clear"} THEN {pc[t].index} ELSE {})

\* No slot is lost and none is given out twice, however the accesses of the threads fall
\* between each other ("ABA protection via 64-bit tagged indices"): a slot is free or
\* claimed by one thread and not both, the stack of free slots ends, and a free slot holds
\* nothing of its last holder.
SlotsConserved ==
  /\ \A s \in Slot :
       /\ Cardinality({t \in Thread : s \in Claimed(t)}) = IF Free(s) THEN 0 ELSE 1
       /\ Free(s) => memory[s] = "zero"
  /\ kind = "static" => Stack[POOL_SIZE] = POOL_SIZE

\* A checkout that waits for the mutex of its slot waits for one thread, which has given
\* the slot back and has nothing left to do but to unlock it: never for one that uses the
\* buffer and so might itself wait.  Acquisition is not "strictly uncontended" (memory.rs),
\* as the step Wait shows, but it is never held up by a guard.
WaitsBriefly ==
  \A t \in Thread : pc[t].at \in {"lock", "wait"} =>
    \A u \in mutex[pc[t].index] : pc[u].at = "unlock" /\ pc[u].index = pc[t].index
==============================================================================
