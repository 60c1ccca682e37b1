-------------------------- MODULE BufferPoolsProofs --------------------------
(***************************************************************************)
(* Proofs about BufferPools, for any number of threads, slots and            *)
(* generations and without a bound on the updates of the head.               *)
(***************************************************************************)
EXTENDS BufferPools, FiniteSetTheorems, WellFoundedInduction, TLAPS

------------------------------------------------------------------------------
(* The inductive invariant *)

Tagged == [gen : 0 .. GENERATIONS - 1, index : 0 .. POOL_SIZE]
At == IF kind = "static"
      THEN {"idle", "link", "pop", "lock", "wait", "release", "relink", "push", "unlock"}
      ELSE {"idle", "flag", "lock", "wait", "clear", "unlock"}

Place == [at : At, seen : Tagged, index : Slot, next : 0 .. POOL_SIZE]

PoolType ==
  /\ kind \in {"static", "flags"}
  /\ head \in Tagged
  /\ lag \in [Thread -> Nat]
  /\ nodes \in [Slot -> 0 .. POOL_SIZE]
  /\ flags \in [Slot -> BOOLEAN]
  /\ memory \in [Slot -> {"zero", "used"}]
  /\ mutex \in [Slot -> SUBSET Thread]
  /\ holds \in [Thread -> SUBSET Slot]
  /\ pc \in [Thread -> Place]

\* A thread that has seen the head lags behind it by less than a turn of the generation.
\* If it does not lag, it has seen the head as it is, and the link it read is the link as
\* it is.
Behind(t) ==
  /\ lag[t] < GENERATIONS
  /\ \/ head.gen = pc[t].seen.gen + lag[t]
     \/ head.gen = pc[t].seen.gen + lag[t] - GENERATIONS
  /\ lag[t] = 0 => pc[t].seen = head

Current(t) ==
  /\ pc[t].at \in {"link", "pop"} => pc[t].seen.index \in Slot
  /\ pc[t].at = "pop" => pc[t].index = pc[t].seen.index
  /\ Watching(t) => Behind(t)
  /\ pc[t].at = "pop" /\ lag[t] = 0 => pc[t].next = nodes[pc[t].index]
  /\ pc[t].at = "push" => nodes[pc[t].index] = pc[t].seen.index

SeenInv == \A t \in Thread : Current(t)

Claiming == {"lock", "wait", "release", "relink", "push", "clear"}
Unclaimed == {s \in Slot : \A t \in Thread : s \notin Claimed(t)}

\* No two threads claim a slot, and a slot that is being locked or given back has no guard.
ExclusiveInv ==
  /\ \A t, u \in Thread : t # u => Claimed(t) \cap Claimed(u) = {}
  /\ \A t \in Thread : pc[t].at \in Claiming => pc[t].index \notin holds[t]

\* A slot is zeroized before it is given back.
MemoryInv ==
  /\ \A s \in Unclaimed : memory[s] = "zero"
  /\ \A t \in Thread : pc[t].at \in {"release", "relink", "push", "clear"} =>
       memory[pc[t].index] = "zero"

\* A mutex is locked by a thread that has the slot's guard or is about to unlock it.
MutexInv ==
  \A s \in Slot : \A u \in mutex[s] :
    \/ s \in holds[u]
    \/ /\ pc[u].at \in {"release", "relink", "push", "clear", "unlock"}
       /\ pc[u].index = s

\* p lists the slots of S from the head along the links, without repetition, and ends.
IsPath(p, n, S) ==
  /\ p \in [0 .. n -> 0 .. POOL_SIZE]
  /\ p[0] = head.index /\ p[n] = POOL_SIZE
  /\ \A i \in 0 .. n - 1 : p[i] \in S /\ p[i + 1] = nodes[p[i]]
  /\ \A i, j \in 0 .. n - 1 : p[i] = p[j] => i = j
  /\ \A s \in S : \E i \in 0 .. n - 1 : p[i] = s

\* The free slots are those that are unclaimed.
FreeInv ==
  IF kind = "static"
  THEN \E n \in 0 .. POOL_SIZE : \E p \in [0 .. n -> 0 .. POOL_SIZE] : IsPath(p, n, Unclaimed)
  ELSE \A s \in Slot : ~flags[s] <=> s \in Unclaimed

PoolInv == PoolType /\ SeenInv /\ ExclusiveInv /\ MemoryInv /\ MutexInv /\ FreeInv

------------------------------------------------------------------------------
(* Steps of a thread *)

\* A thread that goes to a place leaves the others where they are.
LEMMA GoesFacts ==
  ASSUME PoolType, NEW t \in Thread, NEW p, Goes(t, p)
  PROVE  /\ pc'[t] = p
         /\ \A u \in Thread : u # t => pc'[u] = pc[u]
         /\ p \in Place => pc' \in [Thread -> Place]
BY DEF Goes, PoolType

\* A thread starts anew from a place of the pool's own.
LEMMA IdleFacts ==
  ASSUME PoolType
  PROVE  Idle \in Place /\ Idle.at = "idle"
<1>1. 0 % GENERATIONS = 0
  BY PoolAssumption
<1> QED
  BY <1>1, PoolAssumption DEF Idle, TaggedIndex, Place, Tagged, At, Slot, PoolType

\* A head that is loaded is current (the loads and failed exchanges of checkout and
\* release).
LEMMA SeesFacts ==
  ASSUME PoolType, NEW t \in Thread, NEW at \in {"link", "relink"}, kind = "static", Sees(t, at)
  PROVE  /\ pc' \in [Thread -> Place]
         /\ \A u \in Thread : u # t => pc'[u] = pc[u]
         /\ \/ at = "link" /\ pc'[t] = Idle
            \/ /\ pc'[t].at = at /\ pc'[t].seen = head /\ pc'[t].index = pc[t].index
               /\ at = "link" => head.index \in Slot
         /\ lag' \in [Thread -> Nat] /\ lag'[t] = 0 /\ \A u \in Thread : u # t => lag'[u] = lag[u]
<1>0. lag' \in [Thread -> Nat] /\ lag'[t] = 0 /\ \A u \in Thread : u # t => lag'[u] = lag[u]
  BY DEF Sees, PoolType
<1>1. CASE at = "link" /\ head.index >= POOL_SIZE
  BY <1>0, <1>1, GoesFacts, IdleFacts DEF Sees
<1>2. CASE ~(at = "link" /\ head.index >= POOL_SIZE)
  <2> DEFINE p == [pc[t] EXCEPT !.at = at, !.seen = head]
  <2>1. p \in Place /\ p.at = at /\ p.seen = head /\ p.index = pc[t].index
    BY DEF PoolType, Place, At
  <2>2. Goes(t, p)
    BY <1>2 DEF Sees
  <2> HIDE DEF p
  <2>3. at = "link" => head.index \in Slot
    BY <1>2, PoolAssumption DEF PoolType, Tagged, Slot
  <2> QED
    BY <1>0, <2>1, <2>2, <2>3, GoesFacts
<1> QED
  BY <1>1, <1>2

\* The generation goes on by one, from the last one to 0.
LEMMA NextTagFacts ==
  ASSUME PoolType, NEW i \in 0 .. POOL_SIZE
  PROVE  /\ NextTag(head, i).gen = IF head.gen + 1 = GENERATIONS THEN 0 ELSE head.gen + 1
         /\ NextTag(head, i).index = i
         /\ NextTag(head, i) \in Tagged
<1>1. head.gen \in Nat /\ head.gen + 1 <= GENERATIONS /\ GENERATIONS \in Nat /\ GENERATIONS > 1
  BY PoolAssumption DEF PoolType, Tagged
<1>2. (head.gen + 1) % GENERATIONS = IF head.gen + 1 = GENERATIONS THEN 0 ELSE head.gen + 1
  BY <1>1
<1> QED
  BY <1>1, <1>2 DEF NextTag, TaggedIndex, Tagged

\* Who does not lag by a whole turn tells by the generation whether it lags.
LEMMA SeenIsHead ==
  ASSUME PoolInv, NEW t \in Thread, Watching(t), head = pc[t].seen
  PROVE  lag[t] = 0
<1>1. head.gen \in Nat /\ lag[t] \in Nat /\ GENERATIONS \in Nat
  BY PoolAssumption DEF PoolInv, PoolType, Tagged
<1>2. Behind(t)
  BY DEF PoolInv, SeenInv, Current
<1> QED
  BY <1>1, <1>2 DEF Behind

\* An update of the head leaves every other thread that has seen it one further behind,
\* and none by a whole turn.
LEMMA UpdateFacts ==
  ASSUME PoolInv, NEW t \in Thread, NEW i \in 0 .. POOL_SIZE, Update(t), head' = NextTag(head, i)
  PROVE  /\ lag' \in [Thread -> Nat]
         /\ \A u \in Thread : u # t /\ Watching(u) /\ pc'[u] = pc[u] => Behind(u)' /\ lag'[u] # 0
<1>1. lag' \in [Thread -> Nat]
  BY DEF Update, PoolInv, PoolType
<1> SUFFICES ASSUME NEW u \in Thread, u # t, Watching(u), pc'[u] = pc[u]
             PROVE  Behind(u)' /\ lag'[u] # 0
  BY <1>1
<1>2. lag'[u] = lag[u] + 1 /\ lag[u] + 1 < GENERATIONS /\ lag[u] \in Nat
  BY DEF Update, NotOvertaken, PoolInv, PoolType
<1>3. /\ head.gen \in 0 .. GENERATIONS - 1 /\ pc[u].seen.gen \in 0 .. GENERATIONS - 1
      /\ GENERATIONS \in Nat
  BY PoolAssumption DEF PoolInv, PoolType, Place, Tagged
<1>4. head'.gen = IF head.gen + 1 = GENERATIONS THEN 0 ELSE head.gen + 1
  BY NextTagFacts DEF PoolInv
<1>5. \/ head.gen = pc[u].seen.gen + lag[u]
      \/ head.gen = pc[u].seen.gen + lag[u] - GENERATIONS
  BY DEF PoolInv, SeenInv, Current, Behind
<1>6. \/ head'.gen = pc[u].seen.gen + lag'[u]
      \/ head'.gen = pc[u].seen.gen + lag'[u] - GENERATIONS
  BY <1>2, <1>3, <1>4, <1>5
<1> QED
  BY <1>2, <1>6 DEF Behind

\* What each action does to the place of its thread.
Local(t, at) ==
  /\ pc' \in [Thread -> Place]
  /\ pc'[t].at = at
  /\ \A u \in Thread : u # t => pc'[u] = pc[u]

\* ReadLink reads the link of the slot that its thread saw at the head, and goes on to
\* the compare-and-swap of alloc with the head as it was seen.
LEMMA ReadLinkFacts ==
  ASSUME PoolType, SeenInv, NEW t \in Thread, ReadLink(t)
  PROVE  /\ Local(t, "pop") /\ kind = "static"
         /\ pc'[t].seen = pc[t].seen /\ pc'[t].index = pc[t].seen.index
         /\ pc'[t].next = nodes[pc[t].seen.index]
<1> DEFINE p == [pc[t] EXCEPT !.at = "pop", !.index = pc[t].seen.index,
                              !.next = nodes[pc[t].seen.index]]
<1>1. kind = "static" /\ pc[t].seen.index \in Slot /\ pc[t] \in Place
  BY DEF ReadLink, PoolType, Place, At, SeenInv, Current
<1>2. nodes[pc[t].seen.index] \in 0 .. POOL_SIZE
  BY <1>1 DEF PoolType
<1>3. /\ p \in Place /\ p.at = "pop" /\ p.seen = pc[t].seen /\ p.index = pc[t].seen.index
      /\ p.next = nodes[pc[t].seen.index]
  BY <1>1, <1>2 DEF Place, At
<1>4. Goes(t, p)
  BY DEF ReadLink
<1> HIDE DEF p
<1> QED
  BY <1>1, <1>3, <1>4, GoesFacts DEF Local

\* A thread whose next place differs from the last only in its name.
LEMMA MoveFacts ==
  ASSUME PoolType, NEW t \in Thread, NEW at \in At, Goes(t, [pc[t] EXCEPT !.at = at])
  PROVE  /\ Local(t, at)
         /\ pc'[t].seen = pc[t].seen /\ pc'[t].index = pc[t].index /\ pc'[t].next = pc[t].next
<1> DEFINE p == [pc[t] EXCEPT !.at = at]
<1>1. p \in Place /\ p.at = at /\ p.seen = pc[t].seen /\ p.index = pc[t].index /\ p.next = pc[t].next
  BY DEF PoolType, Place
<1> HIDE DEF p
<1> QED
  BY <1>1, GoesFacts DEF Local, p

\* drop takes the slot out of the guards and starts giving it back.
LEMMA DropFacts ==
  ASSUME PoolType, NEW t \in Thread, Drop(t)
  PROVE  \E s \in holds[t] :
           /\ Local(t, IF kind = "static" THEN "release" ELSE "clear")
           /\ pc[t].at = "idle" /\ pc'[t].index = s /\ s \in Slot
           /\ memory' = [memory EXCEPT ![s] = "zero"]
           /\ holds' = [holds EXCEPT ![t] = @ \ {s}]
<1>1. PICK s \in holds[t] :
        /\ Zeroize(s)
        /\ holds' = [holds EXCEPT ![t] = @ \ {s}]
        /\ Goes(t, [Idle EXCEPT !.at = IF kind = "static" THEN "release" ELSE "clear", !.index = s])
  BY DEF Drop
<1> DEFINE at == IF kind = "static" THEN "release" ELSE "clear"
           p == [Idle EXCEPT !.at = at, !.index = s]
<1>2. s \in Slot
  BY DEF PoolType
<1>3. Idle \in Place /\ at \in At
  BY IdleFacts DEF At
<1>4. p \in Place /\ p.at = at /\ p.index = s
  BY <1>2, <1>3 DEF Place
<1>5. Goes(t, p)
  BY <1>1
<1> HIDE DEF p
<1> QED
  BY <1>1, <1>2, <1>4, <1>5, GoesFacts DEF Local, Drop, Zeroize

\* The loop over the flags: a slot is claimed, or the next one is looked at, or none is left.
LEMMA ClaimFlagFacts ==
  ASSUME PoolType, NEW t \in Thread, ClaimFlag(t)
  PROVE  /\ kind = "flags" /\ pc[t].at = "flag"
         /\ \/ /\ Local(t, "lock") /\ pc'[t].index = pc[t].index
               /\ ~flags[pc[t].index] /\ flags' = [flags EXCEPT ![pc[t].index] = TRUE]
            \/ /\ Local(t, "flag") \/ Local(t, "idle")
               /\ UNCHANGED flags
<1> DEFINE i == pc[t].index
<1>1. kind = "flags" /\ pc[t].at = "flag"
  BY DEF ClaimFlag, PoolType, Place, At
<1>2. CASE /\ ~flags[i]
           /\ flags' = [flags EXCEPT ![i] = TRUE]
           /\ Goes(t, [pc[t] EXCEPT !.at = "lock"])
  <2>1. "lock" \in At
    BY <1>1 DEF At
  <2> QED
    BY <1>1, <1>2, <2>1, MoveFacts
<1>3. CASE /\ flags[i]
           /\ Goes(t, IF i + 1 < POOL_SIZE THEN [pc[t] EXCEPT !.index = i + 1] ELSE Idle)
           /\ UNCHANGED flags
  <2>1. CASE i + 1 < POOL_SIZE
    <3> DEFINE p == [pc[t] EXCEPT !.index = i + 1]
    <3>1. i \in Slot /\ i + 1 \in Slot
      BY <2>1, PoolAssumption DEF PoolType, Place, Slot
    <3>2. p \in Place /\ p.at = "flag"
      BY <1>1, <3>1 DEF PoolType, Place
    <3>3. Goes(t, p)
      BY <1>3, <2>1
    <3> HIDE DEF p
    <3> QED
      BY <1>1, <1>3, <3>2, <3>3, GoesFacts DEF Local
  <2>2. CASE ~(i + 1 < POOL_SIZE)
    BY <1>1, <1>3, <2>2, GoesFacts, IdleFacts DEF Local
  <2> QED
    BY <2>1, <2>2
<1> QED
  BY <1>1, <1>2, <1>3 DEF ClaimFlag

------------------------------------------------------------------------------
(* Steps that leave the claims as they are *)

\* Who claims what depends on the guards and the places of the threads only, and as long
\* as it stays the same so do the free slots: links change only at claimed slots.
LEMMA SameClaims ==
  ASSUME PoolInv, \A u \in Thread : Claimed(u)' = Claimed(u),
         UNCHANGED <<kind, head, flags>>, \A s \in Unclaimed : nodes'[s] = nodes[s]
  PROVE  /\ FreeInv' /\ Unclaimed' = Unclaimed
         /\ \A t, u \in Thread : t # u => Claimed(t)' \cap Claimed(u)' = {}
<1>1. Unclaimed' = Unclaimed
  BY DEF Unclaimed, Slot
<1>2. \A t, u \in Thread : t # u => Claimed(t)' \cap Claimed(u)' = {}
  BY DEF PoolInv, ExclusiveInv
<1>3. CASE kind = "static"
  <2>1. PICK n \in 0 .. POOL_SIZE : \E p \in [0 .. n -> 0 .. POOL_SIZE] : IsPath(p, n, Unclaimed)
    BY <1>3 DEF PoolInv, FreeInv
  <2>2. PICK p \in [0 .. n -> 0 .. POOL_SIZE] : IsPath(p, n, Unclaimed)
    BY <2>1
  <2>3. IsPath(p, n, Unclaimed)'
    BY <1>1, <2>2 DEF IsPath
  <2> QED
    BY <1>1, <1>2, <1>3, <2>3 DEF FreeInv
<1>4. CASE kind # "static"
  BY <1>1, <1>2, <1>4 DEF PoolInv, FreeInv
<1> QED
  BY <1>3, <1>4

\* A thread that only looks, or starts an exchange again.
Quiet(t) ==
  /\ UNCHANGED <<kind, head, nodes, flags, memory, mutex, holds>>
  /\ pc' \in [Thread -> Place] /\ lag' \in [Thread -> Nat]
  /\ \A u \in Thread : u # t => pc'[u] = pc[u] /\ lag'[u] = lag[u]
  /\ Current(t)'
  /\ \/ /\ pc[t].at \in {"idle", "link", "pop", "flag"}
        /\ pc'[t].at \in {"idle", "link", "pop", "flag"}
     \/ /\ \/ pc[t].at \in {"release", "push"} /\ pc'[t].at = "relink"
           \/ pc[t].at = "lock" /\ pc'[t].at = "wait"
        /\ pc'[t].index = pc[t].index

\* What a thread that only looks is told stays true of it.
LEMMA QuietKeeps ==
  ASSUME PoolInv, NEW t \in Thread, Quiet(t) PROVE PoolInv'
<1>1. \A u \in Thread : Claimed(u)' = Claimed(u)
  BY DEF Quiet, Claimed
<1>2. /\ FreeInv' /\ Unclaimed' = Unclaimed
      /\ \A u, v \in Thread : u # v => Claimed(u)' \cap Claimed(v)' = {}
  BY <1>1, SameClaims DEF Quiet
<1>3. PoolType'
  BY DEF Quiet, PoolInv, PoolType, Place, At
<1>4. SeenInv'
  BY DEF Quiet, PoolInv, SeenInv, Current, Behind, Watching
<1>5. ExclusiveInv'
  BY <1>2 DEF Quiet, PoolInv, ExclusiveInv, Claiming
<1>6. MemoryInv'
  BY <1>2 DEF Quiet, PoolInv, MemoryInv
<1>7. MutexInv'
  BY DEF Quiet, PoolInv, MutexInv, PoolType
<1> QED
  BY <1>2, <1>3, <1>4, <1>5, <1>6, <1>7 DEF PoolInv

\* The steps of checkout and release that change no shared variable.
LEMMA QuietSteps ==
  ASSUME PoolInv, NEW t \in Thread,
         \/ StaticCheckout(t) \/ ReadLink(t) \/ FlagsCheckout(t) \/ LoadHead(t) \/ Wait(t)
         \/ Pop(t) /\ UNCHANGED head
         \/ Push(t) /\ UNCHANGED head
         \/ ClaimFlag(t) /\ UNCHANGED flags
  PROVE  Quiet(t)
<1> USE DEF PoolInv
<1>0. pc[t] \in Place
  BY DEF PoolType
<1>a. GENERATIONS \in Nat /\ GENERATIONS > 1 /\ head.gen \in 0 .. GENERATIONS - 1
  BY PoolAssumption DEF PoolType, Tagged
<1>b. ASSUME NEW at \in {"link", "relink"}, kind = "static", Sees(t, at),
             UNCHANGED <<kind, head, nodes, flags, memory, mutex, holds>>,
             IF at = "link" THEN pc[t].at \in {"idle", "pop"} ELSE pc[t].at \in {"release", "push"}
      PROVE  Quiet(t)
  <2>1. /\ pc' \in [Thread -> Place]
        /\ \A u \in Thread : u # t => pc'[u] = pc[u]
        /\ \/ at = "link" /\ pc'[t] = Idle
           \/ /\ pc'[t].at = at /\ pc'[t].seen = head /\ pc'[t].index = pc[t].index
              /\ at = "link" => head.index \in Slot
        /\ lag' \in [Thread -> Nat] /\ lag'[t] = 0 /\ \A u \in Thread : u # t => lag'[u] = lag[u]
    BY <1>b, SeesFacts
  <2>2. Current(t)'
    <3>1. CASE pc'[t] = Idle
      BY <3>1, IdleFacts DEF Current, Watching
    <3>2. CASE pc'[t] # Idle
      BY <1>a, <1>b, <2>1, <3>2 DEF Current, Behind
    <3> QED
      BY <3>1, <3>2
  <2> QED
    BY <1>b, <2>1, <2>2, IdleFacts DEF Quiet
<1>1. CASE StaticCheckout(t)
  BY <1>1, <1>b DEF StaticCheckout
<1>2. CASE ReadLink(t)
  <2>1. /\ Local(t, "pop") /\ pc[t].at = "link"
        /\ pc'[t].seen = pc[t].seen /\ pc'[t].index = pc[t].seen.index
        /\ pc'[t].next = nodes[pc[t].seen.index]
        /\ UNCHANGED <<kind, head, nodes, flags, memory, mutex, holds, lag>>
    BY <1>2, ReadLinkFacts DEF ReadLink
  <2>2. lag \in [Thread -> Nat]
    BY DEF PoolType
  <2> QED
    BY <2>1, <2>2 DEF Quiet, Local, SeenInv, Current, Behind, Watching
<1>3. CASE FlagsCheckout(t)
  <2> DEFINE p == [Idle EXCEPT !.at = "flag"]
  <2>1. p \in Place /\ p.at = "flag"
    BY <1>3, IdleFacts DEF FlagsCheckout, Place, At
  <2> HIDE DEF p
  <2>2. Goes(t, p)
    BY <1>3 DEF FlagsCheckout, p
  <2>3. lag \in [Thread -> Nat]
    BY DEF PoolType
  <2> QED
    BY <1>3, <2>1, <2>2, <2>3, GoesFacts DEF FlagsCheckout, Quiet, Current, Watching
<1>4. CASE LoadHead(t)
  <2>1. kind = "static"
    BY <1>0, <1>4 DEF LoadHead, Place, At
  <2> QED
    BY <1>4, <1>b, <2>1 DEF LoadHead
<1>5. ASSUME head' = NextTag(head, pc[t].next) \/ head' = NextTag(head, pc[t].index)
      PROVE  head' # head
  <2>a. pc[t].next \in 0 .. POOL_SIZE /\ pc[t].index \in 0 .. POOL_SIZE
    BY <1>0, PoolAssumption DEF Place, Slot
  <2>1. head'.gen = IF head.gen + 1 = GENERATIONS THEN 0 ELSE head.gen + 1
    BY <1>5, <2>a, NextTagFacts
  <2> QED
    BY <1>a, <2>1
<1>6. CASE Pop(t) /\ UNCHANGED head
  <2>1. kind = "static"
    BY <1>0, <1>6 DEF Pop, Place, At
  <2>2. Sees(t, "link")
    BY <1>5, <1>6, <2>1 DEF Pop
  <2> QED
    BY <1>6, <1>b, <2>1, <2>2 DEF Pop
<1>7. CASE Push(t) /\ UNCHANGED head
  <2>1. kind = "static"
    BY <1>0, <1>7 DEF Push, Place, At
  <2>2. Sees(t, "relink")
    BY <1>5, <1>7, <2>1 DEF Push
  <2> QED
    BY <1>7, <1>b, <2>1, <2>2 DEF Push
<1>8. CASE ClaimFlag(t) /\ UNCHANGED flags
  <2>1. (Local(t, "flag") \/ Local(t, "idle")) /\ pc[t].at = "flag"
    BY <1>0, <1>8, ClaimFlagFacts DEF PoolType, Place
  <2>2. lag \in [Thread -> Nat]
    BY DEF PoolType
  <2> QED
    BY <1>8, <2>1, <2>2 DEF ClaimFlag, Quiet, Current, Local, Watching
<1>9. CASE Wait(t)
  <2>1. "wait" \in At
    BY DEF At
  <2>2. Local(t, "wait") /\ pc'[t].index = pc[t].index
    BY <1>9, <2>1, MoveFacts DEF Wait
  <2>3. lag \in [Thread -> Nat]
    BY DEF PoolType
  <2> QED
    BY <1>9, <2>2, <2>3 DEF Wait, Quiet, Current, Local, Watching
<1> QED
  BY <1>1, <1>2, <1>3, <1>4, <1>6, <1>7, <1>8, <1>9

\* Locking a mutex turns the claim into a guard.
LEMMA LockKeeps ==
  ASSUME PoolInv, NEW t \in Thread, Lock(t) PROVE PoolInv'
<1> DEFINE s == pc[t].index
<1>1. /\ pc[t].at \in {"lock", "wait"} /\ s \in Slot /\ mutex[s] = {}
      /\ mutex' = [mutex EXCEPT ![s] = {t}] /\ holds' = [holds EXCEPT ![t] = @ \union {s}]
      /\ UNCHANGED <<kind, head, nodes, flags, memory, lag>>
  BY DEF Lock, PoolInv, PoolType, Place
<1>2. Local(t, "idle")
  BY GoesFacts, IdleFacts DEF Lock, PoolInv, Local
<1> HIDE DEF s
<1>3. /\ holds' \in [Thread -> SUBSET Slot] /\ mutex' \in [Slot -> SUBSET Thread]
      /\ holds'[t] = holds[t] \cup {s} /\ \A u \in Thread : u # t => holds'[u] = holds[u]
  BY <1>1 DEF PoolInv, PoolType
<1>4. \A u \in Thread : Claimed(u)' = Claimed(u)
  BY <1>1, <1>2, <1>3 DEF Claimed, Local, s
<1>5. /\ FreeInv' /\ Unclaimed' = Unclaimed
      /\ \A u, v \in Thread : u # v => Claimed(u)' \cap Claimed(v)' = {}
  BY <1>1, <1>4, SameClaims
<1>6. PoolType'
  BY <1>1, <1>2, <1>3 DEF PoolInv, PoolType, Local, Place, At
<1>7. SeenInv'
  BY <1>1, <1>2 DEF PoolInv, SeenInv, Current, Behind, Watching, Local
<1>8. ExclusiveInv'
  BY <1>2, <1>3, <1>5 DEF PoolInv, ExclusiveInv, Claiming, Local
<1>9. MemoryInv'
  BY <1>1, <1>2, <1>5 DEF PoolInv, MemoryInv, Local
<1>10. MutexInv'
  <2> SUFFICES ASSUME NEW r \in Slot, NEW u \in mutex'[r]
               PROVE  \/ r \in holds'[u]
                      \/ /\ pc'[u].at \in {"release", "relink", "push", "clear", "unlock"}
                         /\ pc'[u].index = r
    BY DEF MutexInv
  <2>1. CASE r = s
    BY <1>1, <1>3, <2>1 DEF PoolInv, PoolType
  <2>2. CASE r # s
    <3>1. u \in mutex[r] /\ u \in Thread
      BY <1>1, <2>2 DEF PoolInv, PoolType
    <3> QED
      BY <1>1, <1>2, <1>3, <3>1 DEF PoolInv, MutexInv, Local
  <2> QED
    BY <2>1, <2>2
<1> QED
  BY <1>5, <1>6, <1>7, <1>8, <1>9, <1>10 DEF PoolInv

\* Only a holder writes, and it has no claim to a free slot.
LEMMA WriteKeeps ==
  ASSUME PoolInv, NEW t \in Thread, Write(t) PROVE PoolInv'
<1>1. PICK s \in holds[t] : memory' = [memory EXCEPT ![s] = "used"]
  BY DEF Write
<1>2. pc[t].at = "idle" /\ UNCHANGED <<kind, head, nodes, flags, mutex, holds, pc, lag>>
  BY DEF Write
<1>3. s \in Slot /\ s \in Claimed(t)
  BY DEF PoolInv, PoolType, Claimed
<1>4. \A u \in Thread : Claimed(u)' = Claimed(u)
  BY <1>2 DEF Claimed
<1>5. /\ FreeInv' /\ Unclaimed' = Unclaimed
      /\ \A u, v \in Thread : u # v => Claimed(u)' \cap Claimed(v)' = {}
  BY <1>2, <1>4, SameClaims
<1>6. PoolType'
  BY <1>1, <1>2, <1>3 DEF PoolInv, PoolType, Place, At
<1>7. SeenInv' /\ MutexInv'
  BY <1>2 DEF PoolInv, SeenInv, Current, Behind, Watching, MutexInv
<1>8. ExclusiveInv'
  BY <1>2, <1>5 DEF PoolInv, ExclusiveInv, Claiming
<1>9. MemoryInv'
  <2>1. \A r \in Unclaimed : r # s
    BY <1>3 DEF Unclaimed
  <2>2. ASSUME NEW u \in Thread, pc[u].at \in {"release", "relink", "push", "clear"}
        PROVE  pc[u].index # s
    <3>1. u # t /\ pc[u].index \in Claimed(u)
      BY <1>2, <2>2 DEF Claimed
    <3> QED
      BY <1>3, <3>1 DEF PoolInv, ExclusiveInv
  <2>3. \A u \in Thread : pc[u].index \in Slot
    BY DEF PoolInv, PoolType, Place
  <2> QED
    BY <1>1, <1>2, <1>5, <2>1, <2>2, <2>3 DEF PoolInv, PoolType, MemoryInv, Unclaimed
<1> QED
  BY <1>5, <1>6, <1>7, <1>8, <1>9 DEF PoolInv

\* A guard that is dropped leaves its claim to the thread that gives the slot back.
LEMMA DropKeeps ==
  ASSUME PoolInv, NEW t \in Thread, Drop(t) PROVE PoolInv'
<1> DEFINE at == IF kind = "static" THEN "release" ELSE "clear"
<1>1. PICK s \in holds[t] :
        /\ Local(t, at)
        /\ pc[t].at = "idle" /\ pc'[t].index = s /\ s \in Slot
        /\ memory' = [memory EXCEPT ![s] = "zero"]
        /\ holds' = [holds EXCEPT ![t] = @ \ {s}]
  BY DropFacts DEF PoolInv
<1>2. at \in {"release", "clear"} /\ UNCHANGED <<kind, head, nodes, flags, mutex, lag>>
  BY DEF Drop
<1> HIDE DEF at
<1>3. /\ holds' \in [Thread -> SUBSET Slot] /\ memory' \in [Slot -> {"zero", "used"}]
      /\ holds'[t] = holds[t] \ {s} /\ \A u \in Thread : u # t => holds'[u] = holds[u]
      /\ memory'[s] = "zero" /\ \A r \in Slot : r # s => memory'[r] = memory[r]
  BY <1>1 DEF PoolInv, PoolType
<1>4. \A u \in Thread : Claimed(u)' = Claimed(u)
  BY <1>1, <1>2, <1>3 DEF Claimed, Local
<1>5. /\ FreeInv' /\ Unclaimed' = Unclaimed
      /\ \A u, v \in Thread : u # v => Claimed(u)' \cap Claimed(v)' = {}
  BY <1>2, <1>4, SameClaims
<1>6. PoolType'
  BY <1>1, <1>2, <1>3 DEF PoolInv, PoolType, Local, Place, At
<1>7. SeenInv'
  BY <1>1, <1>2 DEF PoolInv, SeenInv, Current, Behind, Watching, Local
<1>8. ExclusiveInv'
  BY <1>1, <1>2, <1>3, <1>5 DEF PoolInv, ExclusiveInv, Claiming, Local
<1>9. MemoryInv'
  <2>1. \A u \in Thread : pc[u].index \in Slot
    BY DEF PoolInv, PoolType, Place
  <2> QED
    BY <1>1, <1>3, <1>5, <2>1 DEF PoolInv, MemoryInv, Local, Unclaimed
<1>10. MutexInv'
  BY <1>1, <1>2, <1>3 DEF PoolInv, MutexInv, PoolType, Local
<1> QED
  BY <1>5, <1>6, <1>7, <1>8, <1>9, <1>10 DEF PoolInv

\* release links a slot that it claims, which no path from the head goes through.
LEMMA RelinkKeeps ==
  ASSUME PoolInv, NEW t \in Thread, Relink(t) PROVE PoolInv'
<1> DEFINE s == pc[t].index
<1>1. /\ pc[t].at = "relink" /\ s \in Slot /\ pc[t].seen \in Tagged /\ kind = "static"
      /\ nodes' = [nodes EXCEPT ![s] = pc[t].seen.index]
      /\ UNCHANGED <<kind, head, flags, memory, mutex, holds, lag>>
  BY DEF Relink, PoolInv, PoolType, Place, At
<1>2. /\ Local(t, "push")
      /\ pc'[t].seen = pc[t].seen /\ pc'[t].index = s
  <2>1. "push" \in At
    BY <1>1 DEF At
  <2> QED
    BY <2>1, MoveFacts DEF PoolInv, Relink
<1>3. s \in Claimed(t)
  BY <1>1 DEF Claimed
<1> HIDE DEF s
<1>4. /\ nodes' \in [Slot -> 0 .. POOL_SIZE] /\ nodes'[s] = pc[t].seen.index
      /\ \A r \in Slot : r # s => nodes'[r] = nodes[r]
  BY <1>1 DEF PoolInv, PoolType, Tagged
<1>5. \A u \in Thread : Claimed(u)' = Claimed(u)
  BY <1>1, <1>2 DEF Claimed, Local, s
<1>6. \A r \in Unclaimed : r \in Slot /\ r # s
  BY <1>3 DEF Unclaimed
<1>7. /\ FreeInv' /\ Unclaimed' = Unclaimed
      /\ \A u, v \in Thread : u # v => Claimed(u)' \cap Claimed(v)' = {}
  BY <1>1, <1>4, <1>5, <1>6, SameClaims
<1>8. PoolType'
  BY <1>1, <1>2, <1>4 DEF PoolInv, PoolType, Local, Place, At
<1>9. SeenInv'
  <2> SUFFICES ASSUME NEW u \in Thread PROVE Current(u)'
    BY DEF SeenInv
  <2>1. CASE u = t
    BY <1>1, <1>2, <1>4, <2>1 DEF PoolInv, SeenInv, Current, Behind, Watching, Local
  <2>2. CASE u # t
    <3>1. Current(u) /\ pc'[u] = pc[u] /\ pc[u].index \in Slot
      BY <1>2, <2>2 DEF PoolInv, SeenInv, Local, PoolType, Place
    <3>2. pc[u].at = "pop" /\ lag[u] = 0 => pc[u].index # s
      <4> SUFFICES ASSUME pc[u].at = "pop", lag[u] = 0 PROVE pc[u].index # s
        OBVIOUS
      <4>1. PICK n \in 0 .. POOL_SIZE : \E p \in [0 .. n -> 0 .. POOL_SIZE] : IsPath(p, n, Unclaimed)
        BY <1>1 DEF PoolInv, FreeInv
      <4>2. PICK p \in [0 .. n -> 0 .. POOL_SIZE] : IsPath(p, n, Unclaimed)
        BY <4>1
      <4>3. pc[u].index = head.index /\ head.index \in Slot
        BY <3>1 DEF Current, Behind, Watching
      <4>4. n # 0
        BY <4>2, <4>3, PoolAssumption DEF IsPath, Slot
      <4>a. 0 \in 0 .. n - 1
        BY <4>1, <4>4, PoolAssumption
      <4>5. head.index \in Unclaimed
        BY <4>2, <4>a DEF IsPath
      <4> QED
        BY <1>6, <4>3, <4>5
    <3>3. pc[u].at = "push" => pc[u].index # s
      <4>1. pc[u].at = "push" => pc[u].index \in Claimed(u)
        BY DEF Claimed
      <4> QED
        BY <1>3, <2>2, <4>1 DEF PoolInv, ExclusiveInv
    <3> QED
      BY <1>1, <1>4, <3>1, <3>2, <3>3 DEF Current, Behind, Watching
  <2> QED
    BY <2>1, <2>2
<1>10. ExclusiveInv'
  BY <1>1, <1>2, <1>7 DEF PoolInv, ExclusiveInv, Claiming, Local, s
<1>11. MemoryInv'
  BY <1>1, <1>2, <1>7 DEF PoolInv, MemoryInv, Local, s
<1>12. MutexInv'
  BY <1>1, <1>2 DEF PoolInv, MutexInv, PoolType, Local, s
<1> QED
  BY <1>7, <1>8, <1>9, <1>10, <1>11, <1>12 DEF PoolInv

\* Unlocking ends the giving back of a slot that may be claimed again already.
LEMMA UnlockKeeps ==
  ASSUME PoolInv, NEW t \in Thread, Unlock(t) PROVE PoolInv'
<1> DEFINE s == pc[t].index
<1>1. /\ pc[t].at = "unlock" /\ s \in Slot
      /\ mutex' = [mutex EXCEPT ![s] = {}]
      /\ UNCHANGED <<kind, head, nodes, flags, memory, holds, lag>>
  BY DEF Unlock, PoolInv, PoolType, Place
<1>2. Local(t, "idle")
  BY GoesFacts, IdleFacts DEF Unlock, PoolInv, Local
<1> HIDE DEF s
<1>3. \A u \in Thread : Claimed(u)' = Claimed(u)
  BY <1>1, <1>2 DEF Claimed, Local
<1>4. /\ FreeInv' /\ Unclaimed' = Unclaimed
      /\ \A u, v \in Thread : u # v => Claimed(u)' \cap Claimed(v)' = {}
  BY <1>1, <1>3, SameClaims
<1>5. PoolType'
  BY <1>1, <1>2 DEF PoolInv, PoolType, Local, Place, At
<1>6. SeenInv'
  BY <1>1, <1>2 DEF PoolInv, SeenInv, Current, Behind, Watching, Local
<1>7. ExclusiveInv'
  BY <1>1, <1>2, <1>4 DEF PoolInv, ExclusiveInv, Claiming, Local
<1>8. MemoryInv'
  BY <1>1, <1>2, <1>4 DEF PoolInv, MemoryInv, Local
<1>9. MutexInv'
  <2> SUFFICES ASSUME NEW r \in Slot, NEW u \in mutex'[r]
               PROVE  \/ r \in holds'[u]
                      \/ /\ pc'[u].at \in {"release", "relink", "push", "clear", "unlock"}
                         /\ pc'[u].index = r
    BY DEF MutexInv
  <2>1. r # s /\ u \in mutex[r] /\ u \in Thread
    BY <1>1 DEF PoolInv, PoolType
  <2> QED
    BY <1>1, <1>2, <2>1 DEF PoolInv, MutexInv, Local, s
<1> QED
  BY <1>4, <1>5, <1>6, <1>7, <1>8, <1>9 DEF PoolInv

------------------------------------------------------------------------------
(* Steps that claim a slot or give it back *)

\* A list of slots without repetition is no longer than the pool.
LEMMA PathBounded ==
  ASSUME NEW n \in Nat, NEW q \in [0 .. n - 1 -> Slot],
         \A i, j \in 0 .. n - 1 : q[i] = q[j] => i = j
  PROVE  n <= POOL_SIZE
<1>1. POOL_SIZE \in Nat /\ POOL_SIZE > 0
  BY PoolAssumption
<1>2. IsFiniteSet(Slot) /\ Cardinality(Slot) = POOL_SIZE
  <2>1. /\ IsFiniteSet(0 .. POOL_SIZE - 1)
        /\ Cardinality(0 .. POOL_SIZE - 1) = IF 0 > POOL_SIZE - 1 THEN 0 ELSE (POOL_SIZE - 1) - 0 + 1
    BY <1>1, FS_Interval
  <2> QED
    BY <1>1, <2>1 DEF Slot
<1>3. IsFiniteSet(0 .. n - 1) /\ Cardinality(0 .. n - 1) = n
  <2>1. /\ IsFiniteSet(0 .. n - 1)
        /\ Cardinality(0 .. n - 1) = IF 0 > n - 1 THEN 0 ELSE (n - 1) - 0 + 1
    BY FS_Interval
  <2> QED
    BY <2>1
<1>4. ~(POOL_SIZE < n)
  <2> SUFFICES ASSUME POOL_SIZE < n PROVE FALSE
    OBVIOUS
  <2>1. \E i, j \in 0 .. n - 1 : i # j /\ q[i] = q[j]
    BY <1>2, <1>3, FS_PigeonHole
  <2> QED
    BY <2>1
<1> QED
  BY <1>1, <1>4

\* A successful exchange takes the slot on top: the head has the generation that was seen,
\* so it is the head that was seen, and the link that was read is still its link.
LEMMA PopKeeps ==
  ASSUME PoolInv, NEW t \in Thread, Pop(t), head' # head PROVE PoolInv'
<1> DEFINE s == pc[t].index
<1>1. /\ pc[t].at = "pop" /\ kind = "static" /\ pc[t] \in Place
      /\ head = pc[t].seen /\ Update(t)
      /\ head' = NextTag(pc[t].seen, pc[t].next)
      /\ Goes(t, [pc[t] EXCEPT !.at = "lock"])
      /\ UNCHANGED <<kind, nodes, flags, memory, mutex, holds>>
  BY DEF Pop, PoolInv, PoolType, Place, At
<1>a. lag[t] = 0
  BY <1>1, SeenIsHead DEF Watching
<1>2. s = head.index /\ s \in Slot /\ pc[t].next = nodes[s] /\ nodes[s] \in 0 .. POOL_SIZE
  BY <1>1, <1>a DEF PoolInv, SeenInv, Current, PoolType
<1>3. Local(t, "lock") /\ pc'[t].index = s
  <2>1. "lock" \in At
    BY DEF At
  <2> QED
    BY <1>1, <2>1, MoveFacts DEF PoolInv
<1>4. /\ head'.index = nodes[s] /\ head' \in Tagged /\ lag' \in [Thread -> Nat]
      /\ \A u \in Thread : u # t /\ Watching(u) /\ pc'[u] = pc[u] => Behind(u)' /\ lag'[u] # 0
  BY <1>1, <1>2, NextTagFacts, UpdateFacts DEF PoolInv
<1> HIDE DEF s
<1>5. PICK n \in 0 .. POOL_SIZE : \E p \in [0 .. n -> 0 .. POOL_SIZE] : IsPath(p, n, Unclaimed)
  BY <1>1 DEF PoolInv, FreeInv
<1>6. PICK p \in [0 .. n -> 0 .. POOL_SIZE] : IsPath(p, n, Unclaimed)
  BY <1>5
<1>7. n - 1 \in 0 .. POOL_SIZE /\ n \in Nat /\ p[0] = s /\ s \in Unclaimed
  <2>1. n # 0
    BY <1>2, <1>6, PoolAssumption DEF IsPath, Slot
  <2>2. n \in Nat /\ n - 1 \in 0 .. POOL_SIZE /\ 0 \in 0 .. n - 1
    BY <1>5, <2>1, PoolAssumption
  <2> QED
    BY <1>2, <1>6, <2>2 DEF IsPath
<1>8. /\ Claimed(t)' = Claimed(t) \cup {s} /\ s \notin Claimed(t)
      /\ \A u \in Thread : u # t => Claimed(u)' = Claimed(u) /\ s \notin Claimed(u)
  BY <1>1, <1>3, <1>7 DEF Claimed, Local, Unclaimed
<1>9. Unclaimed' = Unclaimed \ {s}
  BY <1>7, <1>8 DEF Unclaimed, Slot
<1>10. PoolType'
  BY <1>1, <1>3, <1>4 DEF PoolInv, PoolType, Local, Place, At
<1>11. SeenInv'
  <2> SUFFICES ASSUME NEW u \in Thread PROVE Current(u)'
    BY DEF SeenInv
  <2>1. CASE u = t
    BY <1>3, <2>1 DEF Current, Local, Watching
  <2>2. CASE u # t
    <3>1. Current(u) /\ pc'[u] = pc[u] /\ nodes' = nodes
      BY <1>1, <1>3, <2>2 DEF PoolInv, SeenInv, Local
    <3>2. Watching(u) => Behind(u)' /\ lag'[u] # 0
      BY <1>4, <2>2, <3>1
    <3>3. Watching(u)' <=> Watching(u)
      BY <3>1 DEF Watching
    <3>4. pc[u].at = "pop" => lag'[u] # 0
      BY <3>2 DEF Watching
    <3> QED
      BY <3>1, <3>2, <3>3, <3>4 DEF Current
  <2> QED
    BY <2>1, <2>2
<1>12. ExclusiveInv'
  <2>1. \A u, v \in Thread : u # v => Claimed(u)' \cap Claimed(v)' = {}
    BY <1>8 DEF PoolInv, ExclusiveInv
  <2>2. s \notin holds[t]
    BY <1>8 DEF Claimed
  <2> QED
    BY <1>1, <1>3, <2>1, <2>2 DEF PoolInv, ExclusiveInv, Claiming, Local
<1>13. MemoryInv'
  BY <1>1, <1>3, <1>9 DEF PoolInv, MemoryInv, Local
<1>14. MutexInv'
  <2> SUFFICES ASSUME NEW r \in Slot, NEW u \in mutex[r]
               PROVE  \/ r \in holds[u]
                      \/ /\ pc'[u].at \in {"release", "relink", "push", "clear", "unlock"}
                         /\ pc'[u].index = r
    BY <1>1 DEF MutexInv
  <2>1. u \in Thread /\ \/ r \in holds[u]
                        \/ /\ pc[u].at \in {"release", "relink", "push", "clear", "unlock"}
                           /\ pc[u].index = r
    BY DEF PoolInv, PoolType, MutexInv
  <2> QED
    BY <1>1, <1>3, <2>1 DEF Local
<1>15. FreeInv'
  <2> DEFINE q == [i \in 0 .. n - 1 |-> p[i + 1]]
  <2>1. \A i \in 0 .. n - 1 : i + 1 \in 0 .. n /\ q[i] = p[i + 1]
    BY <1>7
  <2>2. q \in [0 .. n - 1 -> 0 .. POOL_SIZE]
    BY <2>1
  <2> HIDE DEF q
  <2>3. \A i \in 0 .. (n - 1) - 1 : i \in 0 .. n - 1 /\ i + 1 \in 0 .. n - 1 /\ (i + 1) + 1 \in 0 .. n
    BY <1>7
  <2>4. q[0] = head'.index /\ q[n - 1] = POOL_SIZE
    <3>1. 0 \in 0 .. n - 1 /\ n - 1 \in 0 .. n - 1 /\ 0 + 1 = 1 /\ (n - 1) + 1 = n
      BY <1>7
    <3>2. q[0] = p[1] /\ q[n - 1] = p[n] /\ p[0 + 1] = nodes[p[0]]
      BY <1>6, <2>1, <3>1 DEF IsPath
    <3> QED
      BY <1>4, <1>6, <1>7, <3>1, <3>2 DEF IsPath
  <2>5. \A i \in 0 .. (n - 1) - 1 : q[i] \in Unclaimed \ {s} /\ q[i + 1] = nodes[q[i]]
    <3> SUFFICES ASSUME NEW i \in 0 .. (n - 1) - 1
                 PROVE  q[i] \in Unclaimed \ {s} /\ q[i + 1] = nodes[q[i]]
      OBVIOUS
    <3>1. q[i] = p[i + 1] /\ q[i + 1] = p[(i + 1) + 1]
      BY <2>1, <2>3
    <3>2. p[i + 1] \in Unclaimed /\ p[(i + 1) + 1] = nodes[p[i + 1]]
      BY <1>6, <2>3 DEF IsPath
    <3>3. i + 1 # 0 /\ 0 \in 0 .. n - 1
      BY <1>7
    <3>4. p[i + 1] # p[0]
      BY <1>6, <2>3, <3>3 DEF IsPath
    <3> QED
      BY <1>7, <3>1, <3>2, <3>4
  <2>6. \A i, j \in 0 .. (n - 1) - 1 : q[i] = q[j] => i = j
    <3> SUFFICES ASSUME NEW i \in 0 .. (n - 1) - 1, NEW j \in 0 .. (n - 1) - 1, q[i] = q[j]
                 PROVE  i = j
      OBVIOUS
    <3>1. p[i + 1] = p[j + 1] /\ i + 1 \in 0 .. n - 1 /\ j + 1 \in 0 .. n - 1
      BY <2>1, <2>3
    <3>2. i + 1 = j + 1
      BY <1>6, <3>1 DEF IsPath
    <3> QED
      BY <1>7, <3>2
  <2>7. \A r \in Unclaimed \ {s} : \E i \in 0 .. (n - 1) - 1 : q[i] = r
    <3> SUFFICES ASSUME NEW r \in Unclaimed \ {s} PROVE \E i \in 0 .. (n - 1) - 1 : q[i] = r
      OBVIOUS
    <3>1. PICK i \in 0 .. n - 1 : p[i] = r
      BY <1>6 DEF IsPath
    <3>2. i # 0
      BY <1>7, <3>1
    <3>3. i - 1 \in 0 .. (n - 1) - 1 /\ (i - 1) + 1 = i /\ i - 1 \in 0 .. n - 1
      BY <1>7, <3>2
    <3>4. q[i - 1] = r
      BY <2>1, <3>1, <3>3
    <3> QED
      BY <3>3, <3>4
  <2>8. IsPath(q, n - 1, Unclaimed)'
    BY <1>1, <1>9, <2>2, <2>4, <2>5, <2>6, <2>7 DEF IsPath
  <2> QED
    BY <1>1, <1>7, <2>2, <2>8 DEF FreeInv
<1> QED
  BY <1>10, <1>11, <1>12, <1>13, <1>14, <1>15 DEF PoolInv

\* A successful exchange puts the slot, which nobody else claims, on top of the stack.
LEMMA PushKeeps ==
  ASSUME PoolInv, NEW t \in Thread, Push(t), head' # head PROVE PoolInv'
<1> DEFINE s == pc[t].index
<1>1. /\ pc[t].at = "push" /\ kind = "static" /\ pc[t] \in Place
      /\ head = pc[t].seen /\ Update(t)
      /\ head' = NextTag(pc[t].seen, s)
      /\ Goes(t, [pc[t] EXCEPT !.at = "unlock"])
      /\ UNCHANGED <<kind, nodes, flags, memory, mutex, holds>>
  BY DEF Push, PoolInv, PoolType, Place, At
<1>2. s \in Slot /\ s \in 0 .. POOL_SIZE /\ nodes[s] = head.index
  <2>1. s \in Slot /\ s \in 0 .. POOL_SIZE
    BY <1>1, PoolAssumption DEF Place, Slot
  <2>2. Current(t)
    BY DEF PoolInv, SeenInv
  <2> QED
    BY <1>1, <2>1, <2>2 DEF Current
<1>3. Local(t, "unlock") /\ pc'[t].index = s
  <2>1. "unlock" \in At
    BY DEF At
  <2> QED
    BY <1>1, <2>1, MoveFacts DEF PoolInv
<1>4. /\ head'.index = s /\ head' \in Tagged /\ lag' \in [Thread -> Nat]
      /\ \A u \in Thread : u # t /\ Watching(u) /\ pc'[u] = pc[u] => Behind(u)' /\ lag'[u] # 0
  BY <1>1, <1>2, NextTagFacts, UpdateFacts DEF PoolInv
<1>5. s \in Claimed(t) /\ s \notin holds[t] /\ memory[s] = "zero"
  BY <1>1 DEF Claimed, PoolInv, ExclusiveInv, MemoryInv, Claiming
<1>6. Claimed(t)' = Claimed(t) \ {s} /\ \A u \in Thread : u # t => Claimed(u)' = Claimed(u)
  BY <1>1, <1>3, <1>5 DEF Claimed, Local
<1> HIDE DEF s
<1>7. PICK n \in 0 .. POOL_SIZE : \E p \in [0 .. n -> 0 .. POOL_SIZE] : IsPath(p, n, Unclaimed)
  BY <1>1 DEF PoolInv, FreeInv
<1>8. PICK p \in [0 .. n -> 0 .. POOL_SIZE] : IsPath(p, n, Unclaimed)
  BY <1>7
<1>9. \A u \in Thread : u # t => s \notin Claimed(u)
  BY <1>5 DEF PoolInv, ExclusiveInv
<1>10. Unclaimed' = Unclaimed \cup {s} /\ s \notin Unclaimed
  BY <1>2, <1>5, <1>6, <1>9 DEF Unclaimed, Slot
<1>11. PoolType'
  BY <1>1, <1>3, <1>4 DEF PoolInv, PoolType, Local, Place, At
<1>12. SeenInv'
  <2> SUFFICES ASSUME NEW u \in Thread PROVE Current(u)'
    BY DEF SeenInv
  <2>1. CASE u = t
    BY <1>3, <2>1 DEF Current, Local, Watching
  <2>2. CASE u # t
    <3>1. Current(u) /\ pc'[u] = pc[u] /\ nodes' = nodes
      BY <1>1, <1>3, <2>2 DEF PoolInv, SeenInv, Local
    <3>2. Watching(u) => Behind(u)' /\ lag'[u] # 0
      BY <1>4, <2>2, <3>1
    <3>3. Watching(u)' <=> Watching(u)
      BY <3>1 DEF Watching
    <3>4. pc[u].at = "pop" => lag'[u] # 0
      BY <3>2 DEF Watching
    <3> QED
      BY <3>1, <3>2, <3>3, <3>4 DEF Current
  <2> QED
    BY <2>1, <2>2
<1>13. ExclusiveInv'
  <2>1. \A u, v \in Thread : u # v => Claimed(u)' \cap Claimed(v)' = {}
    BY <1>6 DEF PoolInv, ExclusiveInv
  <2> QED
    BY <1>1, <1>3, <2>1 DEF PoolInv, ExclusiveInv, Claiming, Local
<1>14. MemoryInv'
  BY <1>1, <1>3, <1>5, <1>10 DEF PoolInv, MemoryInv, Local
<1>15. MutexInv'
  <2> SUFFICES ASSUME NEW r \in Slot, NEW u \in mutex[r]
               PROVE  \/ r \in holds[u]
                      \/ /\ pc'[u].at \in {"release", "relink", "push", "clear", "unlock"}
                         /\ pc'[u].index = r
    BY <1>1 DEF MutexInv
  <2>1. u \in Thread /\ \/ r \in holds[u]
                        \/ /\ pc[u].at \in {"release", "relink", "push", "clear", "unlock"}
                           /\ pc[u].index = r
    BY DEF PoolInv, PoolType, MutexInv
  <2> QED
    BY <1>1, <1>3, <2>1 DEF Local, s
<1>16. FreeInv'
  <2>0. n \in Nat
    BY <1>7, PoolAssumption
  <2>a. PICK q : q = [i \in 0 .. n + 1 |-> IF i = 0 THEN s ELSE p[i - 1]]
    OBVIOUS
  <2>1. q[0] = s /\ \A i \in 0 .. n : i + 1 \in 0 .. n + 1 /\ i + 1 # 0 /\ q[i + 1] = p[i]
    BY <2>0, <2>a
  <2>2. q \in [0 .. n + 1 -> 0 .. POOL_SIZE]
    BY <1>2, <2>0, <2>a
  <2>3. \A i \in 0 .. n : i = 0 \/ (i - 1 \in 0 .. n - 1 /\ i - 1 \in 0 .. n /\ (i - 1) + 1 = i)
    BY <2>0
  <2>4. \A i \in 0 .. n : q[i] \in Unclaimed \cup {s} /\ q[i + 1] = nodes[q[i]]
    <3> SUFFICES ASSUME NEW i \in 0 .. n
                 PROVE  q[i] \in Unclaimed \cup {s} /\ q[i + 1] = nodes[q[i]]
      OBVIOUS
    <3>1. CASE i = 0
      BY <1>2, <1>8, <2>0, <2>1, <3>1 DEF IsPath
    <3>2. CASE i # 0
      <4>1. i - 1 \in 0 .. n - 1 /\ (i - 1) + 1 = i /\ i - 1 \in 0 .. n
        BY <2>3, <3>2
      <4>2. q[i] = p[i - 1] /\ q[i + 1] = p[i]
        BY <2>1, <4>1
      <4>3. p[i - 1] \in Unclaimed /\ p[i] = nodes[p[i - 1]]
        BY <1>8, <4>1 DEF IsPath
      <4> QED
        BY <4>2, <4>3
    <3> QED
      BY <3>1, <3>2
  <2>5. \A i \in 0 .. n : i # 0 => q[i] \in Unclaimed /\ i - 1 \in 0 .. n - 1 /\ q[i] = p[i - 1]
    <3> SUFFICES ASSUME NEW i \in 0 .. n, i # 0
                 PROVE  q[i] \in Unclaimed /\ i - 1 \in 0 .. n - 1 /\ q[i] = p[i - 1]
      OBVIOUS
    <3>1. i - 1 \in 0 .. n - 1 /\ (i - 1) + 1 = i /\ i - 1 \in 0 .. n
      BY <2>3
    <3>2. q[i] = p[i - 1]
      BY <2>1, <3>1
    <3> QED
      BY <1>8, <3>1, <3>2 DEF IsPath
  <2>6. \A i, j \in 0 .. n : q[i] = q[j] => i = j
    <3> SUFFICES ASSUME NEW i \in 0 .. n, NEW j \in 0 .. n, q[i] = q[j] PROVE i = j
      OBVIOUS
    <3>1. CASE i # 0 /\ j # 0
      <4>1. i - 1 = j - 1
        BY <1>8, <2>5, <3>1 DEF IsPath
      <4> QED
        BY <2>0, <4>1
    <3>2. CASE i = 0 \/ j = 0
      BY <1>10, <2>1, <2>5, <3>2
    <3> QED
      BY <3>1, <3>2
  <2>7. \A r \in Unclaimed \cup {s} : \E i \in 0 .. n : q[i] = r
    <3> SUFFICES ASSUME NEW r \in Unclaimed \cup {s} PROVE \E i \in 0 .. n : q[i] = r
      OBVIOUS
    <3>1. CASE r = s
      BY <2>0, <2>1, <3>1
    <3>2. CASE r \in Unclaimed
      <4>1. PICK i \in 0 .. n - 1 : p[i] = r
        BY <1>8, <3>2 DEF IsPath
      <4>2. i + 1 \in 0 .. n /\ i \in 0 .. n
        BY <2>0
      <4> QED
        BY <2>1, <4>1, <4>2
    <3> QED
      BY <3>1, <3>2
  <2>8. n + 1 \in 0 .. POOL_SIZE
    <3> DEFINE m == n + 1
               f == [i \in 0 .. m - 1 |-> q[i]]
    <3>1. m \in Nat /\ 0 .. m - 1 = 0 .. n
      BY <2>0
    <3>2. f \in [0 .. m - 1 -> Slot]
      BY <1>2, <2>4, <3>1 DEF Unclaimed
    <3>3. \A i, j \in 0 .. m - 1 : f[i] = f[j] => i = j
      BY <2>6, <3>1
    <3> HIDE DEF f, m
    <3>4. m <= POOL_SIZE
      BY <3>1, <3>2, <3>3, PathBounded
    <3> QED
      BY <2>0, <3>4, PoolAssumption DEF m
  <2> DEFINE m == n + 1
  <2>9. 0 .. m - 1 = 0 .. n /\ q[m] = POOL_SIZE
    BY <1>8, <2>0, <2>1 DEF IsPath
  <2>10. /\ q \in [0 .. m -> 0 .. POOL_SIZE] /\ m \in 0 .. POOL_SIZE
         /\ q[0] = head'.index /\ nodes' = nodes
    BY <1>1, <1>4, <2>1, <2>2, <2>8
  <2> HIDE DEF m
  <2>11. IsPath(q, m, Unclaimed)'
    BY <1>10, <2>4, <2>6, <2>7, <2>9, <2>10 DEF IsPath
  <2> QED
    BY <1>1, <2>10, <2>11 DEF FreeInv
<1> QED
  BY <1>11, <1>12, <1>13, <1>14, <1>15, <1>16 DEF PoolInv

\* An exchanged flag claims a slot that nobody claims.
LEMMA ClaimFlagKeeps ==
  ASSUME PoolInv, NEW t \in Thread, ClaimFlag(t), flags' # flags PROVE PoolInv'
<1> DEFINE s == pc[t].index
<1>1. /\ kind = "flags" /\ pc[t].at = "flag" /\ pc[t] \in Place
      /\ Local(t, "lock") /\ pc'[t].index = s
      /\ ~flags[s] /\ flags' = [flags EXCEPT ![s] = TRUE]
      /\ UNCHANGED <<kind, head, nodes, memory, mutex, holds, lag>>
  BY ClaimFlagFacts DEF PoolInv, PoolType, ClaimFlag
<1>2. s \in Slot /\ s \in Unclaimed
  BY <1>1 DEF PoolInv, FreeInv, Place
<1>3. /\ Claimed(t)' = Claimed(t) \cup {s} /\ s \notin Claimed(t)
      /\ \A u \in Thread : u # t => Claimed(u)' = Claimed(u) /\ s \notin Claimed(u)
  BY <1>1, <1>2 DEF Claimed, Local, Unclaimed
<1> HIDE DEF s
<1>4. Unclaimed' = Unclaimed \ {s}
  BY <1>2, <1>3 DEF Unclaimed, Slot
<1>5. PoolType'
  BY <1>1, <1>2 DEF PoolInv, PoolType, Local, Place, At
<1>6. SeenInv'
  BY <1>1 DEF PoolInv, SeenInv, Current, Behind, Watching, Local
<1>7. ExclusiveInv'
  <2>1. \A u, v \in Thread : u # v => Claimed(u)' \cap Claimed(v)' = {}
    BY <1>3 DEF PoolInv, ExclusiveInv
  <2>2. s \notin holds[t]
    BY <1>3 DEF Claimed
  <2> QED
    BY <1>1, <2>1, <2>2 DEF PoolInv, ExclusiveInv, Claiming, Local
<1>8. MemoryInv'
  BY <1>1, <1>4 DEF PoolInv, MemoryInv, Local
<1>9. MutexInv'
  <2> SUFFICES ASSUME NEW r \in Slot, NEW u \in mutex[r]
               PROVE  \/ r \in holds[u]
                      \/ /\ pc'[u].at \in {"release", "relink", "push", "clear", "unlock"}
                         /\ pc'[u].index = r
    BY <1>1 DEF MutexInv
  <2>1. u \in Thread /\ \/ r \in holds[u]
                        \/ /\ pc[u].at \in {"release", "relink", "push", "clear", "unlock"}
                           /\ pc[u].index = r
    BY DEF PoolInv, PoolType, MutexInv
  <2> QED
    BY <1>1, <2>1 DEF Local
<1>10. FreeInv'
  <2>1. \A r \in Slot : ~flags'[r] <=> r \in Unclaimed'
    BY <1>1, <1>2, <1>4 DEF PoolInv, FreeInv, PoolType
  <2> QED
    BY <1>1, <2>1 DEF FreeInv
<1> QED
  BY <1>5, <1>6, <1>7, <1>8, <1>9, <1>10 DEF PoolInv

\* A cleared flag gives back a slot that nobody else claims.
LEMMA ClearFlagKeeps ==
  ASSUME PoolInv, NEW t \in Thread, ClearFlag(t) PROVE PoolInv'
<1> DEFINE s == pc[t].index
<1>1. /\ pc[t].at = "clear" /\ kind = "flags" /\ pc[t] \in Place
      /\ flags' = [flags EXCEPT ![s] = FALSE]
      /\ UNCHANGED <<kind, head, nodes, memory, mutex, holds, lag>>
  BY DEF ClearFlag, PoolInv, PoolType, Place, At
<1>2. s \in Slot
  BY <1>1 DEF Place
<1>3. Local(t, "unlock") /\ pc'[t].index = s
  <2>1. "unlock" \in At
    BY DEF At
  <2> QED
    BY <2>1, MoveFacts DEF PoolInv, ClearFlag
<1>4. s \in Claimed(t) /\ s \notin holds[t] /\ memory[s] = "zero"
  BY <1>1 DEF Claimed, PoolInv, ExclusiveInv, MemoryInv, Claiming
<1>5. Claimed(t)' = Claimed(t) \ {s} /\ \A u \in Thread : u # t => Claimed(u)' = Claimed(u)
  BY <1>1, <1>3, <1>4 DEF Claimed, Local
<1> HIDE DEF s
<1>6. \A u \in Thread : u # t => s \notin Claimed(u)
  BY <1>4 DEF PoolInv, ExclusiveInv
<1>7. Unclaimed' = Unclaimed \cup {s}
  BY <1>2, <1>4, <1>5, <1>6 DEF Unclaimed, Slot
<1>9. PoolType'
  BY <1>1, <1>2, <1>3 DEF PoolInv, PoolType, Local, Place, At
<1>10. SeenInv'
  BY <1>1, <1>3 DEF PoolInv, SeenInv, Current, Behind, Watching, Local
<1>11. ExclusiveInv'
  <2>1. \A u, v \in Thread : u # v => Claimed(u)' \cap Claimed(v)' = {}
    BY <1>5 DEF PoolInv, ExclusiveInv
  <2> QED
    BY <1>1, <1>3, <2>1 DEF PoolInv, ExclusiveInv, Claiming, Local
<1>12. MemoryInv'
  BY <1>1, <1>3, <1>4, <1>7 DEF PoolInv, MemoryInv, Local
<1>13. MutexInv'
  <2> SUFFICES ASSUME NEW r \in Slot, NEW u \in mutex[r]
               PROVE  \/ r \in holds[u]
                      \/ /\ pc'[u].at \in {"release", "relink", "push", "clear", "unlock"}
                         /\ pc'[u].index = r
    BY <1>1 DEF MutexInv
  <2>1. u \in Thread /\ \/ r \in holds[u]
                        \/ /\ pc[u].at \in {"release", "relink", "push", "clear", "unlock"}
                           /\ pc[u].index = r
    BY DEF PoolInv, PoolType, MutexInv
  <2> QED
    BY <1>1, <1>3, <2>1 DEF Local, s
<1>14. FreeInv'
  <2>1. \A r \in Slot : ~flags'[r] <=> r \in Unclaimed'
    BY <1>1, <1>2, <1>7 DEF PoolInv, FreeInv, PoolType
  <2> QED
    BY <1>1, <2>1 DEF FreeInv
<1> QED
  BY <1>9, <1>10, <1>11, <1>12, <1>13, <1>14 DEF PoolInv

\* The new pool: every slot is linked to the next, the last one to the end.
LEMMA PoolStart == Init => PoolInv
<1> SUFFICES ASSUME Init PROVE PoolInv
  OBVIOUS
<1>0. POOL_SIZE \in Nat /\ POOL_SIZE > 0 /\ GENERATIONS \in Nat /\ GENERATIONS > 1
  BY PoolAssumption
<1>1. 0 % GENERATIONS = 0
  BY <1>0
<1>2. head = [gen |-> 0, index |-> 0]
  BY <1>1 DEF Init, TaggedIndex
<1>3. pc = [t \in Thread |-> Idle] /\ Idle.at = "idle" /\ Idle \in Place
  BY <1>0, <1>1 DEF Init, Idle, Place, TaggedIndex, Tagged, Slot, At
<1>4. \A t \in Thread : Claimed(t) = {}
  BY <1>3 DEF Init, Claimed
<1>5. Unclaimed = Slot
  BY <1>4 DEF Unclaimed
<1>6. PoolType
  BY <1>0, <1>2, <1>3 DEF Init, PoolType, Tagged, Slot
<1>7. SeenInv /\ ExclusiveInv /\ MutexInv
  BY <1>3, <1>4 DEF Init, SeenInv, Current, Watching, ExclusiveInv, Claiming, MutexInv
<1>8. MemoryInv
  BY <1>3, <1>5 DEF Init, MemoryInv
<1>9. FreeInv
  <2>1. CASE kind = "static"
    <3> DEFINE p == [i \in 0 .. POOL_SIZE |-> i]
    <3>1. p \in [0 .. POOL_SIZE -> 0 .. POOL_SIZE]
      OBVIOUS
    <3>2. \A i \in 0 .. POOL_SIZE : p[i] = i
      OBVIOUS
    <3>3. \A i \in 0 .. POOL_SIZE - 1 : i \in 0 .. POOL_SIZE /\ i + 1 \in 0 .. POOL_SIZE
      BY <1>0
    <3> HIDE DEF p
    <3>4. \A i \in 0 .. POOL_SIZE - 1 : p[i] \in Slot /\ p[i + 1] = nodes[p[i]]
      BY <3>2, <3>3 DEF Init, Slot
    <3>5. p[0] = head.index /\ p[POOL_SIZE] = POOL_SIZE
      BY <1>0, <1>2, <3>2
    <3>6. \A s \in Slot : \E i \in 0 .. POOL_SIZE - 1 : p[i] = s
      BY <3>2, <3>3 DEF Slot
    <3>7. \A i, j \in 0 .. POOL_SIZE - 1 : p[i] = p[j] => i = j
      BY <3>2, <3>3
    <3>8. IsPath(p, POOL_SIZE, Unclaimed)
      BY <1>5, <3>1, <3>4, <3>5, <3>6, <3>7 DEF IsPath
    <3>9. POOL_SIZE \in 0 .. POOL_SIZE
      BY <1>0
    <3> QED
      BY <2>1, <3>1, <3>8, <3>9 DEF FreeInv
  <2>2. CASE kind # "static"
    BY <1>5, <2>2 DEF Init, FreeInv
  <2> QED
    BY <2>1, <2>2
<1> QED
  BY <1>6, <1>7, <1>8, <1>9 DEF PoolInv

\* Every access of every thread keeps the invariant.
LEMMA PoolInvariant == Spec => []PoolInv
<1>1. PoolInv /\ [Next]_vars => PoolInv'
  <2> SUFFICES ASSUME PoolInv, [Next]_vars PROVE PoolInv'
    OBVIOUS
  <2>1. CASE UNCHANGED vars
    <3>1. \A u \in Thread : Claimed(u)' = Claimed(u)
      BY <2>1 DEF vars, Claimed
    <3>2. /\ FreeInv' /\ Unclaimed' = Unclaimed
          /\ \A u, v \in Thread : u # v => Claimed(u)' \cap Claimed(v)' = {}
      BY <2>1, <3>1, SameClaims DEF vars
    <3> QED
      BY <2>1, <3>2 DEF vars, PoolInv, PoolType, Place, At, SeenInv, Current, Behind, Watching,
         ExclusiveInv, MemoryInv, MutexInv
  <2>2. ASSUME NEW t \in Thread,
               \/ StaticCheckout(t) \/ ReadLink(t) \/ Pop(t) \/ FlagsCheckout(t) \/ ClaimFlag(t)
               \/ Lock(t) \/ Wait(t) \/ Write(t) \/ Drop(t) \/ LoadHead(t) \/ Relink(t) \/ Push(t)
               \/ ClearFlag(t) \/ Unlock(t)
        PROVE  PoolInv'
    BY <2>2, QuietSteps, QuietKeeps, LockKeeps, WriteKeeps, DropKeeps, RelinkKeeps, UnlockKeeps,
       PopKeeps, PushKeeps, ClaimFlagKeeps, ClearFlagKeeps
  <2> QED
    BY <2>1, <2>2 DEF Next
<1> QED
  BY <1>1, PoolStart, PTL DEF Spec

------------------------------------------------------------------------------
(* Results *)

\* A set of natural numbers that is not empty has a least element.
LEMMA LeastNumber ==
  ASSUME NEW T \in SUBSET Nat, T # {}
  PROVE  \E x \in T : \A y \in T : ~(y < x)
<1>1. \E x \in T : \A y \in T : ~(<<y, x>> \in OpToRel(<, Nat))
  BY NatLessThanWellFounded, WFMin
<1>2. \A x, y \in T : y < x => <<y, x>> \in OpToRel(<, Nat)
  BY DEF OpToRel
<1> QED
  BY <1>1, <1>2

\* Following the links from the head walks along the path, and stays at its end.
LEMMA StackIsPath ==
  ASSUME PoolInv, NEW n \in 0 .. POOL_SIZE, NEW p, IsPath(p, n, Unclaimed)
  PROVE  Stack = [i \in 0 .. POOL_SIZE |-> IF i <= n THEN p[i] ELSE POOL_SIZE]
<1> DEFINE Steps(g) == [i \in 0 .. POOL_SIZE |->
                          IF i = 0 THEN head.index
                          ELSE IF g[i - 1] < POOL_SIZE THEN nodes[g[i - 1]] ELSE POOL_SIZE]
           w == [i \in 0 .. POOL_SIZE |-> IF i <= n THEN p[i] ELSE POOL_SIZE]
<1>0. POOL_SIZE \in Nat /\ POOL_SIZE > 0 /\ n \in Nat /\ n <= POOL_SIZE
  BY PoolAssumption
<1>1. \A i \in 0 .. POOL_SIZE : w[i] = IF i <= n THEN p[i] ELSE POOL_SIZE
  OBVIOUS
<1>2. ASSUME NEW i \in 0 .. POOL_SIZE
      PROVE  w[i] = IF i = 0 THEN head.index
                    ELSE IF w[i - 1] < POOL_SIZE THEN nodes[w[i - 1]] ELSE POOL_SIZE
  <2>1. CASE i = 0
    BY <1>0, <1>1, <2>1 DEF IsPath
  <2>2. CASE i # 0 /\ i <= n
    <3>1. i - 1 \in 0 .. n - 1 /\ i - 1 \in 0 .. POOL_SIZE /\ i - 1 <= n /\ (i - 1) + 1 = i
      BY <1>0, <2>2
    <3>2. p[i - 1] \in Slot /\ p[i] = nodes[p[i - 1]]
      BY <3>1 DEF IsPath, Unclaimed
    <3>3. w[i - 1] = p[i - 1] /\ w[i] = p[i]
      BY <1>1, <2>2, <3>1
    <3> QED
      BY <1>0, <2>2, <3>2, <3>3 DEF Slot
  <2>3. CASE i # 0 /\ ~(i <= n)
    <3>1. i - 1 \in 0 .. POOL_SIZE /\ (i - 1 = n \/ ~(i - 1 <= n))
      BY <1>0, <2>3
    <3>2. w[i - 1] = POOL_SIZE /\ w[i] = POOL_SIZE
      BY <1>0, <1>1, <2>3, <3>1 DEF IsPath
    <3> QED
      BY <1>0, <2>3, <3>2
  <2> QED
    BY <2>1, <2>2, <2>3
<1>3. w = Steps(w)
  BY <1>2
<1>4. Stack = CHOOSE g : g = Steps(g)
  BY DEF Stack
<1> HIDE DEF w
<1>5. Stack = Steps(Stack)
  <2> HIDE DEF Steps
  <2> QED
    BY <1>3, <1>4, Zenon
<1>6. \A i \in 0 .. POOL_SIZE :
        Stack[i] = IF i = 0 THEN head.index
                   ELSE IF Stack[i - 1] < POOL_SIZE THEN nodes[Stack[i - 1]] ELSE POOL_SIZE
  BY <1>5
<1> DEFINE T == {i \in 0 .. POOL_SIZE : Stack[i] # w[i]}
<1>7. T = {}
  <2> SUFFICES ASSUME T # {} PROVE FALSE
    OBVIOUS
  <2>1. T \in SUBSET Nat
    OBVIOUS
  <2>2. PICK x \in T : \A y \in T : ~(y < x)
    BY <2>1, LeastNumber
  <2>3. x \in 0 .. POOL_SIZE /\ Stack[x] # w[x]
    OBVIOUS
  <2>4. x # 0
    BY <1>0, <1>2, <1>6, <2>3
  <2>5. x - 1 \in 0 .. POOL_SIZE /\ x - 1 < x
    BY <1>0, <2>3, <2>4
  <2>6. Stack[x - 1] = w[x - 1]
    BY <2>2, <2>5
  <2> QED
    BY <1>2, <1>6, <2>3, <2>4, <2>6
<1>8. Stack = [i \in 0 .. POOL_SIZE |-> Stack[i]]
  BY <1>5
<1>9. \A i \in 0 .. POOL_SIZE : Stack[i] = w[i]
  BY <1>7
<1>10. w = [i \in 0 .. POOL_SIZE |-> w[i]]
  BY DEF w
<1> QED
  BY <1>8, <1>9, <1>10 DEF w

\* The free slots of either pool are the unclaimed ones, and the stack ends.
LEMMA FreeIsUnclaimed ==
  ASSUME PoolInv
  PROVE  /\ \A s \in Slot : Free(s) <=> s \in Unclaimed
         /\ kind = "static" => Stack[POOL_SIZE] = POOL_SIZE
<1>1. CASE kind = "static"
  <2>1. PICK n \in 0 .. POOL_SIZE : \E p \in [0 .. n -> 0 .. POOL_SIZE] : IsPath(p, n, Unclaimed)
    BY <1>1 DEF PoolInv, FreeInv
  <2>2. PICK p \in [0 .. n -> 0 .. POOL_SIZE] : IsPath(p, n, Unclaimed)
    BY <2>1
  <2>3. Stack = [i \in 0 .. POOL_SIZE |-> IF i <= n THEN p[i] ELSE POOL_SIZE]
    BY <2>2, StackIsPath
  <2>4. n \in Nat /\ n <= POOL_SIZE /\ POOL_SIZE \in Nat /\ POOL_SIZE \notin Slot
    BY PoolAssumption DEF Slot
  <2>5. Range(Stack) = {Stack[i] : i \in 0 .. POOL_SIZE}
    BY <2>3 DEF Range
  <2>6. \A i \in 0 .. POOL_SIZE : Stack[i] = IF i <= n THEN p[i] ELSE POOL_SIZE
    BY <2>3
  <2>7. ASSUME NEW s \in Slot, s \in Range(Stack) PROVE s \in Unclaimed
    <3>1. PICK i \in 0 .. POOL_SIZE : Stack[i] = s
      BY <2>5, <2>7
    <3>2. i \in 0 .. n - 1 /\ p[i] = s
      BY <2>2, <2>4, <2>6, <3>1 DEF IsPath
    <3> QED
      BY <2>2, <3>2 DEF IsPath
  <2>8. ASSUME NEW s \in Unclaimed PROVE s \in Range(Stack)
    <3>1. PICK i \in 0 .. n - 1 : p[i] = s
      BY <2>2 DEF IsPath
    <3>2. i \in 0 .. POOL_SIZE /\ i <= n
      BY <2>4
    <3> QED
      BY <2>5, <2>6, <3>1, <3>2
  <2>9. Stack[POOL_SIZE] = POOL_SIZE
    BY <2>2, <2>4, <2>6 DEF IsPath
  <2> QED
    BY <1>1, <2>7, <2>8, <2>9 DEF Free
<1>2. CASE kind # "static"
  BY <1>2 DEF PoolInv, FreeInv, Free
<1> QED
  BY <1>1, <1>2

\* Both pools conserve their slots, for every number of threads, slots and generations and
\* however often the generation wraps: the exchange of the head is safe against ABA as long
\* as no thread is overtaken by a whole turn between its load and its exchange.
THEOREM PoolConservesSlots == Spec => []SlotsConserved
<1>1. PoolInv => SlotsConserved
  <2> SUFFICES ASSUME PoolInv PROVE SlotsConserved
    OBVIOUS
  <2>1. ASSUME NEW s \in Slot
        PROVE  /\ Cardinality({t \in Thread : s \in Claimed(t)}) = IF Free(s) THEN 0 ELSE 1
               /\ Free(s) => memory[s] = "zero"
    <3>1. CASE s \in Unclaimed
      <4>1. {t \in Thread : s \in Claimed(t)} = {}
        BY <3>1 DEF Unclaimed
      <4>2. Free(s) /\ memory[s] = "zero"
        BY <3>1, FreeIsUnclaimed DEF PoolInv, MemoryInv
      <4> QED
        BY <4>1, <4>2, FS_EmptySet
    <3>2. CASE s \notin Unclaimed
      <4>1. PICK t \in Thread : s \in Claimed(t)
        BY <3>2 DEF Unclaimed
      <4>2. {u \in Thread : s \in Claimed(u)} = {t}
        BY <4>1 DEF PoolInv, ExclusiveInv
      <4>3. ~Free(s)
        BY <3>2, FreeIsUnclaimed
      <4> QED
        BY <4>2, <4>3, FS_Singleton
    <3> QED
      BY <3>1, <3>2
  <2> QED
    BY <2>1, FreeIsUnclaimed DEF SlotsConserved
<1> QED
  BY <1>1, PoolInvariant, PTL

\* A checkout waits only for a mutex whose holder is about to unlock it, as long as no
\* thread is overtaken by a whole turn of the generation.
THEOREM CheckoutWaitsBriefly == Spec => []WaitsBriefly
<1>1. PoolInv => WaitsBriefly
  <2> SUFFICES ASSUME PoolInv, NEW t \in Thread, pc[t].at \in {"lock", "wait"}, NEW u \in mutex[pc[t].index]
               PROVE  pc[u].at = "unlock" /\ pc[u].index = pc[t].index
    BY DEF WaitsBriefly
  <2> DEFINE s == pc[t].index
  <2>1. s \in Slot /\ s \in Claimed(t) /\ s \notin holds[t]
    BY DEF PoolInv, PoolType, Place, Claimed, ExclusiveInv, Claiming
  <2>2. u \in Thread
    BY <2>1 DEF PoolInv, PoolType
  <2>3. \/ s \in holds[u]
        \/ /\ pc[u].at \in {"release", "relink", "push", "clear", "unlock"}
           /\ pc[u].index = s
    BY <2>1 DEF PoolInv, MutexInv
  <2>4. u # t
    BY <2>1, <2>3
  <2>5. s \notin Claimed(u)
    BY <2>1, <2>2, <2>4 DEF PoolInv, ExclusiveInv
  <2> QED
    BY <2>3, <2>5 DEF Claimed
<1> QED
  BY <1>1, PoolInvariant, PTL
==============================================================================
