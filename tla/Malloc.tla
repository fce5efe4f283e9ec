------------------------------- MODULE Malloc -------------------------------
(***************************************************************************)
(* The heap of the C library: malloc(), free(), realloc() and calloc() of  *)
(* src/libc/stdlib/malloc.c, realloc.c and calloc.c.                       *)
(*                                                                         *)
(* Memory is counted in units of sizeof(Header).  Unit 0 is the static     *)
(* header "base"; the heap proper is 1 .. brk-1 and grows with sbrk().     *)
(* The header of a chunk at unit a is the pair size[a], next[a]:           *)
(*   free chunk      size[a] > 0 and next[a] the next chunk of the list    *)
(*   chunk in use    size[a] > 0 and next[a] = NULL                        *)
(*   no header at a  size[a] = 0 and next[a] = NULL                        *)
(* A header that is merged away or unlinked in mid-chunk becomes payload;  *)
(* the model clears it so that a state has one representation.             *)
(*                                                                         *)
(* The two list walks (_prevchunk and the first fit scan of malloc) are    *)
(* one step per iteration, so that their termination is a property and     *)
(* not an assumption.                                                      *)
(***************************************************************************)
EXTENDS Integers

CONSTANTS
  HDR,       \* sizeof(Header) in bytes
  NALLOC,    \* minimum number of units asked to the system
  SIZE,      \* SIZE_MAX + 1: size_t arithmetic is modulo SIZE
  Limit,     \* first unit that the system never grants
  Requests   \* byte counts the program asks for

ASSUME HDRAssumption     == HDR \in Nat \ {0}
ASSUME NALLOCAssumption  == NALLOC \in Nat \ {0}
ASSUME LimitAssumption   == Limit \in Nat \ {0}
ASSUME SizeAssumption    == SIZE \in Nat \ {0}
ASSUME RequestAssumption == Requests \subseteq 0 .. SIZE - 1

VARIABLES
  size, next,  \* the headers
  freep,       \* _freep, where the walks start
  brk,         \* first unit past the heap
  pc,          \* what the library is doing
  p,           \* cursor of the walk: prev of malloc, p of _prevchunk
  hp,          \* chunk whose predecessor _prevchunk looks for
  nbytes,      \* argument of malloc or realloc
  ptr,         \* header of the argument of realloc
  inrealloc,   \* malloc was called by realloc
  caller,      \* who called _prevchunk: free() (and for whom) or realloc()
  live,        \* the program's own view: bytes it owns at each block
  kept         \* bytes of the old block realloc carried to the new one

vars == <<size, next, freep, brk, pc, p, hp, nbytes, ptr, inrealloc, caller,
          live, kept>>

NULL == -1
base == 0
Addr == 0 .. Limit
Callers == {"free", "morecore", "shrink", "grow", "move"}

(***************************************************************************)
(* Arithmetic of the size arguments.  TooBig is the guard of malloc and    *)
(* realloc, Units the number of units of a request and Grant the number of *)
(* units sbrk() really gets for n units, with the wrap of size_t.          *)
(***************************************************************************)
MinOf(a, b) == IF a < b THEN a ELSE b
TooBig(n)   == n > SIZE - 1 - HDR - 1
Units(n)    == ((n + HDR - 1) % SIZE) \div HDR + 1
Ask(n)      == IF n < NALLOC THEN NALLOC ELSE n
Grant(n)    == ((n * HDR) % SIZE) \div HDR

\* Every byte count that can reach malloc(): calloc() multiplies two of them.
Amounts == Requests \cup {m * s : m, s \in Requests}

\* No request is so close to SIZE_MAX that the byte count sbrk() gets wraps.
NoWrap == \A n \in Amounts : n # 0 /\ ~TooBig(n) =>
            Grant(Ask(Units(n))) = Ask(Units(n))

Heads  == {a \in Addr : size[a] > 0}
Frees  == {a \in Addr : next[a] # NULL}

Init ==
  /\ size = [a \in Addr |-> 0]
  /\ next = [a \in Addr |-> IF a = base THEN base ELSE NULL]
  /\ freep = base
  /\ brk = 1
  /\ pc = "idle"
  /\ p = base /\ hp = base /\ nbytes = 0 /\ ptr = NULL
  /\ inrealloc = FALSE /\ caller = "free"
  /\ live = [a \in Addr |-> 0]
  /\ kept = 0

(***************************************************************************)
(* Entry points.  A call is accepted when the library is idle; the calls   *)
(* that fail at once leave the state as it is.                             *)
(***************************************************************************)
StartScan(n, forRealloc) ==
  /\ pc' = "scan"
  /\ p' = freep
  /\ nbytes' = n
  /\ inrealloc' = forRealloc

StartPrev(a, who) ==
  /\ pc' = "prev"
  /\ p' = freep
  /\ hp' = a
  /\ caller' = who

\* A return to the program: the locals of the call die.
Return ==
  /\ pc' = "idle"
  /\ p' = base /\ hp' = base /\ nbytes' = 0 /\ ptr' = NULL
  /\ inrealloc' = FALSE /\ caller' = "free"

malloc(n) ==
  /\ pc = "idle"
  /\ n # 0 /\ ~TooBig(n)
  /\ StartScan(n, FALSE)
  /\ UNCHANGED <<size, next, freep, brk, hp, ptr, caller, live, kept>>

\* calloc multiplies first; its memset touches the payload only.
calloc(nmemb, sz) ==
  /\ nmemb # 0 /\ sz # 0
  /\ nmemb <= (SIZE - 1) \div sz
  /\ malloc(nmemb * sz)

free(a) ==
  /\ pc = "idle"
  /\ live[a] > 0
  /\ live' = [live EXCEPT ![a] = 0]
  /\ kept' = 0
  /\ StartPrev(a, "free")
  /\ UNCHANGED <<size, next, freep, brk, nbytes, ptr, inrealloc>>

\* The block already has the right number of units.
reallocSame(a, n) ==
  /\ size[a] = Units(n)
  /\ live' = [live EXCEPT ![a] = n]
  /\ kept' = MinOf(live[a], n)
  /\ UNCHANGED <<size, next, freep, brk, pc, p, hp, nbytes, ptr, inrealloc, caller>>

\* The tail becomes a chunk of its own and is freed.
reallocShrink(a, n) ==
  /\ Units(n) < size[a]
  /\ size' = [size EXCEPT ![a] = Units(n), ![a + Units(n)] = size[a] - Units(n)]
  /\ live' = [live EXCEPT ![a] = n]
  /\ kept' = MinOf(live[a], n)
  /\ StartPrev(a + Units(n), "shrink")
  /\ UNCHANGED <<next, freep, brk, nbytes, ptr, inrealloc>>

reallocGrow(a, n) ==
  /\ Units(n) > size[a]
  /\ nbytes' = n
  /\ ptr' = a
  /\ StartPrev(a, "grow")
  /\ UNCHANGED <<size, next, freep, brk, inrealloc, live, kept>>

realloc(a, n) ==
  /\ pc = "idle"
  /\ live[a] > 0
  /\ n # 0 /\ ~TooBig(n)
  /\ reallocSame(a, n) \/ reallocShrink(a, n) \/ reallocGrow(a, n)

(***************************************************************************)
(* _prevchunk: walk the list until hp lies between p and p->next.          *)
(***************************************************************************)
\* Mutant of PrevFound: the end of the list is not recognised.
PrevFoundNoWrap == p < hp /\ hp < next[p]

PrevFound ==
  \/ p < hp /\ hp < next[p]
  \/ next[p] <= p /\ (hp < next[p] \/ hp > p)

_prevchunk ==
  /\ pc = "prev"
  /\ ~PrevFound
  /\ p' = next[p]
  /\ UNCHANGED <<size, next, freep, brk, pc, hp, nbytes, ptr, inrealloc, caller,
                 live, kept>>

(***************************************************************************)
(* The rest of free(): join hp with the next chunk, then with the previous *)
(* one, and leave _freep at the previous chunk.                            *)
(***************************************************************************)
JoinNext == hp + size[hp] = next[p]
JoinPrev == p + size[p] = hp

JoinedSize == size[hp] + (IF JoinNext THEN size[next[p]] ELSE 0)
JoinedNext == IF JoinNext THEN next[next[p]] ELSE next[p]

join ==
  LET gone == (IF JoinNext THEN {next[p]} ELSE {}) \cup
              (IF JoinPrev THEN {hp} ELSE {})
      chunk == IF JoinPrev THEN p ELSE hp
      total == (IF JoinPrev THEN size[p] ELSE 0) + JoinedSize
  IN /\ size' = [a \in Addr |-> IF a \in gone THEN 0
                                ELSE IF a = chunk THEN total ELSE size[a]]
     /\ next' = [a \in Addr |-> IF a \in gone THEN NULL
                                ELSE IF a = chunk THEN JoinedNext
                                ELSE IF a = p THEN hp ELSE next[a]]
     /\ freep' = p

\* free() returns to the program, or to the realloc() that called it.
freeDone ==
  /\ pc = "prev" /\ PrevFound
  /\ caller \in {"free", "shrink", "move"}
  /\ join
  /\ Return
  /\ UNCHANGED <<brk, live, kept>>

\* free() returns to morecore(), and malloc goes on from _freep.
morecoreDone ==
  /\ pc = "prev" /\ PrevFound
  /\ caller = "morecore"
  /\ join
  /\ pc' = "scan"
  /\ UNCHANGED <<brk, p, hp, nbytes, ptr, inrealloc, caller, live, kept>>

(***************************************************************************)
(* malloc: one iteration of the first fit scan.                            *)
(***************************************************************************)
cur == next[p]

\* Mutant of Deliver: realloc() copies one unit less than the old block has.
DeliverShort(chunk) ==
  IF inrealloc
  THEN /\ live' = [live EXCEPT ![ptr] = 0, ![chunk] = nbytes]
       /\ kept' = MinOf(live[ptr], MinOf((size[ptr] - 2) * HDR, nbytes))
       /\ pc' = "prev" /\ hp' = ptr /\ caller' = "move"
       /\ UNCHANGED <<p, nbytes, ptr, inrealloc>>
  ELSE /\ live' = [live EXCEPT ![chunk] = nbytes]
       /\ kept' = 0
       /\ Return

\* Hand a chunk to the caller; a realloc() in progress copies the contents
\* and goes on to free the old block.
Deliver(chunk) ==
  IF inrealloc
  THEN /\ live' = [live EXCEPT ![ptr] = 0, ![chunk] = nbytes]
       /\ kept' = MinOf(live[ptr], MinOf((size[ptr] - 1) * HDR, nbytes))
       /\ pc' = "prev" /\ hp' = ptr /\ caller' = "move"
       /\ UNCHANGED <<p, nbytes, ptr, inrealloc>>
  ELSE /\ live' = [live EXCEPT ![chunk] = nbytes]
       /\ kept' = 0
       /\ Return

\* The chunk fits perfectly: unlink it.
mallocExact ==
  /\ pc = "scan"
  /\ size[cur] = Units(nbytes)
  /\ next' = [next EXCEPT ![p] = next[cur], ![cur] = NULL]
  /\ freep' = p
  /\ Deliver(cur)
  /\ UNCHANGED <<size, brk>>

\* The chunk is larger: keep the left part, return the right one.
mallocSplit ==
  /\ pc = "scan"
  /\ size[cur] > Units(nbytes)
  /\ LET left == size[cur] - Units(nbytes)
     IN /\ size' = [size EXCEPT ![cur] = left, ![cur + left] = Units(nbytes)]
        /\ Deliver(cur + left)
  /\ freep' = p
  /\ UNCHANGED <<next, brk>>

mallocNext ==
  /\ pc = "scan"
  /\ size[cur] < Units(nbytes)
  /\ cur # freep
  /\ p' = cur
  /\ UNCHANGED <<size, next, freep, brk, pc, hp, nbytes, ptr, inrealloc, caller,
                 live, kept>>

\* Full turn without a fit.  sbrk() may refuse: then malloc returns NULL.
WholeTurn == pc = "scan" /\ size[cur] < Units(nbytes) /\ cur = freep

morecoreFail ==
  /\ WholeTurn
  /\ Return
  /\ UNCHANGED <<size, next, freep, brk, live, kept>>

morecore ==
  LET n == Ask(Units(nbytes))
  IN /\ WholeTurn
     /\ brk + Grant(n) <= Limit
     /\ brk' = brk + Grant(n)
     /\ size' = [size EXCEPT ![brk] = n]
     /\ StartPrev(brk, "morecore")
     /\ UNCHANGED <<next, freep, nbytes, ptr, inrealloc, live, kept>>

(***************************************************************************)
(* realloc, growing: the predecessor of the block is known, so the chunk   *)
(* after it is too.                                                        *)
(***************************************************************************)
Growing == pc = "prev" /\ PrevFound /\ caller = "grow"
avail   == size[hp] + size[next[p]]

GrowInPlace ==
  /\ live' = [live EXCEPT ![hp] = nbytes]
  /\ kept' = MinOf(live[hp], nbytes)
  /\ Return
  /\ UNCHANGED brk

\* Mutant of growExact: _freep may stay at the chunk that was swallowed.
growExactStaleFreep ==
  /\ Growing
  /\ JoinNext
  /\ avail = Units(nbytes)
  /\ size' = [size EXCEPT ![hp] = Units(nbytes), ![next[p]] = 0]
  /\ next' = [next EXCEPT ![p] = next[next[p]], ![next[p]] = NULL]
  /\ freep' = freep
  /\ GrowInPlace

growExact ==
  /\ Growing
  /\ JoinNext
  /\ avail = Units(nbytes)
  /\ size' = [size EXCEPT ![hp] = Units(nbytes), ![next[p]] = 0]
  /\ next' = [next EXCEPT ![p] = next[next[p]], ![next[p]] = NULL]
  /\ freep' = p
  /\ GrowInPlace

growSplit ==
  /\ Growing
  /\ JoinNext
  /\ avail > Units(nbytes)
  /\ LET nx   == next[p]
         rest == hp + Units(nbytes)
     IN /\ size' = [[size EXCEPT ![nx] = 0]
                      EXCEPT ![hp] = Units(nbytes), ![rest] = avail - Units(nbytes)]
        /\ next' = [[next EXCEPT ![nx] = NULL]
                      EXCEPT ![p] = rest, ![rest] = next[nx]]
        /\ freep' = rest
  /\ GrowInPlace

growMove ==
  /\ Growing
  /\ ~(JoinNext /\ avail >= Units(nbytes))
  /\ StartScan(nbytes, TRUE)
  /\ UNCHANGED <<size, next, freep, brk, hp, ptr, caller, live, kept>>

Call ==
  \/ \E n \in Requests : malloc(n)
  \/ \E m, s \in Requests : calloc(m, s)
  \/ \E a \in Addr : free(a)
  \/ \E a \in Addr, n \in Requests : realloc(a, n)

Work ==
  \/ _prevchunk
  \/ freeDone
  \/ morecoreDone
  \/ mallocExact
  \/ mallocSplit
  \/ mallocNext
  \/ morecoreFail
  \/ morecore
  \/ growExact
  \/ growSplit
  \/ growMove

Next == Call \/ Work

\* The library runs on its caller's thread: once entered it keeps running.
Spec     == Init /\ [][Next]_vars
FairSpec == Spec /\ WF_vars(Work)

(***************************************************************************)
(* Properties.                                                             *)
(***************************************************************************)

\* Types of the variables; the cursors of the walks stay on the free list.
TypeOK ==
  /\ size \in [Addr -> Nat]
  /\ next \in [Addr -> Addr \cup {NULL}]
  /\ freep \in Addr /\ brk \in Addr \ {base}
  /\ pc \in {"idle", "scan", "prev"}
  /\ p \in Addr /\ hp \in Addr
  /\ nbytes \in 0 .. SIZE - 1
  /\ ptr \in Addr \cup {NULL}
  /\ inrealloc \in BOOLEAN /\ caller \in Callers
  /\ live \in [Addr -> 0 .. SIZE - 1]
  /\ kept \in 0 .. SIZE - 1

\* A chunk that free() or morecore() is about to link.
InFlight(a) == pc = "prev" /\ caller # "grow" /\ a = hp

\* Chunks never overlap and never leave the heap, and every unit of the heap
\* belongs to one of them: each chunk ends where the next one starts, whatever
\* splits and joins malloc(), free() and realloc() made.
HeapTiled ==
  /\ size[base] = 0
  /\ brk > 1 => 1 \in Heads
  /\ \A a \in Heads : a + size[a] = brk \/ a + size[a] \in Heads
  /\ \A a, b \in Heads : a < b => a + size[a] <= b
  /\ \A a \in Heads : a + size[a] <= brk

\* The free list is one circle through base sorted by address, which is what
\* _prevchunk() relies on to find the neighbours of a chunk.
FreeListOrdered ==
  /\ base \in Frees /\ freep \in Frees
  /\ \A a \in Frees : /\ a = base \/ a \in Heads
                      /\ next[a] \in Frees
                      /\ IF next[a] = base
                         THEN \A b \in Frees : b <= a
                         ELSE a < next[a] /\ \A b \in Frees : b <= a \/ next[a] <= b

\* Two free neighbours are always joined (malloc.c: "try to merge with next
\* and previous blocks"), also by realloc() when it shrinks or grows in place.
Coalesced == \A a \in Frees \ {base} : a + size[a] \notin Frees

\* No unit is lost: a chunk is on the free list, or the program owns it, or
\* free() is about to link it.
NoChunkLost == \A a \in Heads : a \in Frees \/ live[a] > 0 \/ InFlight(a)

\* A block the program owns is a chunk in use, outside the free list, whose
\* payload holds the bytes that were asked for.
LiveBlocksFit ==
  \A a \in Addr : live[a] > 0 =>
    a \in Heads /\ a \notin Frees /\ live[a] <= (size[a] - 1) * HDR

Asked(n) == n \in Amounts /\ n # 0 /\ ~TooBig(n)

\* What the library knows while it works: the cursor is on the free list, the
\* chunk whose predecessor is wanted is in use, a realloc() that had to call
\* malloc() still owns the old block and needs a larger one.
ControlOK ==
  /\ pc \in {"scan", "prev"} => p \in Frees
  /\ pc = "scan" \/ (pc = "prev" /\ caller \in {"morecore", "grow"}) => Asked(nbytes)
  /\ pc = "prev" => hp \in Heads \ Frees
  /\ pc = "prev" /\ caller = "grow" =>
       ptr = hp /\ live[hp] > 0 /\ size[hp] < Units(nbytes)
  /\ pc = "prev" /\ caller # "grow" => live[hp] = 0
  /\ pc = "scan" \/ (pc = "prev" /\ caller = "morecore") =>
       (inrealloc => ptr \in Addr /\ live[ptr] > 0 /\ size[ptr] < Units(nbytes))

\* The heap after any calls, and in the middle of one: every unit is in exactly
\* one chunk, the free list is one sorted circle without free neighbours, the
\* program's blocks keep what they were asked to hold, and _freep, the cursor
\* of malloc() and the chunks in hand are what the next step takes them for.
\* It is inductive.
Inv == /\ TypeOK /\ HeapTiled /\ FreeListOrdered /\ Coalesced /\ NoChunkLost
       /\ LiveBlocksFit /\ ControlOK

\* Every call returns: both walks of the list meet their exit condition.
CallReturns == pc # "idle" ~> pc = "idle"

\* The program's view of the allocator.
Abstract == INSTANCE Allocator
  WITH Places <- Addr, Amounts <- Amounts \ {0}, owned <- live, carried <- kept

\* malloc(), free() and realloc() implement the abstract allocator: blocks in
\* use never share memory, and realloc() preserves the smaller of the old and
\* the new contents.
ImplementsAllocator == Abstract!ASpec
=============================================================================
