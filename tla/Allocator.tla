----------------------------- MODULE Allocator ------------------------------
(***************************************************************************)
(* What a program may expect of malloc(), free() and realloc(): it owns    *)
(* blocks of bytes that never share memory, a block is given up only by    *)
(* free() or realloc(), and realloc() carries the contents over.  How the  *)
(* library finds the memory is not visible here.                           *)
(***************************************************************************)
EXTENDS Integers

CONSTANTS
  HDR,      \* bytes of a unit of memory
  Places,   \* where a block can start
  Amounts   \* sizes in bytes that can be asked for

VARIABLES
  owned,    \* owned[a]: bytes of the block at a, 0 when there is none
  carried   \* bytes the last realloc() preserved

avars == <<owned, carried>>

Least(a, b) == IF a < b THEN a ELSE b

\* Units of memory the bytes of a block occupy, past its header.
Payload(a, n) == (a + 1) .. (a + (n + HDR - 1) \div HDR)

Disjoint(a, n, b, m) == Payload(a, n) \cap Payload(b, m) = {}

\* A block for n bytes at a clashes with no other block.
FitsAt(a, n, others) == \A b \in others : owned[b] > 0 => Disjoint(a, n, b, owned[b])

AInit == owned = [a \in Places |-> 0] /\ carried = 0

Acquire(a, n) ==
  /\ owned[a] = 0
  /\ FitsAt(a, n, Places)
  /\ owned' = [owned EXCEPT ![a] = n]
  /\ carried' = 0

Release(a) ==
  /\ owned[a] > 0
  /\ owned' = [owned EXCEPT ![a] = 0]
  /\ carried' = 0

Resize(a, b, n) ==
  /\ owned[a] > 0
  /\ b = a \/ (owned[b] = 0 /\ Disjoint(b, n, a, owned[a]))
  /\ FitsAt(b, n, Places \ {a})
  /\ owned' = [owned EXCEPT ![a] = 0, ![b] = n]
  /\ carried' = Least(owned[a], n)

ANext ==
  \/ \E a \in Places, n \in Amounts : Acquire(a, n)
  \/ \E a \in Places : Release(a)
  \/ \E a, b \in Places, n \in Amounts : Resize(a, b, n)

ASpec == AInit /\ [][ANext]_avars
=============================================================================
