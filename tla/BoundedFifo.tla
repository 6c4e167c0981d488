---------------------------- MODULE BoundedFifo ----------------------------
(***************************************************************************)
(* What a bounded, closable, non-blocking queue promises its clients.      *)
(*                                                                         *)
(* Calls overlap, so each has a beginning, one moment at which it takes    *)
(* effect, and an end:                                                     *)
(*   push   Ask, then Put or Refuse, then perhaps Settle;                  *)
(*   pop    Want, then Get or GoWithout, then Return.                      *)
(* The promise: values come out in the order in which the pushes took      *)
(* effect, each one once; a call to push that begins after close fails,    *)
(* unless the news is "late" (for queues that may read an old value of     *)
(* their flag); and, unless "spurious" (for queues that rely on old        *)
(* values, or whose payloads throw), a push fails only when the queue is   *)
(* full or a pop is under way, a pop only when it is empty or a push is    *)
(* under way.                                                              *)
(*                                                                         *)
(* A "lossy" queue survives less when a payload throws.  A push that ends  *)
(* so leaves a hole in the place of its value (Spoil), and what is behind  *)
(* the hole stays there; after a pop that ends so (Lose) pushes may be     *)
(* refused for ever.                                                       *)
(***************************************************************************)
EXTENDS Naturals, Sequences

CONSTANTS Producers, Consumers, Values,
          None,       \* not a value
          Capacity

VARIABLES items,     \* the content, oldest first; None for a hole
          closed,
          asked,     \* asked[p]: the value p is trying to push
          settling,  \* settling[p]: the value p has put and not returned from
          wanting,   \* consumers trying to pop
          got,       \* got[c]: the value c has popped and not returned
          lost,      \* has a pop thrown away its place?
          late,      \* may a push not have heard of close?
          spurious,  \* may calls fail for no reason?
          lossy      \* may calls throw, and spoil what they were at?

config == <<late, spurious, lossy>>
vars == <<items, closed, asked, settling, wanting, got, lost, config>>

Init ==
  /\ items = <<>>
  /\ closed = FALSE
  /\ asked = [p \in Producers |-> None]
  /\ settling = [p \in Producers |-> None]
  /\ wanting = {}
  /\ got = [c \in Consumers |-> None]
  /\ lost = FALSE
  /\ late \in BOOLEAN /\ spurious \in BOOLEAN /\ lossy \in BOOLEAN

Ask(p, v) ==
  /\ ~closed \/ late
  /\ asked[p] = None /\ settling[p] = None
  /\ asked' = [asked EXCEPT ![p] = v]
  /\ UNCHANGED <<config, lost, items, closed, settling, wanting, got>>

\* p may return at once or still have work to do.
Put(p) ==
  /\ asked[p] # None
  /\ Len(items) < Capacity
  /\ items' = Append(items, asked[p])
  /\ asked' = [asked EXCEPT ![p] = None]
  /\ settling' \in {settling, [settling EXCEPT ![p] = asked[p]]}
  /\ UNCHANGED <<config, lost, closed, wanting, got>>

Refuse(p) ==
  /\ asked[p] # None
  /\ \/ Len(items) = Capacity
     \/ \E c \in Consumers : got[c] # None
     \/ lost \/ spurious
  /\ asked' = [asked EXCEPT ![p] = None]
  /\ UNCHANGED <<config, lost, items, closed, settling, wanting, got>>

Settle(p) ==
  /\ settling[p] # None
  /\ settling' = [settling EXCEPT ![p] = None]
  /\ UNCHANGED <<config, lost, items, closed, asked, wanting, got>>

\* The value that p has put, and that nobody has got yet, is gone.
Spoil(p) ==
  /\ lossy
  /\ settling[p] # None
  /\ \E i \in DOMAIN items :
       /\ items[i] = settling[p]
       /\ items' = [items EXCEPT ![i] = None]
  /\ settling' = [settling EXCEPT ![p] = None]
  /\ UNCHANGED <<config, lost, closed, asked, wanting, got>>

Want(c) ==
  /\ got[c] = None
  /\ wanting' = wanting \cup {c}
  /\ UNCHANGED <<config, lost, items, closed, asked, settling, got>>

Get(c) ==
  /\ c \in wanting
  /\ items # <<>> /\ Head(items) # None
  /\ got' = [got EXCEPT ![c] = Head(items)]
  /\ items' = Tail(items)
  /\ wanting' = wanting \ {c}
  /\ UNCHANGED <<config, lost, closed, asked, settling>>

GoWithout(c) ==
  /\ c \in wanting
  /\ \/ items = <<>> \/ Head(items) = None
     \/ \E p \in Producers : settling[p] # None
     \/ spurious
  /\ wanting' = wanting \ {c}
  /\ UNCHANGED <<config, lost, items, closed, asked, settling, got>>

Return(c) ==
  /\ got[c] # None
  /\ got' = [got EXCEPT ![c] = None]
  /\ UNCHANGED <<config, lost, items, closed, asked, settling, wanting>>

\* The value that c has got stays behind.
Lose(c) ==
  /\ lossy
  /\ got[c] # None
  /\ got' = [got EXCEPT ![c] = None]
  /\ lost' = TRUE
  /\ UNCHANGED <<config, items, closed, asked, settling, wanting>>

Close ==
  /\ closed' = TRUE
  /\ UNCHANGED <<config, lost, items, asked, settling, wanting, got>>

\* The queue is destroyed between calls, with what is left in it.
Destroy ==
  /\ asked = [p \in Producers |-> None] /\ settling = [p \in Producers |-> None]
  /\ wanting = {} /\ got = [c \in Consumers |-> None]
  /\ items' = <<>>
  /\ closed' = TRUE
  /\ UNCHANGED <<config, lost, asked, settling, wanting, got>>

Next ==
  \/ \E p \in Producers : \/ \E v \in Values : Ask(p, v)
                          \/ Put(p) \/ Refuse(p) \/ Settle(p) \/ Spoil(p)
  \/ \E c \in Consumers : Want(c) \/ Get(c) \/ GoWithout(c) \/ Return(c) \/ Lose(c)
  \/ Close \/ Destroy

Spec == Init /\ [][Next]_vars
=============================================================================
