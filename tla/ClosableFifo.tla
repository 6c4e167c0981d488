--------------------------- MODULE ClosableFifo ----------------------------
(***************************************************************************)
(* What a blocking, closable queue promises its clients, without mutex,    *)
(* condition variable or notification.                                     *)
(*                                                                         *)
(* A consumer that finds the queue empty and open becomes a member of      *)
(* "waiting", a producer that finds it full a member of "blocked".  The    *)
(* promise of interest is Progress: while there are items and somebody is  *)
(* waiting, somebody who waits is served; while there is room and somebody *)
(* is blocked, somebody blocked gets through; after close all of them are  *)
(* dismissed.  A faulty payload may throw out of a call, without effect on *)
(* the content; Progress is then not promised.                             *)
(***************************************************************************)
EXTENDS Naturals, Sequences

CONSTANTS Producers,  \* threads that push
          Consumers,  \* threads that call the blocking pop
          Values,     \* payloads
          MaxLen      \* capacity (for the unbounded queues, a bound of the model)

VARIABLES items,      \* the content, oldest first
          closed,     \* close() has taken effect
          waiting,    \* consumers inside a blocking pop
          blocked,    \* producers inside a blocking push
          faulty      \* may constructing or moving a payload throw?

vars == <<items, closed, waiting, blocked, faulty>>

Init ==
  /\ items = <<>>
  /\ closed = FALSE
  /\ waiting = {}
  /\ blocked = {}
  /\ faulty \in BOOLEAN

\* p's value enters; p was blocked, or just arrived.
Push(p, v) ==
  /\ ~closed
  /\ Len(items) < MaxLen
  /\ items' = Append(items, v)
  /\ blocked' = blocked \ {p}
  /\ UNCHANGED <<faulty, closed, waiting>>

Block(p) ==
  /\ ~closed
  /\ Len(items) = MaxLen
  /\ blocked' = blocked \cup {p}
  /\ UNCHANGED <<faulty, items, closed, waiting>>

\* The push of p returns false.
Reject(p) ==
  /\ p \in blocked
  /\ closed
  /\ blocked' = blocked \ {p}
  /\ UNCHANGED <<faulty, items, closed, waiting>>

\* A blocking pop that finds nothing starts to wait.
Arrive(c) ==
  /\ items = <<>>
  /\ ~closed
  /\ waiting' = waiting \cup {c}
  /\ UNCHANGED <<faulty, items, closed, blocked>>

\* The oldest item goes to c, who waited for it, just arrived, or polled.
Take(c) ==
  /\ items # <<>>
  /\ items' = Tail(items)
  /\ waiting' = waiting \ {c}
  /\ UNCHANGED <<faulty, closed, blocked>>

\* The blocking pop of c returns false: closed, and nothing left to deliver.
Dismiss(c) ==
  /\ c \in waiting
  /\ closed
  /\ items = <<>>
  /\ waiting' = waiting \ {c}
  /\ UNCHANGED <<faulty, items, closed, blocked>>

\* The call of c, or of p, ends with an exception.
Throw(t) ==
  /\ faulty
  /\ t \in waiting \cup blocked
  /\ waiting' = waiting \ {t}
  /\ blocked' = blocked \ {t}
  /\ UNCHANGED <<faulty, items, closed>>

Close ==
  /\ closed' = TRUE
  /\ UNCHANGED <<faulty, items, waiting, blocked>>

ServeWaiting == \E c \in waiting : Take(c)
ServeBlocked == \E p \in blocked, v \in Values : Push(p, v)

Next ==
  \/ \E p \in Producers : \/ \E v \in Values : Push(p, v)
                          \/ Block(p) \/ Reject(p)
  \/ \E c \in Consumers : Arrive(c) \/ Take(c) \/ Dismiss(c)
  \/ \E t \in waiting \cup blocked : Throw(t)
  \/ Close

SafeSpec == Init /\ [][Next]_vars

Progress ==
  /\ WF_vars(ServeWaiting)
  /\ WF_vars(ServeBlocked)
  /\ \A c \in Consumers : WF_vars(Dismiss(c))
  /\ \A p \in Producers : WF_vars(Reject(p))

Spec == SafeSpec /\ Progress
=============================================================================
