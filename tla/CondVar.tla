------------------------------ MODULE CondVar ------------------------------
(***************************************************************************)
(* std::condition_variable, as the queues of this library use it.          *)
(*                                                                         *)
(* A condition variable is represented by its wait set: the threads that   *)
(* have released the mutex inside wait() and have not been woken.  A woken *)
(* thread is no longer in the set but still has to reacquire the mutex     *)
(* before wait() returns, so "woken" and "running again" are different     *)
(* moments.  A notification is not remembered: when nobody is in the wait  *)
(* set it has no effect.                                                   *)
(***************************************************************************)

\* The wait sets notify_one() may leave behind: any one member is woken.
NotifyOne(waitset) ==
  IF waitset = {} THEN {waitset} ELSE {waitset \ {t} : t \in waitset}

\* The wait set notify_all() leaves behind.
NotifyAll(waitset) == {}
=============================================================================
