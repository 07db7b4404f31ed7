------------------------------ MODULE TaskQueue ------------------------------
(***************************************************************************)
(* What an EventLoop promises about the callbacks handed to it, with the   *)
(* threads, the lock, the two vectors and the wakeup descriptor left out.  *)
(* Callbacks are numbered in the order in which they are handed in.  One   *)
(* that is queued runs once, after everything queued before it; one that   *)
(* the loop thread passes to RunInLoop() runs on the spot.                 *)
(***************************************************************************)
EXTENDS Naturals, Sequences

VARIABLES queue,    \* callbacks waiting, oldest first
          ran,      \* callbacks that have been started, in that order
          issued    \* how many callbacks have been handed in

vars == <<queue, ran, issued>>

Init == queue = <<>> /\ ran = <<>> /\ issued = 0

Enqueue ==
  /\ issued' = issued + 1
  /\ queue' = Append(queue, issued + 1)
  /\ UNCHANGED ran

RunNow ==
  /\ issued' = issued + 1
  /\ ran' = Append(ran, issued + 1)
  /\ UNCHANGED queue

RunNext ==
  /\ queue # <<>>
  /\ ran' = Append(ran, Head(queue))
  /\ queue' = Tail(queue)
  /\ UNCHANGED issued

Next == Enqueue \/ RunNow \/ RunNext

Spec == Init /\ [][Next]_vars
==============================================================================
