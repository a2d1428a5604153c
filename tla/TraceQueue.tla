----------------------------- MODULE TraceQueue -----------------------------
(***************************************************************************)
(* What the ring promises its users, without positions, words or headers:  *)
(* a queue of claims in claim order.  A claim is open until its writer     *)
(* settles it: ready when the record is complete, void when there is       *)
(* nothing to deliver (padding, or the writer died).  The reader only ever *)
(* takes the oldest claim: it hands out a ready one and discards a void    *)
(* one, so records come out complete, once and in claim order.  An open    *)
(* claim blocks the queue.  Once the reader has lost the record boundaries *)
(* nothing is promised any more.                                           *)
(***************************************************************************)
EXTENDS Naturals, Sequences

VARIABLES
  queue,    \* claims not yet consumed, oldest first: [id, state]
  next,     \* number of claims so far
  out,      \* ids handed out
  intact    \* the reader still knows the record boundaries

qvars == <<queue, next, out, intact>>

Init ==
  /\ queue = << >>
  /\ next = 0
  /\ out = << >>
  /\ intact \in BOOLEAN

Claim ==
  /\ intact
  /\ next' = next + 1
  /\ queue' = Append(queue, [id |-> next + 1, state |-> "open"])
  /\ UNCHANGED <<out, intact>>

Settle(i, state) ==
  /\ intact
  /\ queue[i].state = "open"
  /\ queue' = [queue EXCEPT ![i].state = state]
  /\ UNCHANGED <<next, out, intact>>

Deliver ==
  /\ intact
  /\ queue # << >>
  /\ Head(queue).state = "ready"
  /\ out' = Append(out, Head(queue).id)
  /\ queue' = Tail(queue)
  /\ UNCHANGED <<next, intact>>

Discard ==
  /\ intact
  /\ queue # << >>
  /\ Head(queue).state = "void"
  /\ queue' = Tail(queue)
  /\ UNCHANGED <<next, out, intact>>

Break ==
  /\ intact
  /\ intact' = FALSE
  /\ queue' = << >>
  /\ next' = 0
  /\ out' = << >>

Next ==
  \/ Claim
  \/ \E i \in DOMAIN queue, state \in {"ready", "void"} : Settle(i, state)
  \/ Deliver
  \/ Discard
  \/ Break

Spec == Init /\ [][Next]_qvars

=============================================================================
