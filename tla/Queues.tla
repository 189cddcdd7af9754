------------------------------- MODULE Queues -------------------------------
(***************************************************************************)
(* Queues of messages and of operations: what a queue holds, in which      *)
(* order and how often.                                                    *)
(***************************************************************************)
EXTENDS Integers, Sequences

\* A message of S is in the queue.
Has(q, S) == \E i \in 1..Len(q) : q[i] \in S

\* Every message of T is behind one of S.
Led(q, S, T) == \A i \in 1..Len(q) : q[i] \in T => \E j \in 1..(i - 1) : q[j] \in S

\* There is at most one message of S.
Alone(q, S) == \A i, j \in 1..Len(q) : q[i] \in S /\ q[j] \in S => i = j

\* r is q, or q with a message of N put behind it or taken from its front.
Slight(q, r, N) == \/ r = q
                   \/ \E m \in N : r = Append(q, m)
                   \/ q # <<>> /\ Head(q) \in N /\ r = Tail(q)

\* h counts the messages of S among the first l of a queue, from the last one on.
One(m, S) == IF m \in S THEN 1 ELSE 0
Counts(h, q, S, l) == /\ h \in [1..(l + 1) -> Nat]
                      /\ \A i \in 1..l : h[i] = h[i + 1] + One(q[i], S)

\* At most n messages of S are in the queue.
AtMost(q, S, n) == \E h : Counts(h, q, S, Len(q)) /\ h[1] = n

(* The queues a description and the candidates behind it pass through: X,  *)
(* the messages to a page, and O, the operations of its connection.  S and *)
(* A are the operations that set the description and add the candidates of *)
(* d, M and C the messages that bring them.                                *)

Heard(remote, d, O, S, A, X, M, C) ==
  \/ remote = d
  \/ Has(O, S) /\ Led(O, S, A)
  \/ Has(X, M) /\ Led(X, M, C) /\ ~ Has(O, A)
=============================================================================
