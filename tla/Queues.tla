------------------------------- MODULE Queues -------------------------------
(***************************************************************************)
(* What the admission modules do with their lists of waiters, oldest first. *)
(***************************************************************************)
EXTENDS Naturals, Sequences

\* The members of q.
Members(q) == {q[i] : i \in DOMAIN q}

\* No member is in q twice.
Distinct(q) == \A i, j \in DOMAIN q : q[i] = q[j] => i = j

\* Who is in q before t.
Before(q, t) ==
  LET k == CHOOSE k \in DOMAIN q : q[k] = t
  IN  {q[i] : i \in 1..(k - 1)}

\* q after list.remove(t), if t is in it.
Without(q, t) ==
  IF t \in Members(q)
  THEN LET k == CHOOSE k \in DOMAIN q : q[k] = t
       IN  SubSeq(q, 1, k - 1) \o SubSeq(q, k + 1, Len(q))
  ELSE q
=============================================================================
