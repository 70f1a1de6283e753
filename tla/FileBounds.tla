----------------------------- MODULE FileBounds -----------------------------
\* The parameters of FileWrites and what they are assumed to be.
EXTENDS Naturals, Sequences, FiniteSets

CONSTANTS
  Calls,       \* tool calls of the turn
  Requests,    \* what a call may ask: [batch, op, items], items a sequence of paths
  MaxItems,    \* bound: the items of a batch
  Paths,
  Initial,     \* the files of the workspace at the start
  None,
  Torn,        \* content of a file whose creation failed half way
  Outside,     \* content written by a program outside the backend
  MaxFaults    \* bound on failed stores, failed file operations and timeouts

ASSUME FileAssumption ==
  /\ Initial \in [Paths -> {None, Outside}]
  /\ \A q \in Requests : q.batch \in BOOLEAN /\ q.op \in {"write", "edit"}
                         /\ q.items \in Seq(Paths) /\ Len(q.items) \in 1..MaxItems
                         /\ (~q.batch => Len(q.items) = 1)
  /\ None \notin Requests \cup Calls
  /\ Cardinality({None, Torn, Outside}) = 3
  /\ MaxItems \in Nat /\ MaxFaults \in Nat
=============================================================================
