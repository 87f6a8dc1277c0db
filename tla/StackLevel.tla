----------------------------- MODULE StackLevel -----------------------------
(***************************************************************************)
(* One level of the decoder's multi-stack                                  *)
(* (inc/server/decoder/stack/stack_level.hpp): the doubly linked list of   *)
(* the states that cover the same number of source words, best total score *)
(* first, and the score below which a state is not worth keeping.  A level *)
(* is a value, [states |-> a sequence of states, bound |-> a score].       *)
(***************************************************************************)
EXTENDS Integers, Sequences, SequencesExt

EmptyLevel == [states |-> <<>>, bound |-> 0]

\* Mutant: states with different last target words are recombined.
SameSubproblemNoHistory(s, t) ==
  s.end = t.end /\ s.covered = t.covered /\ s.from = t.from

\* stack_state::operator==: the two are taken to solve the same sub-problem.
SameSubproblem(s, t) ==
  /\ s.end = t.end
  /\ s.history = t.history
  /\ s.covered = t.covered
  /\ s.from = t.from

\* The number of leading states that are better than s: where the walk of
\* find_pos_recombine ends.
NumBetter(states, s) ==
  CHOOSE p \in 0..Len(states) :
    /\ \A i \in 1..p : states[i].total > s.total
    /\ p < Len(states) => states[p + 1].total <= s.total

\* remember_best_score, for the level's first state.
BoundOf(best, params) == best.total + params.threshold

\* Mutant: a level of exactly the capacity is cut as well.
PruneStatesEarly(states, bound, capacity) ==
  LET fits == {k \in 0..Len(states) :
                 k < capacity /\ (k > 0 => states[k].total >= bound)}
  IN SubSeq(states, 1, CHOOSE k \in fits : \A j \in fits : j <= k)

\* prune_states: the last state goes while there are too many or it is below
\* the bound.
PruneStates(states, bound, capacity) ==
  LET fits == {k \in 0..Len(states) :
                 k <= capacity /\ (k > 0 => states[k].total >= bound)}
  IN SubSeq(states, 1, CHOOSE k \in fits : \A j \in fits : j <= k)

\* The list without the first state from position p on that is the same
\* sub-problem as s: it has been recombined into s.
RecombineFrom(states, p, s) ==
  LET same == {i \in p..Len(states) : SameSubproblem(states[i], s)}
  IN IF same = {} THEN states
     ELSE RemoveAt(states, CHOOSE i \in same : \A j \in same : i <= j)

\* add_before: the state is inserted after p better ones, a worse state of the
\* same sub-problem is recombined into it, and the level is pruned.
AddBefore(level, p, s, params) ==
  LET bound == IF p = 0 THEN BoundOf(s, params) ELSE level.bound
      inserted == InsertAt(level.states, p + 1, s)
  IN [states |-> PruneStates(RecombineFrom(inserted, p + 2, s), bound, params.capacity),
      bound |-> bound]

\* add_last: all others are better; without space the state is dropped.
AddLast(level, s, params) ==
  IF Len(level.states) < params.capacity
  THEN [level EXCEPT !.states = Append(@, s)] ELSE level

AddState(level, s, params) ==
  LET p == NumBetter(level.states, s)
  IN CASE level.states = <<>> -> [states |-> <<s>>, bound |-> BoundOf(s, params)]
       [] level.states # <<>> /\ s.total < level.bound -> level
       [] level.states # <<>> /\ s.total >= level.bound ->
            IF \E i \in 1..p : SameSubproblem(level.states[i], s) THEN level
            ELSE IF p < Len(level.states) THEN AddBefore(level, p, s, params)
            ELSE AddLast(level, s, params)
=============================================================================
