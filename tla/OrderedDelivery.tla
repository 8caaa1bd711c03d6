--------------------------- MODULE OrderedDelivery ---------------------------
(***************************************************************************)
(* What an account's engine promises about LINE's operation log: every     *)
(* operation takes effect locally, in the order of the log, at least once, *)
(* and the durable cursor never runs ahead of the effects nor backwards.   *)
(***************************************************************************)
EXTENDS Naturals

VARIABLES
  log,     \* number of operations LINE has logged
  done,    \* operations that have taken effect
  cursor   \* the position the client resumes from

Init ==
  /\ log \in Nat
  /\ \E n \in 0 .. log : done = 1 .. n
  /\ cursor \in 0 .. log
  /\ 1 .. cursor \subseteq done

Log ==
  /\ log' = log + 1
  /\ UNCHANGED <<done, cursor>>

\* Operations take effect as a longer prefix of the log.
Perform ==
  /\ \E n \in 1 .. log : done \subseteq 1 .. n /\ done' = 1 .. n
  /\ UNCHANGED <<log, cursor>>

Commit ==
  /\ \E n \in cursor + 1 .. log : 1 .. n \subseteq done /\ cursor' = n
  /\ UNCHANGED <<log, done>>

Next == Log \/ Perform \/ Commit

Spec == Init /\ [][Next]_<<log, done, cursor>>

=============================================================================
