------------------------------ MODULE MCRunner ------------------------------
(* An instance of Runner with two resources, 1 and 2. *)
EXTENDS Runner

Rank(k) == CASE cloud[k].st = "gone" -> 0
             [] cloud[k].st = "down" -> 1
             [] OTHER                -> 1 + cloud[k].size

\* The resources are interchangeable. Of databases, two that are up are the case
\* for awaitCompletion, the others the case without it.
MCInit ==
  /\ Init
  /\ Rank(1) >= Rank(2)
  /\ kind = "rds" => (await <=> Up(1) /\ Up(2))

MCSpec == MCInit /\ [][Next]_vars /\ WF_vars(RunnerNext)

=============================================================================
