----------------------------- MODULE MCMigrate ------------------------------
(* Migrate on small instances. *)
EXTENDS Migrate, TLC

CONSTANT MaxCrashes   \* bound: interrupted runs in the recovery runs

Sql(kinds) == [ts |-> FALSE, statements |-> kinds]
Ts(kinds) == [ts |-> TRUE, statements |-> kinds]

\* A first migration, a table recreation, a TypeScript migration, a data
\* migration and a later change.
MixedFiles ==
  << Sql(<<"create", "create">>), Sql(<<"create", "once", "once">>),
     Ts(<<"repeat", "create">>), Sql(<<"repeat", "create">>), Sql(<<"create">>) >>

\* What drizzle-kit generates for new tables, columns and indexes, one data
\* migration that may be repeated, and a file whose second statement is
\* incompatible.
RepeatableFiles ==
  << Sql(<<"create", "create">>), Sql(<<"create", "repeat", "create">>),
     Sql(<<"repeat", "bad", "create">>) >>

\* One run after the other until one is complete, MaxCrashes of them interrupted.
Crashes == {r \in Runs : pc[r] = "failed"}
RetryNext ==
  \E r \in Runs :
    /\ \A q \in Runs : q < r => pc[q] = "failed"
    /\ Start(r) \/ Step(r) \/ (r <= MaxCrashes /\ Crash(r))
RetrySpec == Init /\ [][RetryNext]_vars /\ WF_vars(RetryNext)

\* Wherever the earlier runs were interrupted, retrying repeatable statements
\* completes all files before the first incompatible one: nothing is stuck on
\* its own half-done work.
Accepted(f) == \A s \in Steps : s[1] <= f => Kind(s) # "bad"
RetryCompletes == <>(recorded = {f \in Names : Accepted(f)})
=============================================================================
