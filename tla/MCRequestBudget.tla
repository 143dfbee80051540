----------------------------- MODULE MCRequestBudget -----------------------------
(***************************************************************************)
(* A small instance of RequestBudget: two requests in a window of three    *)
(* ticks, in four circumstances.                                           *)
(***************************************************************************)
EXTENDS RequestBudget, TLC

CONSTANTS app, cli

BothProcs == {app, cli}
Symmetry  == Permutations(BothProcs)

\* One process after the other, and nothing fails but the processes and the
\* service; the
\* application and a command at once, which may be killed while they write; a
\* disk that refuses; a service that refuses for no time, for less than a
\* window, for the window a missing Retry-After stands for, and for more.
Calm     == [overlap |-> FALSE, spans |-> {0, 3}, tears |-> FALSE, fails |-> {}]
Together == [overlap |-> TRUE, spans |-> {}, tears |-> TRUE, fails |-> {}]
Faulty   == [overlap |-> FALSE, spans |-> {2}, tears |-> TRUE, fails |-> {"read", "write"}]
Refusing == [overlap |-> FALSE, spans |-> {0, 2, 3, 4}, tears |-> TRUE, fails |-> {"write"}]
MCWorlds == {Calm, Together, Faulty, Refusing}
==================================================================================
