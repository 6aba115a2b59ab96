----------------------------- MODULE MCStartup -----------------------------
(* Instances of Startup for TLC. *)
EXTENDS Startup

CONSTANTS a, b,     \* account codes
          k1, k2    \* categories

Account(code, cat) == [code |-> code, category |-> cat]

File(open, idle, accounts, categories) ==
    [open |-> open, idle |-> idle, accounts |-> accounts, categories |-> categories]

\* Written configurations: one account under the defaults; the category moved
\* to another account; two accounts and a pool of one connection; the same
\* with the idle limit left to its default, too large for the pool; two
\* accounts of one category.
MCFiles ==
    {File(0, 0, {Account(a, k1)}, {k1}),
     File(2, 1, {Account(b, k1)}, {k1, k2}),
     File(1, 1, {Account(a, k1), Account(b, k2)}, {k1, k2}),
     File(1, 0, {Account(a, k1)}, {k1}),
     File(2, 0, {Account(a, k1), Account(b, k1)}, {k1})}

\* A new database, and ones where both accounts have served, the same category
\* at different times or one each.
MCTables ==
    {[c \in {a, b} |-> NULL],
     [c \in {a, b} |-> k1],
     [c \in {a, b} |-> IF c = a THEN k1 ELSE k2]}
=============================================================================
