----------------------------- MODULE MCMasstree -----------------------------
(* Instances of Masstree for TLC: what the threads call.                    *)
EXTENDS Masstree

Inserts(keys) == [i \in DOMAIN keys |-> <<"insert", keys[i]>>]

\* An empty tree; a root border node that is full; two border nodes below a
\* root; three, below a root that is full.
Trees == {<<>>, <<1, 3>>, <<1, 3, 5>>, <<1, 3, 4, 5, 2>>}

Plan(tree, calls) ==
    [t \in Threads |-> IF t = main THEN Inserts(tree)
                       ELSE IF t <= Len(calls) THEN <<calls[t]>> ELSE <<>>]

\* Every call of one worker against every call of another, on every tree.
\* Which worker makes which of the two calls does not matter.
InOrder(c, d) == IF c[1] = d[1] THEN c[2] <= d[2] ELSE c[1] = "insert"

Pairs == {Plan(tree, calls) : tree \in Trees,
                              calls \in {c \in Calls \X Calls : InOrder(c[1], c[2])}}

\* Two full border nodes: a get in the left one while its version changes and
\* the right one is split.
Neighbours == Plan(<<1, 2, 4, 5>>, <<<<"get", 2>>, <<"insert", 1>>, <<"insert", 6>>>>)

\* Two inserts of one key into a full root, and a get of the key they move.
Twins == Plan(<<1, 3>>, <<<<"insert", 2>>, <<"insert", 2>>, <<"get", 3>>>>)

\* Two inserts into a full root, the second of a key that the first one's split
\* moves the place of, and a get of that key.
Moved == Plan(<<1, 3>>, <<<<"insert", 2>>, <<"insert", 5>>, <<"get", 5>>>>)

SomePlans == Pairs \cup {Neighbours, Twins, Moved}
=============================================================================
