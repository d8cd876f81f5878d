---------------------------- MODULE MCOptCuckoo ----------------------------
(* Instances of OptCuckoo for TLC: what the threads call.  A table of 16    *)
(* buckets hashes keys by their remainder: 1 to buckets 1 and 13, 13 to 13  *)
(* and 9, 9 to 9 and 5, 0 to bucket 0 twice.                                *)
EXTENDS OptCuckoo

Puts(keys) == [i \in DOMAIN keys |-> Put(keys[i], 1)]

Plan(load, calls) ==
    [t \in Threads |-> IF t = main THEN Puts(load)
                       ELSE IF t <= Len(calls) THEN calls[t] ELSE <<>>]

\* One thread: the buckets of 1 and 13 in every order, with and without those
\* of 9 full too; and a key too many for bucket 0.
Orders == {p \in [1 .. 6 -> {1, 17, 13, 29, 9, 25}] : p[1] = 1 /\ IsInjective(p)}
Loads  == {Plan(Append(p, 33), <<>>) : p \in Orders} \cup {Plan(<<0, 16, 32, 16>>, <<>>)}

\* Two workers on an empty table, on one with room in a bucket, and on tables
\* where room takes one move, and two for the second put.
Tables == {<<>>, <<1, 17>>, <<1, 17, 13, 29>>, <<1, 17, 13, 29, 9>>}

Ops   == {Put(33, 2), Put(49, 2), Put(13, 1), Put(13, 2), Put(45, 2), Get(13), Get(33)}
Pairs == {Plan(load, <<<<c>>, <<d>>>>) : load \in Tables, c, d \in Ops}

\* Two paths of two moves; longer histories; and three threads.
Long  == {Plan(<<1, 17, 13, 29, 9, 25>>, <<<<Put(33, 2)>>, <<Put(45, 2)>>>>),
          Plan(<<1, 17, 13, 29>>, <<<<Put(33, 2), Get(13)>>, <<Put(49, 2), Put(13, 2)>>>>)}
Three == {Plan(<<1, 17, 13, 29>>, <<<<Put(33, 2)>>, <<c>>, <<Get(13)>>>>) :
             c \in {Put(49, 2), Put(13, 2)}}

\* An update that comes to a slot after its node has been moved away.
Stray == {Plan(<<1, 17, 13, 29>>, <<<<Put(13, 2)>>, <<Put(33, 2), Get(33)>>>>),
          Plan(<<1, 17, 13, 29>>, <<<<Put(13, 2)>>, <<Put(33, 2)>>, <<Get(33)>>>>)}

SomePlans == Loads \cup Pairs \cup Long \cup Three \cup Stray
=============================================================================
