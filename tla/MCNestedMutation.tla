-------------------------- MODULE MCNestedMutation --------------------------
(* Venues with a key of one column, or of two, their concerts, and mutations *)
(* that match none, some or all of the venues.                               *)
EXTENDS NestedMutation, TLC

Swap == Permutations(Clients)

Venue(val) == [val |-> val, up |-> <<>>]
Concert(val, pk) == [val |-> val, up |-> <<"venues", pk>>]

Row(table, pk, val, up) == [table |-> table, pk |-> pk, val |-> val, up |-> up]
Create(n, val, artists) ==
    [prechecks |-> n,
     rows |-> <<Row("concerts", <<>>, val, 0)>> \o [i \in 1 .. artists |-> Row("artists", <<>>, "star", 1)]]
Update(n, where, set, concerts) ==
    [kind |-> "update", prechecks |-> n, where |-> where, set |-> set, concerts |-> concerts]
Concerts(create, update, delete) == <<[create |-> create, update |-> update, delete |-> delete]>>

MCRequests(pk) ==
    {[kind |-> "create", prechecks |-> 1,
      rows |-> <<Row("venues", pk, "a", 0), Row("concerts", <<>>, "new", 1),
                 Row("artists", <<>>, "star", 2), Row("concerts", <<>>, "newer", 1)>>],
     [kind |-> "delete", prechecks |-> 0, where |-> {"a"}],
     Update(1, {"a"}, "b", <<>>),
     Update(0, {"a"}, Unset, Concerts(<<Create(1, "new", 1), Create(0, "new", 1)>>, <<>>, <<>>)),
     Update(1, {"a", "b"}, "c",
            Concerts(<<Create(0, "new", 0)>>, <<[id |-> <<1>>, val |-> "older"]>>, <<<<2>>>>)),
     Update(0, {"a", "b"}, "b",
            Concerts(<<Create(0, "new", 2)>>,
                     <<[id |-> <<2>>, val |-> "old"], [id |-> <<1>>, val |-> "older"]>>, <<>>)),
     Update(0, {"b"}, Unset, Concerts(<<>>, <<[id |-> <<1>>, val |-> "old"]>>, <<<<1>>, <<2>>>>))}

(* One user who may do nearly everything, one who may not read all venues,   *)
(* touch all concerts or delete any.                                         *)
MCUsers ==
    {[read |-> {"a", "b", "c"}, venues |-> {"a", "b", "c"}, update |-> {"old", "older"},
      delete |-> {"old", "older"}, allow |-> {"a", "b"}],
     [read |-> {"b"}, venues |-> {"a", "b"}, update |-> {"old"}, delete |-> {},
      allow |-> {"a", "b", "c"}]}

(* The last one takes a key that only a deletion makes free.                 *)
SingleRequests ==
    MCRequests(<<4>>)
    \cup {[kind |-> "create", prechecks |-> 0,
           rows |-> <<Row("venues", <<1>>, "b", 0), Row("concerts", <<>>, "new", 1)>>]}
SingleDatabases ==
    {(<<"venues", <<1>>>> :> Venue("a")) @@ (<<"venues", <<2>>>> :> Venue("b"))
       @@ (<<"venues", <<3>>>> :> Venue("c"))
       @@ (<<"concerts", <<1>>>> :> Concert("old", <<v>>))
       @@ (<<"concerts", <<2>>>> :> Concert("older", <<w>>)) : v \in {1, 2}, w \in {2, 3}}

PairRequests == MCRequests(<<3, 3>>)
PairDatabases ==
    {(<<"venues", <<1, 2>>>> :> Venue("a")) @@ (<<"venues", <<2, 1>>>> :> Venue("a"))
       @@ (<<"venues", <<1, 1>>>> :> Venue("b"))
       @@ (<<"concerts", <<1>>>> :> Concert("old", <<1, 1>>))
       @@ (<<"concerts", <<2>>>> :> Concert("older", <<1, 2>>))}
=============================================================================
