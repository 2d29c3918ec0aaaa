------------------------------ MODULE MCTwoWay ------------------------------
(* The pair's rules on four columns, and four more sets of them.            *)
EXTENDS TwoWay

Rule(name, by) == [name |-> name, by |-> by]
Settled(cols, name, by) == [cols |-> cols, name |-> name, by |-> by]

InOrder ==
  [groups |-> {Settled(<<"v", "ts">>, "newest", "ts"),
               Settled(<<"n">>, "delta", "n"), Settled(<<"hi">>, "max", "hi")},
   cols |-> {"v", "ts", "n", "hi"}, fallback |-> Rule("newest", "ts"),
   gone |-> "update", higher |-> NoOne, ordered |-> TRUE,
   starts |-> {[v |-> 0, ts |-> 0, n |-> 0, hi |-> 0]},
   rows |-> {}]

OverAndTime ==
  [groups |-> {Settled(<<"v">>, "overwrite", "v"), Settled(<<"w", "ts">>, "newest", "ts"),
               Settled(<<"n">>, "delta", "n")},
   cols |-> {"v", "w", "ts", "n"}, fallback |-> Rule("newest", "ts"),
   gone |-> "update", higher |-> NoOne, ordered |-> FALSE,
   starts |-> {NoRow, [v |-> 0, w |-> 0, ts |-> 0, n |-> 0]},
   rows |-> [v: 0..2, w: 0..1, ts: 0..2, n: 0..1]]

RankAndSet ==
  [groups |-> {Settled(<<"v">>, "source_priority", "v"), Settled(<<"tags">>, "union", "tags"),
               Settled(<<"lo">>, "min", "lo")},
   cols |-> {"v", "tags", "lo"}, fallback |-> Rule("overwrite", "v"),
   gone |-> "source_priority", higher |-> Home, ordered |-> FALSE,
   starts |-> {NoRow, [v |-> 0, tags |-> {1}, lo |-> 1]},
   rows |-> [v: 0..2, tags: SUBSET (1..2), lo: 0..2]]

RowsOverwritten ==
  [groups |-> {Settled(<<"v", "ts">>, "max", "ts"), Settled(<<"n">>, "delta", "n")},
   cols |-> {"v", "ts", "n"}, fallback |-> Rule("ignore", "n"),
   gone |-> "overwrite", higher |-> NoOne, ordered |-> FALSE,
   starts |-> {NoRow, [v |-> 0, ts |-> 0, n |-> 0]},
   rows |-> [v: 0..2, ts: 0..1, n: 0..1]]

TimeApart ==
  [groups |-> {Settled(<<"v">>, "newest", "ts"), Settled(<<"ts">>, "overwrite", "ts")},
   cols |-> {"v", "ts"}, fallback |-> Rule("newest", "ts"),
   gone |-> "delete", higher |-> NoOne, ordered |-> FALSE,
   starts |-> {NoRow, [v |-> 0, ts |-> 1]},
   rows |-> [v: 0..2, ts: 0..2]]

Books == {InOrder, OverAndTime, RankAndSet, RowsOverwritten, TimeApart}
TextsWritten == 1..2
AmountsAdded == {1, -1}
OrderBook == {InOrder}
=============================================================================
