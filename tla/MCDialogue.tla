----------------------------- MODULE MCDialogue -----------------------------
EXTENDS Dialogue

CONSTANTS x, c, d, w

Note(g, u) ==
    [group |-> g, user |-> u, free |-> FALSE, stop |-> FALSE, words |-> 1, direct |-> u, sparsity |-> 0]

MCElement == {x, c, d, w}
MCInfo == (x :> Note("x", TRUE)) @@ (c :> Note("nlpcraft:geo", FALSE)) @@ (d :> Note("nlpcraft:date", FALSE))
          @@ (w :> [Note("nlpcraft:nlp", FALSE) EXCEPT !.free = TRUE])

MCSentence == {<<<<x, c>>>>, <<<<d, c>>, <<d, w>>>>}

Item(els, min, max) == [accepts |-> [e \in els |-> 1], min |-> min, max |-> max]
MCIntent ==
    {[id |-> "there", conv |-> TRUE, ordered |-> FALSE,
      terms |-> <<<<Item({x}, 1, 1)>>, <<Item({c, d}, 1, 2)>>>>],
     [id |-> "when", conv |-> TRUE, ordered |-> TRUE,
      terms |-> <<<<Item({d}, 1, 1)>>, <<Item({x, c}, 0, 1)>>>>]}
MCFilters == {{"nlpcraft:geo"}}
MCWatched == {c}
MCSkipping == {}
==============================================================================
