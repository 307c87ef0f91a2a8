------------------------------- MODULE Tokens -------------------------------
(***************************************************************************)
(* Tokens as conversations and the intent solver see them (NCTokenImpl and *)
(* NCSentenceImpl).  A token belongs to one request and is one object: two *)
(* tokens are equal only if they are the same word of the same parsing     *)
(* variant.  What a word means is a constant of the module.                *)
(***************************************************************************)
EXTENDS Integers, Sequences, SequencesExt

CONSTANTS
    Element,    \* model elements and built-in notes
    Info        \* what the code asks of a token of each element

InfoType ==
    [group : STRING, user : BOOLEAN, free : BOOLEAN, stop : BOOLEAN,
     words : Nat \ {0}, direct : BOOLEAN, sparsity : Nat]

\* A stop word is not free and neither is a user token.
TokenAssumption ==
    /\ Info \in [Element -> InfoType]
    /\ \A e \in Element : Info[e].free => (~Info[e].stop /\ ~Info[e].user)

ASSUME TokenAssumption

\* The elements of seq at the positions in K.  The library's SelectSeq takes an
\* operator: nothing can be proved of what it returns.
Keep(seq, K) ==
    LET first[n \in 0 .. Len(seq)] ==
            IF n = 0 THEN <<>>
            ELSE IF n \in K THEN Append(first[n - 1], seq[n]) ELSE first[n - 1]
    IN  first[Len(seq)]

GetGroup(t) == Info[t.el].group
IsUserDefined(t) == Info[t.el].user
IsFreeWord(t) == Info[t.el].free
IsStopWord(t) == Info[t.el].stop

\* The variants of request r: a sentence is a sequence of its parsings, a
\* parsing a sequence of elements.
Variants(r, sentence) ==
    [v \in DOMAIN sentence |->
        [i \in DOMAIN sentence[v] |-> [req |-> r, vrn |-> v, idx |-> i, el |-> sentence[v][i]]]]
=============================================================================
