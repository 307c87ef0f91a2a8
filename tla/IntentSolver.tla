---------------------------- MODULE IntentSolver ----------------------------
(***************************************************************************)
(* NCIntentSolverEngine: the matches of a set of intents with the variants *)
(* of a sentence and the tokens of the conversation, and their order.      *)
(*                                                                         *)
(* An intent is a record: its name (id), whether it may use the            *)
(* conversation (conv), whether its terms must follow the sentence         *)
(* (ordered), and its terms, sequences of items.  An item accepts          *)
(* elements, each with a weight (one number for the three the code adds    *)
(* up), and takes from min to max tokens.                                  *)
(***************************************************************************)
EXTENDS Tokens

FirstOnes(seq, n) == IF Len(seq) > n THEN SubSeq(seq, 1, n) ELSE seq

\* What the constructors of items, terms and intents let through.
ItemOK(item) ==
    /\ item.accepts \in [DOMAIN item.accepts -> Int]
    /\ item.max \in Nat \ {0} /\ item.min \in 0 .. item.max

IntentOK(intent) ==
    /\ intent.conv \in BOOLEAN /\ intent.ordered \in BOOLEAN
    /\ intent.terms # <<>> /\ intent.terms \in Seq(ToSet(intent.terms))
    /\ \A term \in ToSet(intent.terms) :
        term # <<>> /\ term \in Seq(ToSet(term)) /\ \A item \in ToSet(term) : ItemOK(item)

Accepts(item, t) == t.el \in DOMAIN item.accepts

\* The position of x in seq, from 0; -1 if it is not there.
IndexOf(seq, x) ==
    IF x \in ToSet(seq) THEN (CHOOSE i \in DOMAIN seq : seq[i] = x /\ x \notin ToSet(SubSeq(seq, 1, i - 1))) - 1
    ELSE -1

Sum(seq, Val(_)) ==
    LET upTo[n \in 0 .. Len(seq)] == IF n = 0 THEN 0 ELSE upTo[n - 1] + Val(seq[n])
    IN  upTo[Len(seq)]

\* The requests of the conversation's tokens, the youngest first.
Requests(conv) ==
    LET first == {i \in DOMAIN conv : \A j \in 1 .. i - 1 : conv[j].req # conv[i].req}
    IN  Keep([i \in DOMAIN conv |-> conv[i].req], first)

\* The mutant that takes the conversation's tokens first.
collectHistoryFirst(item, sen, conv, used) ==
    LET toks == conv \o sen
        fit == {i \in DOMAIN toks : toks[i] \notin used /\ Accepts(item, toks[i])}
    IN  FirstOnes(Keep(toks, fit), item.max)

\* The tokens of an item, as many as it may have, the sentence's own first.
collect(item, sen, conv, used) ==
    LET toks == sen \o conv
        fit == {i \in DOMAIN toks : toks[i] \notin used /\ Accepts(item, toks[i])}
    IN  FirstOnes(Keep(toks, fit), item.max)

\* The mutant that accepts one token too few.
EnoughButOne(item, toks) == Len(toks) + 1 >= item.min

Enough(item, toks) == Len(toks) >= item.min

\* A partial match.
Nothing(used) == [ok |-> TRUE, toks |-> <<>>, used |-> used, spec |-> 0, weight |-> 0]

\* An item extends partial match m of its term.
solveItem(item, sen, conv, m) ==
    LET toks == collect(item, sen, conv, m.used)
        reqs == Requests(conv)
    IN  IF ~(m.ok /\ Enough(item, toks)) THEN [m EXCEPT !.ok = FALSE]
        ELSE [m EXCEPT !.toks = @ \o toks,
                       !.used = @ \cup ToSet(toks),
                       !.spec = @ - Sum(toks, LAMBDA t : IndexOf(reqs, t.req)),
                       !.weight = @ + Sum(toks, LAMBDA t : item.accepts[t.el])]

solveTerm(term, sen, conv, used) ==
    LET after[n \in 0 .. Len(term)] ==
            IF n = 0 THEN Nothing(used) ELSE solveItem(term[n], sen, conv, after[n - 1])
    IN  after[Len(term)]

MaxIndex(toks) == CHOOSE i \in {t.idx : t \in ToSet(toks)} : \A t \in ToSet(toks) : t.idx <= i

\* A term extends partial match m of its intent.  The index of a term that
\* has matched nothing does not exist: asking for it throws.
addTerm(intent, term, sen, conv, m) ==
    LET tm == solveTerm(term, sen, conv, m.used)
        first == m.groups = <<>>
    IN  IF m.status # "ok" THEN m
        ELSE IF ~tm.ok THEN [m EXCEPT !.status = "none"]
        ELSE IF intent.ordered /\ ~first /\ (Last(m.groups) = <<>> \/ tm.toks = <<>>)
             THEN [m EXCEPT !.status = "throws"]
        ELSE IF intent.ordered /\ ~first /\ MaxIndex(Last(m.groups)) > MaxIndex(tm.toks)
             THEN [m EXCEPT !.status = "none"]
        ELSE [m EXCEPT !.groups = Append(@, tm.toks), !.used = tm.used,
                       !.spec = @ + tm.spec, !.weight = @ + tm.weight]

\* All of the sentence that the model's author defined is used.
LeavesNoUserToken(sen, used) == \A t \in ToSet(sen) : IsUserDefined(t) => t \in used

\* All terms of an intent, one after the other.
solveTerms(intent, sen, conv) ==
    LET after[n \in 0 .. Len(intent.terms)] ==
            IF n = 0
            THEN [status |-> "ok", groups |-> <<>>, used |-> {}, spec |-> 0, weight |-> 0]
            ELSE addTerm(intent, intent.terms[n], sen, conv, after[n - 1])
    IN  after[Len(intent.terms)]

\* What the match of all terms comes to.  Two more ways not to match: a user
\* token is left, or all of the match came from the conversation.
conclude(intent, sen, m) ==
    LET status == IF m.status = "ok" /\ ~(LeavesNoUserToken(sen, m.used)
                                          /\ m.used \cap ToSet(sen) # {})
                  THEN "none" ELSE m.status
    IN  [status |-> status,
         intent |-> intent,
         toks |-> FlattenSeq(m.groups),
         exact |-> \A t \in ToSet(sen) : t \in m.used \/ IsFreeWord(t),
         spec |-> m.spec,
         weight |-> m.weight]

solveIntent(intent, sen, conv) == conclude(intent, sen, solveTerms(intent, sen, conv))

\* What a variant of the sentence lets an intent see.
SentenceTokens(vrn) == Keep(vrn, {i \in DOMAIN vrn : ~IsStopWord(vrn[i])})

\* The mutant that does not exclude the groups of the sentence.
ConversationTokensAll(intent, sen, conv) == IF intent.conv THEN conv ELSE <<>>

ConversationTokens(intent, sen, conv) ==
    IF intent.conv
    THEN Keep(conv, {i \in DOMAIN conv : \A s \in ToSet(sen) : GetGroup(s) # GetGroup(conv[i])})
    ELSE <<>>

\* Every intent with every variant.
Attempts(variants, conv, intents) ==
    {[v |-> v,
      match |-> solveIntent(intent, SentenceTokens(variants[v]),
                            ConversationTokens(intent, SentenceTokens(variants[v]), conv))] :
        v \in DOMAIN variants, intent \in intents}

\* One attempt that throws fails them all.
Throws(attempts) == \E a \in attempts : a.match.status = "throws"
Matches(attempts) == {a \in attempts : a.match.status = "ok"}

\* What variants are compared by, in this order.  Words per token is compared
\* for equal numbers of words.
VariantWeight(vrn) ==
    LET toks == Keep(vrn, {i \in DOMAIN vrn : ~IsFreeWord(vrn[i]) /\ ~IsStopWord(vrn[i])})
        Count(Test(_)) == Cardinality({i \in DOMAIN toks : Test(toks[i])})
    IN  <<Count(IsUserDefined), Sum(toks, LAMBDA t : Info[t.el].words),
          Count(LAMBDA t : IsUserDefined(t) /\ Info[t.el].direct), Len(toks),
          -Sum(toks, LAMBDA t : Info[t.el].sparsity)>>

Less(v, w) ==
    \E i \in DOMAIN v : v[i] < w[i] /\ \A j \in 1 .. i - 1 : v[j] = w[j]

Weight(m) == <<IF m.exact THEN 1 ELSE 0, m.spec, m.weight>>

\* a comes before b: the greatest weight first, then the least variant.  The
\* rest is up to hash codes.
Better(variants, a, b) ==
    \/ Less(Weight(b.match), Weight(a.match))
    \/ /\ Weight(a.match) = Weight(b.match)
       /\ Less(VariantWeight(variants[a.v]), VariantWeight(variants[b.v]))

\* NCIntentSolver.solve: the matches whose callback may give the answer.  A
\* callback that skips passes on to the next match.
Chosen(variants, conv, intents, skipping) ==
    LET attempts == Attempts(variants, conv, intents)
    IN  IF Throws(attempts) THEN {}
        ELSE {a \in Matches(attempts) :
                \A b \in Matches(attempts) :
                    Better(variants, b, a) => b.match.intent \in skipping}
==============================================================================
