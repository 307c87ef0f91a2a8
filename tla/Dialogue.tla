------------------------------ MODULE Dialogue ------------------------------
(***************************************************************************)
(* Conversations of a model that answers with an intent solver: what       *)
(* NCIntentSolver.solve reads from the conversation, what it answers, and  *)
(* what NCProbeNlpManager adds to the conversation for it.                 *)
(***************************************************************************)
EXTENDS Conversation, IntentSolver

CONSTANTS
    Sentence,    \* sentences the user may send: sequences of parsings
    Intent,      \* the intents of the model
    Skipping     \* those whose callback may throw NCIntentSkip

DialogueAssumption ==
    /\ \A i \in Intent : IntentOK(i)
    /\ Skipping \subseteq Intent
    /\ \A s \in Sentence : s \in Seq(Seq(Element))

ASSUME DialogueAssumption

SentenceVariants(r) == Variants(r, query[r].sentence)

\* The matches of request r that its callbacks may answer with.
Answers(r) ==
    Chosen(SentenceVariants(r), query[r].read, Intent, Skipping)

\* The result's tokens are those of the match.
AnswerByIntent(r) ==
    /\ query[r].step = "read"
    /\ \E a \in Answers(r) : Answer(r, a.match.toks)

\* The model has set the tokens of the result itself, here to all tokens of a
\* variant or to all of the context.
AnswerByHand(r) ==
    /\ query[r].step = "read"
    /\ \E toks \in ToSet(SentenceVariants(r)) \cup {query[r].read} : Answer(r, toks)

ProcessRequest(r) ==
    \/ ReadContext(r)
    \/ AnswerByIntent(r)
    \/ AnswerByHand(r)
    \/ Fail(r)
    \/ \E groups \in Filters : ModelClears(r, groups)

Next ==
    \/ \E c \in Conv, s \in Sentence : Ask(c, s)
    \/ \E r \in Req : ProcessRequest(r)
    \/ \E c \in Conv : ClearConv(c)
    \/ Elapse
    \/ clean

\* The clock goes on and the cleaner is a periodic task.  Queries are code of
\* the model's author and need not end.
Spec == Init /\ [][Next]_vars /\ WF_vars(Elapse) /\ WF_vars(clean)
------------------------------------------------------------------------------
(* Properties of the solver, for every query that has read its context. *)

Reading(r) == query[r].step = "read"

\* The matches of a query, the best and those that are passed over.
Found(r) ==
    LET attempts == Attempts(SentenceVariants(r), query[r].read, Intent)
    IN  IF Throws(attempts) THEN {} ELSE Matches(attempts)

Seen(r, v) == SentenceTokens(SentenceVariants(r)[v])
History(r, v, intent) == ConversationTokens(intent, Seen(r, v), query[r].read)

\* Where the items of an intent are: which term, and which item of it.
Places(intent) == UNION {{n} \X DOMAIN intent.terms[n] : n \in DOMAIN intent.terms}
Nowhere == <<0, 0>>
ItemAt(intent, p) == intent.terms[p[1]][p[2]]

\* Intents whose items cannot compete for a token: they are unordered, share no
\* element, and no item mixes user elements with others.
Simple(intent) ==
    /\ ~intent.ordered
    /\ \A p, q \in Places(intent) :
        p # q => DOMAIN ItemAt(intent, p).accepts \cap DOMAIN ItemAt(intent, q).accepts = {}
    /\ \A p \in Places(intent) : \A e, f \in DOMAIN ItemAt(intent, p).accepts :
        Info[e].user = Info[f].user

\* Some way to give the tokens of sentence and conversation, by their indices,
\* to items satisfies the intent.
Satisfiable(intent, sen, conv) ==
    LET toks == sen \o conv
    IN  \E to \in [DOMAIN toks -> Places(intent) \cup {Nowhere}] :
            /\ \A i \in DOMAIN toks : to[i] # Nowhere => Accepts(ItemAt(intent, to[i]), toks[i])
            /\ \A p \in Places(intent) :
                Cardinality({i \in DOMAIN toks : to[i] = p})
                    \in ItemAt(intent, p).min .. ItemAt(intent, p).max
            /\ \A i \in DOMAIN sen : IsUserDefined(sen[i]) => to[i] # Nowhere
            /\ \E i \in DOMAIN sen : to[i] # Nowhere

\* The greedy search misses nothing: an unordered intent whose items share no
\* element, each for user elements only or for others only, matches exactly when
\* some assignment of tokens satisfies it.
SearchIsComplete ==
    \A r \in Req : Reading(r) =>
        \A intent \in Intent : Simple(intent) =>
            \A v \in DOMAIN SentenceVariants(r) :
                LET sen == Seen(r, v)
                    conv == History(r, v, intent)
                IN  solveIntent(intent, sen, conv).status = "ok" <=> Satisfiable(intent, sen, conv)

\* What the user says now goes before what was said: a match takes a token from
\* the conversation only for an item that fits no token the match leaves of the
\* sentence.
SentenceBeforeHistory ==
    \A r \in Req : Reading(r) =>
        \A a \in Found(r) :
            LET intent == a.match.intent
                used == ToSet(a.match.toks)
                left == ToSet(Seen(r, a.v)) \ used
            IN  \A t \in used, s \in left :
                    t.req # r => \E p \in Places(intent) :
                        Accepts(ItemAt(intent, p), t) /\ ~Accepts(ItemAt(intent, p), s)

\* Solver and conversation agree on groups: a token that a match takes from the
\* conversation, if it is still remembered, is remembered after the answer and
\* as fresh as the answer's own tokens.
UsedIsRemembered ==
    \A r \in Req : Reading(r) =>
        \A a \in Found(r) :
            LET before == mem[query[r].conv]
                after == addItem(before, r, a.match.toks)
                used == ToSet(a.match.toks)
            IN  OwnTokens(r, a.match.toks) # <<>> =>
                \A t \in used \cap Memory(before) :
                    \E i \in DOMAIN after.stm : \E k \in DOMAIN after.stm[i] :
                        after.stm[i][k] = [tok |-> t, age |-> after.idle]
==============================================================================
