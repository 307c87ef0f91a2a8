---------------------------- MODULE Conversation ----------------------------
(***************************************************************************)
(* The conversation of one user with one model: the short-term memory of   *)
(* NCConversation, the map and the cleaner of NCConversationManager, and   *)
(* the requests of NCProbeNlpManager that use them.                        *)
(*                                                                         *)
(* Requests reach the probe one by one: its uplink thread enriches the     *)
(* sentence and updates the memory, and only then runs the model's query   *)
(* on a pool.  Queries of one conversation therefore read the context and  *)
(* add to the memory concurrently and in any order.  The cleaner may drop  *)
(* the conversation while a query still holds it.                          *)
(*                                                                         *)
(* Times are kept as ages, so that the clock needs no bound.  What a query *)
(* answers is left to the module that composes this one.                   *)
(***************************************************************************)
EXTENDS Tokens, FiniteSets

CONSTANTS
    Conv,         \* bound: NCConversation objects in use at a time
    None,         \* no conversation in the map
    MaxDepth,     \* MAX_DEPTH
    Delay,        \* CONV_CLEAR_DELAY
    Timeout,      \* TIMEOUT of the cleaner
    Req,          \* bound: requests that run or are still known
    MaxInFlight,  \* bound: queries that run at a time
    MaxTroubles,  \* bound: requests asked while another runs, and clears
    Filters,      \* groups that models clear, as sets
    Watched       \* elements whose tokens have a history

ConvAssumption ==
    /\ None \notin Conv
    /\ Cardinality(Conv) > MaxInFlight
    /\ MaxDepth \in Nat \ {0} /\ Delay \in Nat \ {0} /\ Timeout \in Nat
    /\ MaxInFlight \in Nat /\ MaxTroubles \in Nat

ASSUME ConvAssumption

VARIABLES
    mem,        \* the memory of each conversation object
    cur,        \* the conversation in the map, if any
    untouched,  \* age of its Value.time
    query,      \* the running query of each request
    troubles,   \* overlapping requests and clears so far
    unused      \* (history) updates since each watched token was last used

vars == <<mem, cur, untouched, query, troubles, unused>>

Idle == [step |-> "none", conv |-> None, sentence |-> <<>>, read |-> <<>>]

Running(r) == query[r].step # "none"

Older(age, cap) == IF age < cap THEN age + 1 ELSE age
------------------------------------------------------------------------------
(* The memory: a sequence of items, an item a sequence of holders. *)

Fresh == [stm |-> <<>>, lastUsed |-> <<>>, ctx |-> <<>>, idle |-> 0, attempt |-> 0]

Toks(item) == [i \in DOMAIN item |-> item[i].tok]
Memory(m) == UNION {ToSet(Toks(m.stm[i])) : i \in DOMAIN m.stm}
Context(m) == ToSet(FlattenSeq(m.ctx))

\* The items that are left with a holder.
squeeze(stm) == Keep(stm, {i \in DOMAIN stm : stm[i] # <<>>})

\* The mutant that leaves tokens in the memory until they time out.
StaysTimedOnly(m, h) == h.age <= Delay

\* A token stays if it was used lately and by one of the last answers.
Stays(m, h) == h.age <= Delay /\ \E i \in DOMAIN m.lastUsed : h.tok \in m.lastUsed[i]

Reset(m) == m.idle > Delay \/ m.attempt + 1 > MaxDepth

\* NCConversation.update: tokens are forgotten, the context is recomputed.
\* The count of attempts need not grow beyond the value that resets.
update(m) ==
    LET stm == IF Reset(m) THEN <<>>
               ELSE squeeze([i \in DOMAIN m.stm |->
                                Keep(m.stm[i], {k \in DOMAIN m.stm[i] : Stays(m, m.stm[i][k])})])
    IN  [m EXCEPT !.stm = stm,
                  !.idle = 0,
                  !.attempt = Older(@, MaxDepth + 1),
                  !.ctx = [i \in DOMAIN stm |-> Toks(stm[i])]]

\* The context of the last update, the latest item first.
tokens(m) == FlattenSeq(Reverse(m.ctx))

\* NCConversation.clear of these tokens: the context is left as it was.
clear(m, toks) ==
    [m EXCEPT !.stm = squeeze([i \in DOMAIN @ |->
                                  Keep(@[i], {k \in DOMAIN @[i] : @[i][k].tok \notin toks})])]

\* The mutant that also stores what other requests have said.
OwnTokensAndContext(r, used) ==
    Keep(used, {i \in DOMAIN used : ~IsFreeWord(used[i]) /\ ~IsStopWord(used[i])})

\* The tokens of request r itself that are worth remembering.
OwnTokens(r, used) ==
    Keep(used, {i \in DOMAIN used :
                  used[i].req = r /\ ~IsFreeWord(used[i]) /\ ~IsStopWord(used[i])})

\* The mutant that looks at the next item only.
OverriddenByNext(stm, i, h) ==
    i < Len(stm) /\ \E k \in DOMAIN stm[i + 1] : GetGroup(stm[i + 1][k].tok) = GetGroup(h.tok)

\* A later item has the group of holder h of item i, too.
Overridden(stm, i, h) ==
    \E j \in DOMAIN stm :
        j > i /\ \E k \in DOMAIN stm[j] : GetGroup(stm[j][k].tok) = GetGroup(h.tok)

\* The mutant that removes one too few.
LastOnesAndOne(seq, n) == IF Len(seq) > n + 1 THEN Tail(seq) ELSE seq

LastOnes(seq, n) == IF Len(seq) > n THEN SubSeq(seq, Len(seq) - n + 1, Len(seq)) ELSE seq

\* Usage times are those of the last update, not of the answer.
Refreshed(m, h, used) == IF h.tok \in ToSet(used) THEN [h EXCEPT !.age = m.idle] ELSE h

\* NCConversation.addItem: the answer of request r used these tokens.  Groups
\* are replaced and usage times refreshed only when the request has brought
\* tokens of its own.
addItem(m, r, used) ==
    LET own == OwnTokens(r, used)
        stm == Append(m.stm, [i \in DOMAIN own |-> [tok |-> own[i], age |-> m.idle]])
        Left(i) == Keep(stm[i], {k \in DOMAIN stm[i] : ~Overridden(stm, i, stm[i][k])})
    IN  [m EXCEPT !.attempt = 0,
                  !.lastUsed = LastOnes(Append(@, ToSet(used)), MaxDepth),
                  !.stm = IF own = <<>> THEN @ ELSE
                          squeeze([i \in DOMAIN stm |->
                              [k \in DOMAIN Left(i) |-> Refreshed(m, Left(i)[k], used)]])]

\* What the clock does to a holder, and to a conversation.
aged(h) == [h EXCEPT !.age = Older(@, Delay + 1)]
older(m) ==
    [m EXCEPT !.idle = Older(@, Delay + 1),
              !.stm = [i \in DOMAIN @ |-> [k \in DOMAIN @[i] |-> aged(@[i][k])]]]
------------------------------------------------------------------------------
(* Steps. *)

\* An object that is neither in the map nor held by a query is garbage, and a
\* token that has left the memory never returns to it.
Remember(m) ==
    mem' = [c \in Conv |->
              IF c = cur' \/ \E r \in Req : query'[r].conv = c
              THEN [m[c] EXCEPT !.lastUsed = [i \in DOMAIN @ |-> @[i] \cap Memory(m[c])]]
              ELSE Fresh]

Known(m) == UNION {Memory(m[c]) \cup Context(m[c]) : c \in Conv}

\* Requests that do not run and have left no token behind.  Their names serve
\* for new requests, so that requests need no bound.
Forgotten(m) ==
    {r \in Req : ~Running(r) /\ \A t \in Known(m) \cup UNION {ToSet(query[q].read) : q \in Req} :
                                   t.req # r}

\* The history of a step in which some tokens are used and some conversations
\* updated.  The count stops where the properties no longer tell it apart.
Track(used, updated) ==
    unused' = [t \in {k \in Known(mem') : k.el \in Watched} |->
                IF t \in used \/ t \notin DOMAIN unused THEN 0
                ELSE IF \E c \in updated : t \in Context(mem'[c])
                     THEN Older(unused[t], MaxDepth * MaxDepth + 1)
                ELSE unused[t]]

Trouble == troubles < MaxTroubles /\ troubles' = troubles + 1

\* NCConversationManager.get: the conversation in the map or a new one.  All
\* new ones are alike.
get(c) ==
    /\ c = IF cur # None THEN cur ELSE CHOOSE n \in Conv : \A r \in Req : query[r].conv # n
    /\ cur' = c
    /\ untouched' = 0

Init ==
    /\ mem = [c \in Conv |-> Fresh]
    /\ cur = None
    /\ untouched = 0
    /\ query = [r \in Req |-> Idle]
    /\ troubles = 0
    /\ unused = [t \in {} |-> 0]

\* NCProbeNlpManager.ask0, from getting the conversation to submitting the
\* query.  Requests that fail before have not touched the conversation.
Ask(c, s) ==
    LET m == [mem EXCEPT ![c] = update(@)]
    IN  /\ Cardinality({r \in Req : Running(r)}) < MaxInFlight
        /\ IF \E r \in Req : Running(r) THEN Trouble ELSE UNCHANGED troubles
        /\ get(c)
        /\ Forgotten(m) # {}
        /\ query' = [query EXCEPT ![CHOOSE r \in Forgotten(m) : TRUE] =
                       [step |-> "asked", conv |-> c, sentence |-> s, read |-> <<>>]]
        /\ Remember(m)
        /\ Track({}, {c})

\* getConversationContext().getTokens() in the model's query.
ReadContext(r) ==
    /\ query[r].step = "asked"
    /\ query' = [query EXCEPT ![r].step = "read", ![r].read = tokens(mem[query[r].conv])]
    /\ UNCHANGED <<mem, cur, untouched, troubles, unused>>

\* getConversationContext().clear(filter) in the model's query: filters
\* select by group, as those of the examples do.
ModelClears(r, groups) ==
    /\ Running(r)
    /\ Trouble
    /\ UNCHANGED <<cur, untouched, query>>
    /\ Remember([mem EXCEPT ![query[r].conv] =
                   clear(@, {t \in Memory(@) : GetGroup(t) \in groups})])
    /\ Track({}, {})

\* The query returns a result with these tokens.
Answer(r, used) ==
    /\ query[r].step = "read"
    /\ query' = [query EXCEPT ![r] = Idle]
    /\ UNCHANGED <<cur, untouched, troubles>>
    /\ Remember([mem EXCEPT ![query[r].conv] = addItem(@, r, used)])
    /\ Track(ToSet(used), {})

\* The query is rejected, fails, or returns no tokens.
Fail(r) ==
    /\ Running(r)
    /\ query' = [query EXCEPT ![r] = Idle]
    /\ UNCHANGED <<cur, untouched, troubles>>
    /\ Remember(mem)
    /\ Track({}, {})

\* S2P_CLEAR_CONV, on the uplink thread.
ClearConv(c) ==
    /\ Trouble
    /\ get(c)
    /\ UNCHANGED query
    /\ Remember([mem EXCEPT ![c] = clear(@, Memory(@))])
    /\ Track({}, {})

\* The clock.
Elapse ==
    /\ untouched' = IF cur = None THEN 0 ELSE Older(untouched, Timeout + 1)
    /\ UNCHANGED <<cur, query, troubles>>
    /\ Remember([c \in Conv |-> older(mem[c])])
    /\ Track({}, {})

\* The mutant that looks only at conversations with an empty memory.
ExpiredAndEmpty == cur # None /\ untouched > Timeout /\ mem[cur].stm = <<>>

Expired == cur # None /\ untouched > Timeout

\* NCConversationManager.clean.  A running query keeps its object.
clean ==
    /\ Expired
    /\ cur' = None
    /\ untouched' = 0
    /\ UNCHANGED <<query, troubles>>
    /\ Remember(mem)
    /\ Track({}, {})
------------------------------------------------------------------------------
(* Properties. *)

TokenOK(t) == t.req \in Req /\ t.el \in Element /\ t.vrn \in Nat /\ t.idx \in Nat

\* Types, and the shape of the memory: items have tokens, and a holder's age
\* is a time the conversation has seen.
TypeOK ==
    /\ cur \in Conv \cup {None}
    /\ untouched \in 0 .. Timeout + 1
    /\ troubles \in 0 .. MaxTroubles
    /\ \A r \in Req : query[r].step \in {"none", "asked", "read"}
    /\ \A c \in Conv :
        LET m == mem[c]
        IN  /\ m.idle \in 0 .. Delay + 1 /\ m.attempt \in 0 .. MaxDepth + 1
            /\ Len(m.lastUsed) <= MaxDepth
            /\ \A i \in DOMAIN m.stm :
                /\ m.stm[i] # <<>>
                /\ \A k \in DOMAIN m.stm[i] :
                    TokenOK(m.stm[i][k].tok) /\ m.stm[i][k].age \in m.idle .. Delay + 1

\* What the user has said about a group replaces what was said before: no two
\* items of the memory share a group, whatever the order of the answers, so a
\* query never reads two values of one thing (addItem, NCConversation 200-212).
OneItemPerGroup ==
    \A c \in Conv : \A i, j \in DOMAIN mem[c].stm :
        i # j => \A s \in ToSet(Toks(mem[c].stm[i])), t \in ToSet(Toks(mem[c].stm[j])) :
                    GetGroup(s) # GetGroup(t)

\* Tokens that answers do not use are forgotten: a token is in no context more
\* than MAX_DEPTH * MAX_DEPTH updates after its last use, MAX_DEPTH answers
\* with MAX_DEPTH requests each.  (The comment at NCConversation 56 speaks of 3
\* requests, but only requests with a result count.)
ForgottenInTime ==
    \A c \in Conv : \A t \in Context(mem[c]) \cap DOMAIN unused :
        unused[t] <= MaxDepth * MaxDepth

\* A token that was forgotten, replaced or cleared does not come back through
\* a query that has read it before: tokens enter the memory only with the
\* answer of the request they belong to (addItem, NCConversation 189).
OnlyOwnTokensEnter ==
    [][\A c \in Conv : \A t \in Memory(mem'[c]) \ Memory(mem[c]) :
            query[t.req].step = "read" /\ query'[t.req].step = "none"]_vars

\* A conversation that is not touched any more is dropped in the end, also when
\* queries that hold it never end (clean, NCConversationManager 77-83).
IdleIsDropped == untouched > 0 ~> untouched = 0
==============================================================================
