------------------------------- MODULE Budget -------------------------------
(***************************************************************************)
(* internal/router/budget.go with the two calls handleCompletion makes:    *)
(* Allowed before a request is dispatched, Charge after it was served.     *)
(* Time is a tick count and a bucket covers BucketTicks of them.  A scope  *)
(* key stands for itself or, for a team value, for the rule of its header; *)
(* the token and the dollar cap work alike and one of them is modelled.    *)
(***************************************************************************)
EXTENDS Integers, Sequences, FiniteSets, SequencesExt, FiniteSetsExt

CONSTANTS
    Clients,        \* requests that run at once
    ScopeKeys,      \* the concrete scope keys, in the order they are checked
    ScopesOf,       \* the scope keys of each client
    MaxTokens,      \* cap of the rule of each scope, 0: none
    Window,         \* window of the rule of each scope
    BucketTicks,    \* bucketDuration
    Usages,         \* token counts an upstream may report
    BudgetEnd       \* bound: the last tick

Scopes == Range(ScopeKeys)

ASSUME BudgetAssumption ==
    /\ ScopesOf \in [Clients -> SUBSET Scopes]
    /\ MaxTokens \in [Scopes -> Nat] /\ Window \in [Scopes -> Nat \ {0}]
    /\ BucketTicks \in Nat \ {0} /\ Usages \subseteq Nat /\ BudgetEnd \in Nat

VARIABLES
    now,
    buckets,    \* scope -> its buckets, oldest first
    client,     \* is the client being served?
    refused,    \* the scope and retry-after of the refusal just given
    spent       \* history: tokens charged to a scope at each tick

budgetVars == <<now, buckets, client, refused, spent>>

Bucket == [start : 0..BudgetEnd, tokens : Nat]
NoRefusal == [scope |-> "none", retryAfter |-> 0]

Total(bkts) == FoldLeft(LAMBDA sum, b : sum + b.tokens, 0, bkts)
Truncate(t) == t - (t % BucketTicks)

----------------------------------------------------------------------------
\* start.After(windowStart): the buckets that count at time t.
InWindow(sk, t) == SelectSeq(buckets[sk], LAMBDA b : b.start > t - Window[sk])

UsedInWindow(sk, t) == Total(InWindow(sk, t))

OldestBucket(sk) == Min({b.start : b \in Range(InWindow(sk, now))} \cup {now})

\* Mutant: a cap is exhausted only when it is exceeded.
ExhaustedAbove(sk) == MaxTokens[sk] > 0 /\ UsedInWindow(sk, now) > MaxTokens[sk]
Exhausted(sk) == MaxTokens[sk] > 0 /\ UsedInWindow(sk, now) >= MaxTokens[sk]

RetryAfter(sk) == Max({OldestBucket(sk) + Window[sk] - now, 0})

\* Allowed: every cap has room, or the first exhausted one is reported.
Allowed(c) ==
    /\ ~client[c] /\ \A sk \in ScopesOf[c] : ~Exhausted(sk)
    /\ client' = [client EXCEPT ![c] = TRUE]
    /\ refused' = NoRefusal
    /\ UNCHANGED <<now, buckets, spent>>

Refused(c) ==
    /\ ~client[c]
    /\ \E i \in DOMAIN ScopeKeys :
         /\ ScopeKeys[i] \in ScopesOf[c] /\ Exhausted(ScopeKeys[i])
         /\ \A j \in 1..(i - 1) : ScopeKeys[j] \in ScopesOf[c] => ~Exhausted(ScopeKeys[j])
         /\ refused' = [scope |-> ScopeKeys[i], retryAfter |-> RetryAfter(ScopeKeys[i])]
    /\ UNCHANGED <<now, buckets, client, spent>>

\* charge: buckets outside the window are evicted, and the usage is added to
\* the last bucket when that is the current one.
\* Mutant: usage is added to the last bucket whatever its time.
ChargedToLast(sk, tokens) ==
    LET kept == InWindow(sk, now)
        n == Len(kept)
    IN IF n > 0
       THEN [kept EXCEPT ![n].tokens = @ + tokens]
       ELSE Append(kept, [start |-> Truncate(now), tokens |-> tokens])

Charged(sk, tokens) ==
    LET kept == InWindow(sk, now)
        n == Len(kept)
    IN IF n > 0 /\ kept[n].start = Truncate(now)
       THEN [kept EXCEPT ![n].tokens = @ + tokens]
       ELSE Append(kept, [start |-> Truncate(now), tokens |-> tokens])

Charge(c, tokens) ==
    /\ client[c]
    /\ client' = [client EXCEPT ![c] = FALSE]
    /\ buckets' = [sk \in Scopes |->
                     IF sk \in ScopesOf[c] THEN Charged(sk, tokens) ELSE buckets[sk]]
    /\ spent' = [sk \in Scopes |->
                   IF sk \in ScopesOf[c] THEN [spent[sk] EXCEPT ![now] = @ + tokens] ELSE spent[sk]]
    /\ refused' = NoRefusal
    /\ UNCHANGED now

\* The dispatch failed, or the upstream reported no usage: nothing is charged.
Uncharged(c) ==
    /\ client[c]
    /\ client' = [client EXCEPT ![c] = FALSE]
    /\ refused' = NoRefusal
    /\ UNCHANGED <<now, buckets, spent>>

BudgetTick ==
    /\ now < BudgetEnd
    /\ now' = now + 1 /\ refused' = NoRefusal
    /\ UNCHANGED <<buckets, client, spent>>

----------------------------------------------------------------------------
BudgetInit ==
    /\ now = 0 /\ refused = NoRefusal
    /\ buckets = [sk \in Scopes |-> <<>>] /\ client = [c \in Clients |-> FALSE]
    /\ spent = [sk \in Scopes |-> [t \in 0..BudgetEnd |-> 0]]

BudgetNext ==
    \/ \E c \in Clients : \/ Allowed(c) \/ Refused(c) \/ Uncharged(c)
                          \/ \E tokens \in Usages : Charge(c, tokens)
    \/ BudgetTick

----------------------------------------------------------------------------
\* The types; the buckets of a scope are in time order, and no more of them
\* are kept than fit in its window.
BudgetTypeOK ==
    /\ now \in 0..BudgetEnd /\ client \in [Clients -> BOOLEAN]
    /\ \A sk \in Scopes :
          /\ buckets[sk] \in Seq(Bucket)
          /\ \A i \in 2..Len(buckets[sk]) : buckets[sk][i - 1].start < buckets[sk][i].start
          /\ BucketTicks * (Len(buckets[sk]) - 1) <= Window[sk]

SpentSince(sk, t) ==
    FoldSet(LAMBDA u, sum : spent[sk][u] + sum, 0, {u \in 0..BudgetEnd : u > t})
RetryAfterExact(scope, retryAfter) ==
    LET first == OldestBucket(scope)
        counts(t) == \E b \in Range(InWindow(scope, t)) : b.start = first
    IN counts(now + retryAfter - 1) /\ ~counts(now + retryAfter)

\* The buckets stand for the usage in the rolling window: nothing older than
\* the window counts, and what is younger counts until at most one bucket
\* before it leaves it.  Retry-After is exact for them: the oldest usage that
\* counts now still counts one tick before the time a refused client is told
\* to come back, and no longer at that time.
BucketsMeanWindow ==
    /\ \A sk \in Scopes :
          /\ UsedInWindow(sk, now) <= SpentSince(sk, now - Window[sk])
          /\ UsedInWindow(sk, now) >= SpentSince(sk, now - Window[sk] + BucketTicks - 1)
    /\ refused # NoRefusal => RetryAfterExact(refused.scope, refused.retryAfter)

\* Allowed and Charge are separate calls with the whole request in between: a
\* cap can be passed, but only by the requests that were in flight together.
OverspendBounded ==
    \A sk \in Scopes : MaxTokens[sk] > 0 =>
        UsedInWindow(sk, now) <= MaxTokens[sk] - 1
            + Max(Usages) * Cardinality({c \in Clients : sk \in ScopesOf[c]})
=============================================================================
