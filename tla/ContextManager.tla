--------------------------- MODULE ContextManager ---------------------------
(***************************************************************************)
(* ContextManager (aruntime/context/manager.py): the contexts agents share *)
(* through the daemon.  A context holds shared, private and read-only      *)
(* data; what grows past a threshold is replaced by a summary and can be   *)
(* rolled back; contexts expire, and the least recently used ones are      *)
(* evicted; two caches remember what was built before.                     *)
(*                                                                         *)
(* A dictionary is a partial function from keys to values.  A value is     *)
(* what a client wrote (Plain) or what _structured_summary put there: the  *)
(* list of keys, or the dictionary of important values.  Both share one    *)
(* dictionary, as in the code, so a client that writes a key of the        *)
(* summary hides what the summary had there.  Sizes and token counts are   *)
(* numbers of entries.  Time is the set of contexts that are past their    *)
(* time to live.                                                           *)
(***************************************************************************)
EXTENDS Queues, Functions

CONSTANTS
    Contexts, Agents,
    None,            \* no private data
    Important,       \* the keys _structured_summary keeps
    Inputs,          \* Inputs[c]: the contexts of tasks for c, [shared, private, readonly] where
                     \* private says if the task has private data
    MaxContexts,     \* max_contexts
    Threshold,       \* compress_threshold_chars, in entries
    MaxSteps         \* bound on the calls made

ASSUME ContextManagerIsTyped ==
    /\ MaxContexts \in Nat \ {0} /\ Threshold \in Nat /\ MaxSteps \in Nat

VARIABLES
    order,    \* _contexts: the ids, least recently used first
    ctx,      \* ctx[c]: the RuntimeContext of c; a new one where c is not known
    expired,  \* the contexts older than ttl_seconds
    prefixes, \* _shared_prefix_cache: keys with their token counts
    builds,   \* _execution_cache
    served,   \* what the last build_agent_context returned
    told,     \* told[c]: the important shared values written up to the first compression, between
              \* it and the second, and so on; the last entry is what was written since the last
    used,     \* every context ever recorded, in the order of the last record or build
    steps

vars == <<order, ctx, expired, prefixes, builds, served, told, used, steps>>

Nothing == [k \in {} |-> None]
Plain(v) == [text |-> v, keys |-> {}, kept |-> Nothing]
Merge(f, g) == [k \in DOMAIN f \union DOMAIN g |-> IF k \in DOMAIN g THEN g[k] ELSE f[k]]
Only(f, K) == [k \in DOMAIN f \intersect K |-> f[k]]
At(f, a) == IF a \in DOMAIN f THEN f[a] ELSE Nothing
Size(d) == Cardinality(DOMAIN d)
Weight(d) == Size(d) + Cardinality(UNION {DOMAIN d[k].kept : k \in DOMAIN d})

Untold == <<Nothing>>
Unserved == [hit |-> FALSE, reused |-> 0, tokens |-> 0]

(* RuntimeContext: the defaults of a new context.                          *)
NewContext ==
    [shared |-> Nothing, private |-> Nothing, readonly |-> Nothing,
     deltaShared |-> Nothing, deltaPrivate |-> Nothing,
     history |-> [k \in {} |-> <<>>], summary |-> <<>>, compressed |-> FALSE, version |-> 0,
     prefixKey |-> <<>>, previous |-> <<>>]

Init ==
    /\ order = <<>> /\ expired = {}
    /\ ctx = [c \in Contexts |-> NewContext]
    /\ prefixes = {} /\ builds = {}
    /\ served = Unserved
    /\ told = [c \in Contexts |-> Untold]
    /\ used = <<>> /\ steps = 0
-----------------------------------------------------------------------------
MergedShared(x) == Merge(x.shared, x.deltaShared)
MergedPrivate(x) ==
    [a \in DOMAIN x.private \union DOMAIN x.deltaPrivate |-> Merge(At(x.private, a), At(x.deltaPrivate, a))]

(* _summary: sizes and version.                                            *)
SummaryOf(x) ==
    <<"sizes", Size(MergedShared(x)), Size(MergedPrivate(x)), Size(x.readonly), x.version>>

(* Seeded variant: the key names the version and not the content.          *)
VersionKey(c, x, a, private) == <<c, x.version, a>>

CacheKey(c, x) == <<c, x.version, MergedShared(x), x.readonly, x.summary>>
FullCacheKey(c, x, a, private) == <<c, x.version, MergedShared(x), x.readonly, a, private, x.summary>>

Markers == {"__structured_summary__", "label", "keys", "important"}

(* _structured_summary: the entries of an earlier summary are not          *)
(* important keys, so what that summary had kept is not kept again.  The   *)
(* label, which names the dictionary, is left out.                         *)
StructuredSummary(d) ==
    [k \in Markers |->
        [text |-> "summary",
         keys |-> IF k = "keys" THEN DOMAIN d ELSE {},
         kept |-> IF k = "important" THEN Only(d, Important) ELSE Nothing]]

(* _compress_if_needed.                                                    *)
PrivateEntries(f) == Cardinality(UNION {{a} \X DOMAIN f[a] : a \in DOMAIN f})
ContentSize(x) ==
    IF x.compressed THEN Size(x.deltaShared) + PrivateEntries(x.deltaPrivate)
    ELSE Size(x.shared) + PrivateEntries(x.private) + Size(x.readonly)
Snapshot(x) ==
    [shared |-> x.shared, private |-> x.private, readonly |-> x.readonly, deltaShared |-> x.deltaShared,
     deltaPrivate |-> x.deltaPrivate, history |-> x.history, summary |-> x.summary, compressed |-> x.compressed]
CompressIfNeeded(x) ==
    IF ContentSize(x) <= Threshold THEN x
    ELSE [x EXCEPT !.previous = Append(@, Snapshot(x)),
                   !.shared = StructuredSummary(MergedShared(x)),
                   !.private = [a \in DOMAIN MergedPrivate(x) |-> StructuredSummary(MergedPrivate(x)[a])],
                   !.deltaShared = Nothing,
                   !.deltaPrivate = Nothing,
                   !.summary = <<"structured", Weight(MergedShared(x)), x.version>>,
                   !.compressed = TRUE,
                   !.version = @ + 1]
-----------------------------------------------------------------------------
(* The three parts of record_task_context.  Empty shared or read-only data *)
(* is no write; private data always is.                                    *)
WriteShared(x, f) ==
    IF f = Nothing THEN x
    ELSE [x EXCEPT !.deltaShared = IF x.compressed THEN Merge(@, f) ELSE @,
                   !.shared = IF x.compressed THEN @ ELSE Merge(@, f),
                   !.version = @ + 1]

WithPrivate(p, a, f) == Merge(p, [b \in {a} |-> Merge(At(p, a), f)])
WritePrivate(x, a, f) ==
    IF f = None THEN x
    ELSE [x EXCEPT !.deltaPrivate = IF x.compressed THEN WithPrivate(@, a, f) ELSE @,
                   !.private = IF x.compressed THEN @ ELSE WithPrivate(@, a, f),
                   !.version = @ + 1]

Versioned(versions, v) == Append(versions, v)

WriteReadonly(x, f) ==
    IF f = Nothing THEN x
    ELSE LET changed == {k \in DOMAIN f : k \notin DOMAIN x.readonly \/ x.readonly[k] # f[k]}
             old(k)  == IF k \in DOMAIN x.history THEN x.history[k] ELSE <<>> IN
         [x EXCEPT !.readonly = Merge(@, f),
                   !.history = [k \in DOMAIN @ \union DOMAIN f |->
                                   IF k \in changed THEN Versioned(old(k), f[k]) ELSE old(k)],
                   !.version = @ + 1]

(* _evict_lru after _evict_expired.                                        *)
EvictLru(q) == IF Len(q) <= MaxContexts THEN q ELSE SubSeq(q, Len(q) - MaxContexts + 1, Len(q))
EvictExpired(q, fresh) == Outside(q, expired \ {fresh})

(* Seeded variant: a context that is known keeps its place.                *)
TouchedInPlace(c) == IF c \in Range(order) THEN order ELSE Append(order, c)

(* move_to_end, or the insertion of a new context.                         *)
Touched(c) == Append(Outside(order, {c}), c)

Known(c) == c \in Range(order)
Called == steps < MaxSteps /\ steps' = steps + 1
Used(c) == used' = Append(Outside(used, {c}), c)

(* record_task_context.                                                    *)
Record(c, a, shared, private, readonly) ==
    LET x == ctx[c]
        y == WriteReadonly(WritePrivate(WriteShared(x, shared), a, private), readonly)
        z == CompressIfNeeded([y EXCEPT !.summary = SummaryOf(y)])
        t == [told[c] EXCEPT ![Len(told[c])] = Merge(@, Only(shared, Important))] IN
    /\ Called
    /\ order' = EvictLru(EvictExpired(Touched(c), c))
    /\ ctx' = [d \in Contexts |-> IF d \notin Range(order') THEN NewContext
                                 ELSE IF d = c THEN [z EXCEPT !.prefixKey = CacheKey(c, z)]
                                 ELSE ctx[d]]
    /\ expired' = (expired \ {c}) \intersect Range(order')
    /\ told' = [d \in Contexts |->
            IF d \notin Range(order') THEN Untold
            ELSE IF d # c THEN told[d]
            ELSE IF z.previous = x.previous THEN t ELSE Append(t, Nothing)]
    /\ Used(c)
    /\ UNCHANGED <<prefixes, builds, served>>

(* _record_task_context of the daemon passes {} for what a task leaves out; *)
(* _record_recovery_context adds a read-only entry and no private data.    *)
RecordTask(c, a) ==
    \E i \in Inputs[c] :
        Record(c, a, i.shared, IF i.private THEN [k \in {"note"} |-> Plain(a)] ELSE Nothing, i.readonly)

RecordRecovery(c, a) ==
    \E i \in Inputs[c] : i.readonly # Nothing /\ Record(c, a, Nothing, None, i.readonly)

(* build_agent_context.                                                    *)
Cached(cache, key) == {e \in cache : e.key = key}
Put(cache, key, n) == {e \in cache : e.key # key} \union {[key |-> key, tokens |-> n]}

Build(c, a) ==
    LET x       == ctx[c]
        private == At(MergedPrivate(x), a)
        tokens  == Weight(MergedShared(x)) + Weight(private) + Size(x.readonly)
        full    == FullCacheKey(c, x, a, private)
        hits    == Cached(builds, full)
        near    == Cached(prefixes, x.prefixKey) IN
    /\ Called /\ Known(c)
    /\ order' = Touched(c) /\ expired' = expired \ {c}
    /\ served' = [hit |-> hits # {}, tokens |-> tokens,
                  reused |-> IF hits # {} THEN (CHOOSE e \in hits : TRUE).tokens
                             ELSE IF near # {} THEN (CHOOSE e \in near : TRUE).tokens ELSE 0]
    /\ prefixes' = Put(prefixes, x.prefixKey, Weight(MergedShared(x)) + Size(x.readonly) + 1)
    /\ builds' = Put(builds, full, tokens)
    /\ Used(c)
    /\ UNCHANGED <<ctx, told>>

(* Seeded variant: the deltas are not restored.                            *)
RestoredBase(x, p) ==
    [shared |-> p.shared, private |-> p.private, readonly |-> p.readonly, deltaShared |-> Nothing,
     deltaPrivate |-> Nothing, history |-> p.history, summary |-> p.summary,
     compressed |-> p.compressed, version |-> x.version + 1, prefixKey |-> x.prefixKey,
     previous |-> SubSeq(x.previous, 1, Len(x.previous) - 1)]

Restored(x, p) ==
    [shared |-> p.shared, private |-> p.private, readonly |-> p.readonly, deltaShared |-> p.deltaShared,
     deltaPrivate |-> p.deltaPrivate, history |-> p.history, summary |-> p.summary,
     compressed |-> p.compressed, version |-> x.version + 1, prefixKey |-> x.prefixKey,
     previous |-> SubSeq(x.previous, 1, Len(x.previous) - 1)]
RollbackKey(c, x) == CacheKey(c, x)

(* What was told, when the last compression is taken back: what came       *)
(* after it is gone.                                                       *)
Untell(t) == SubSeq(t, 1, Len(t) - 1)

(* rollback_context: neither the age nor the place of the context changes. *)
Rollback(c) ==
    /\ Called /\ Known(c) /\ ctx[c].previous # <<>>
    /\ LET y == Restored(ctx[c], ctx[c].previous[Len(ctx[c].previous)]) IN
       ctx' = [ctx EXCEPT ![c] = [y EXCEPT !.prefixKey = RollbackKey(c, y)]]
    /\ told' = [told EXCEPT ![c] = Untell(@)]
    /\ UNCHANGED <<order, expired, prefixes, builds, served, used>>

(* Time passes: the contexts used longest ago are past their time first.   *)
TimePasses ==
    /\ \E n \in 1..Len(order) : expired' = expired \union Range(SubSeq(order, 1, n))
    /\ expired' # expired
    /\ UNCHANGED <<order, ctx, prefixes, builds, served, told, used, steps>>

Next ==
    \/ \E c \in Contexts, a \in Agents : RecordTask(c, a) \/ RecordRecovery(c, a) \/ Build(c, a)
    \/ \E c \in Contexts : Rollback(c)
    \/ TimePasses

Spec == Init /\ [][Next]_vars
-----------------------------------------------------------------------------
(* The contexts in memory are known once each and never more than          *)
(* max_contexts; deltas exist only on top of a summary.                    *)
TypeOK ==
    /\ IsInjective(order) /\ Len(order) <= MaxContexts
    /\ expired \subseteq Range(order) /\ Range(order) \subseteq Contexts
    /\ steps \in 0..MaxSteps
    /\ \A c \in Range(order) :
        /\ ctx[c].version \in Nat /\ ctx[c].compressed \in BOOLEAN
        /\ ~ctx[c].compressed => ctx[c].deltaShared = Nothing /\ ctx[c].deltaPrivate = Nothing

(* What readers of a context find of the important shared values, after    *)
(* any writes, compressions and rollbacks: every one written since the     *)
(* last compression, with its last value; and in the summary's entry       *)
(* `important` every one written between the last two, unless a client has *)
(* since written a key of that name, which takes the entry's place.        *)
(* Values from before the last two compressions are lost, by the code's    *)
(* design: the property does not claim them.                               *)
ImportantSurvives ==
    \A c \in Range(order) :
        LET d == MergedShared(ctx[c])
            n == Len(told[c]) IN
        /\ \A k \in DOMAIN told[c][n] : k \in DOMAIN d /\ d[k] = told[c][n][k]
        /\ n > 1 /\ "important" \notin DOMAIN ctx[c].deltaShared =>
            \A k \in DOMAIN told[c][n - 1] :
                /\ "important" \in DOMAIN d /\ k \in DOMAIN d["important"].kept
                /\ d["important"].kept[k] = told[c][n - 1][k]

(* A hit in the execution cache is a hit for this very content: the tokens *)
(* it says are reused are all the tokens there are.  A context that was    *)
(* evicted and created again counts its versions from the start, so the    *)
(* version alone would not tell.                                           *)
HitIsExact == served.hit => served.reused = served.tokens

(* What is in memory is what was used last: neither the expiry nor the     *)
(* limit drops a context while one that was used before it is kept.        *)
KeptAreLatest == \E n \in 1..(Len(used) + 1) : order = SubSeq(used, n, Len(used))
=============================================================================
