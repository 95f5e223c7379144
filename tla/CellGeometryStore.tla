------------------------- MODULE CellGeometryStore --------------------------
(***************************************************************************)
(* tdoa-engine's cell geometry store: an in-memory map (L1) in front of    *)
(* the Redis cluster (L2).  Each lookup reads L1 under the lock, leaves    *)
(* the lock for the Redis round trip, and takes it again to fill L1, so    *)
(* lookups, StoreCell and the eviction loop interleave between the steps.  *)
(* A geometry is a record of its NCI and a version; versions of a cell     *)
(* grow with every StoreCell.                                              *)
(***************************************************************************)
EXTENDS Integers, FiniteSets

CONSTANTS
    Cells,
    SlotMaps,     \* the ways the cells' keys may hash to the cluster's slots
    Workers,      \* goroutines serving ComputePosition, or calling the store
    Faults,       \* what a failed Redis command may have done: "lost", "applied"
    MemTTL,       \* cellMemCacheTTL, in ticks
    RedisTTL,     \* redisCellTTL, in ticks
    MaxVersion,   \* bound on the versions of a cell
    MaxRequests   \* bound on the calls

ASSUME CellGeometryAssumption ==
    /\ \A f \in SlotMaps : DOMAIN f = Cells
    /\ Faults \subseteq {"lost", "applied"}
    /\ MemTTL \in Nat \ {0} /\ RedisTTL \in Nat \ {0}
    /\ MaxVersion \in Nat \ {0} /\ MaxRequests \in Nat

VARIABLES
    slotOf,    \* the slot of each cell's key: never changes
    redis,     \* the geometries in Redis, by cell
    redisTtl,  \* ticks each key still lives
    mem,       \* L1: the entries of the map, by cell
    call,      \* the call each worker serves
    written,   \* versions handed to StoreCell so far, by cell
    acked,     \* history: the highest version whose StoreCell returned nil
    overlapped,  \* history: cells of which a StoreCell overlapped another call
    requests   \* calls that may still come

vars == <<slotOf, redis, redisTtl, mem, call, written, acked, overlapped, requests>>

Geometry == [nci : Cells, version : 1 .. MaxVersion]
NoGeometry == [nci |-> "none", version |-> 0]

Entry == [cell : Geometry \cup {NoGeometry}, ttl : 0 .. MemTTL]
NoEntry == [cell |-> NoGeometry, ttl |-> 0]

Idle == [op |-> "none", pc |-> "idle", want |-> {}, missing |-> {}, vals |-> {},
         found |-> {}, res |-> "none", floor |-> [c \in Cells |-> 0], always |-> {}]

TypeOK ==
    /\ \A c \in Cells : redis[c] \in Geometry \cup {NoGeometry} /\ redisTtl[c] \in 0 .. RedisTTL
    /\ \A c \in Cells : mem[c] \in Entry /\ (mem[c].ttl > 0 => mem[c].cell # NoGeometry)
    /\ \A w \in Workers :
        /\ call[w].op \in {"none", "get", "multi", "store"}
        /\ call[w].pc \in {"idle", "get", "mget", "set", "fill"}
        /\ call[w].missing \subseteq call[w].want
        /\ call[w].vals \cup call[w].found \subseteq Geometry
    /\ written \in [Cells -> 0 .. MaxVersion]
    /\ \A c \in Cells : acked[c] \in 0 .. written[c]
    /\ slotOf \in SlotMaps
    /\ overlapped \in SUBSET Cells
    /\ requests \in 0 .. MaxRequests

\* Redis persists over restarts of the engine, so it may hold cells at the start.
Init ==
    /\ slotOf \in SlotMaps
    /\ \E present \in SUBSET Cells :
        /\ redis = [c \in Cells |-> IF c \in present THEN [nci |-> c, version |-> 1] ELSE NoGeometry]
        /\ redisTtl = [c \in Cells |-> IF c \in present THEN RedisTTL ELSE 0]
        /\ written = [c \in Cells |-> IF c \in present THEN 1 ELSE 0]
        /\ acked = written
    /\ mem = [c \in Cells |-> NoEntry]
    /\ call = [w \in Workers |-> Idle]
    /\ overlapped = {}
    /\ requests = MaxRequests

-----------------------------------------------------------------------------
(* The map.                                                                *)

Valid(c) == mem[c].ttl > 0

storeMemCache(g) == mem' = [mem EXCEPT ![g.nci] = [cell |-> g, ttl |-> MemTTL]]

RedisSet(g) ==
    /\ redis' = [redis EXCEPT ![g.nci] = g]
    /\ redisTtl' = [redisTtl EXCEPT ![g.nci] = RedisTTL]

Stored(S) == {c \in S : redis[c] # NoGeometry}

Begin(w, c0) ==
    /\ call[w].pc = "idle"
    /\ requests > 0
    /\ requests' = requests - 1
    /\ overlapped' = overlapped \cup
          {c \in c0.want : \E v \in Workers : /\ v # w /\ call[v].pc # "idle" /\ c \in call[v].want
                                             /\ "store" \in {c0.op, call[v].op}}
    /\ call' = [call EXCEPT ![w] = c0]
    /\ UNCHANGED slotOf

Reply(w, res) == call' = [call EXCEPT ![w].pc = "idle", ![w].res = res]

-----------------------------------------------------------------------------
(* Lookups: the L1 pass, the Redis command, the L1 fill.                   *)

\* A fault: an expired entry counts as neither found nor missing.
LookUpPresent(w, op, S) ==
    LET hits == {c \in S : Valid(c)}
        missing == {c \in S : mem[c].cell = NoGeometry}
        seen == [Idle EXCEPT !.op = op, !.want = S, !.missing = missing,
                             !.found = {mem[c].cell : c \in hits},
                             !.floor = acked, !.always = Stored(S)]
    IN  /\ Begin(w, IF missing = {} THEN [seen EXCEPT !.res = "ok"]
                    ELSE [seen EXCEPT !.pc = IF op = "get" THEN "get" ELSE "mget"])
        /\ UNCHANGED <<redis, redisTtl, mem, written, acked>>

\* fromMemCache, or the loop over the requested NCIs under one read lock.
LookUp(w, op, S) ==
    LET hits == {c \in S : Valid(c)}
        seen == [Idle EXCEPT !.op = op, !.want = S, !.missing = S \ hits,
                             !.found = {mem[c].cell : c \in hits},
                             !.floor = acked, !.always = Stored(S)]
    IN  /\ Begin(w, IF hits = S THEN [seen EXCEPT !.res = "ok"]
                    ELSE [seen EXCEPT !.pc = IF op = "get" THEN "get" ELSE "mget"])
        /\ UNCHANGED <<redis, redisTtl, mem, written, acked>>

GetCellGeometry(w, c) == LookUp(w, "get", {c})
GetMultipleCells(w, S) == LookUp(w, "multi", S)

\* GET: redis.Nil and a failed command are errors.
RedisGet(w) ==
    /\ call[w].pc = "get"
    /\ \/ \E c \in Stored(call[w].missing) :
            call' = [call EXCEPT ![w].pc = "fill", ![w].vals = {redis[c]}]
       \/ Stored(call[w].missing) = {} /\ Reply(w, "notfound")
       \/ "lost" \in Faults /\ Reply(w, "error")
    /\ UNCHANGED <<redis, redisTtl, mem, written, acked, requests, overlapped, slotOf>>

\* MGET: the cluster answers CROSSSLOT unless all keys hash to one slot; absent
\* keys come back nil and are skipped.
RedisMGet(w) ==
    LET vals == {redis[c] : c \in Stored(call[w].missing)}
    IN  /\ call[w].pc = "mget"
        /\ \/ /\ Cardinality({slotOf[c] : c \in call[w].missing}) = 1
              /\ IF vals = {} THEN Reply(w, "ok")
                 ELSE call' = [call EXCEPT ![w].pc = "fill", ![w].vals = vals]
           \/ Cardinality({slotOf[c] : c \in call[w].missing}) > 1 /\ Reply(w, "error")
           \/ "lost" \in Faults /\ Reply(w, "error")
        /\ UNCHANGED <<redis, redisTtl, mem, written, acked, requests, overlapped, slotOf>>

\* One value at a time, each under the lock; the last one ends the call.
Fill(w) ==
    /\ call[w].pc = "fill" /\ call[w].op # "store"
    /\ \E g \in call[w].vals :
        /\ storeMemCache(g)
        /\ call' = [call EXCEPT ![w].vals = @ \ {g}, ![w].found = @ \cup {g},
                                ![w].pc = IF call[w].vals = {g} THEN "idle" ELSE "fill",
                                ![w].res = IF call[w].vals = {g} THEN "ok" ELSE @]
    /\ UNCHANGED <<redis, redisTtl, written, acked, requests, overlapped, slotOf>>

-----------------------------------------------------------------------------
(* StoreCell: Redis first, then L1; a failed SET leaves L1 alone.          *)

StoreCell(w, c) ==
    /\ written[c] < MaxVersion
    /\ written' = [written EXCEPT ![c] = @ + 1]
    /\ Begin(w, [Idle EXCEPT !.op = "store", !.pc = "set", !.want = {c},
                             !.vals = {[nci |-> c, version |-> written[c] + 1]}])
    /\ UNCHANGED <<redis, redisTtl, mem, acked>>

StoreSet(w) ==
    /\ call[w].pc = "set"
    /\ \E g \in call[w].vals :
        \/ RedisSet(g) /\ call' = [call EXCEPT ![w].pc = "fill"]
        \/ "lost" \in Faults /\ Reply(w, "error") /\ UNCHANGED <<redis, redisTtl>>
        \/ "applied" \in Faults /\ Reply(w, "error") /\ RedisSet(g)
    /\ UNCHANGED <<mem, written, acked, requests, overlapped, slotOf>>

\* A fault: L1 is left as it is.
StoreFillSkipped(w) ==
    /\ call[w].pc = "fill" /\ call[w].op = "store"
    /\ \E g \in call[w].vals :
        acked' = [acked EXCEPT ![g.nci] = IF g.version > @ THEN g.version ELSE @]
    /\ Reply(w, "ok")
    /\ UNCHANGED <<redis, redisTtl, mem, written, requests, overlapped, slotOf>>

StoreFill(w) ==
    /\ call[w].pc = "fill" /\ call[w].op = "store"
    /\ \E g \in call[w].vals :
        /\ storeMemCache(g)
        /\ acked' = [acked EXCEPT ![g.nci] = IF g.version > @ THEN g.version ELSE @]
    /\ Reply(w, "ok")
    /\ UNCHANGED <<redis, redisTtl, written, requests, overlapped, slotOf>>

-----------------------------------------------------------------------------
(* Time and the eviction loop.                                             *)

Tick ==
    LET gone == {c \in Cells : redisTtl[c] = 1}
    IN  /\ redisTtl' = [c \in Cells |-> IF redisTtl[c] = 0 THEN 0 ELSE redisTtl[c] - 1]
        /\ redis' = [c \in Cells |-> IF c \in gone THEN NoGeometry ELSE redis[c]]
        /\ mem' = [c \in Cells |-> [mem[c] EXCEPT !.ttl = IF @ = 0 THEN 0 ELSE @ - 1]]
        /\ call' = [w \in Workers |-> [call[w] EXCEPT !.always = @ \ gone]]
        /\ UNCHANGED <<written, acked, requests, overlapped, slotOf>>

\* evictLoop drops what has expired.
Evict ==
    /\ \E c \in Cells : mem[c].cell # NoGeometry /\ ~Valid(c)
    /\ mem' = [c \in Cells |-> IF Valid(c) THEN mem[c] ELSE NoEntry]
    /\ UNCHANGED <<redis, redisTtl, call, written, acked, requests, overlapped, slotOf>>

Next ==
    \/ Tick \/ Evict
    \/ \E w \in Workers :
        \/ \E c \in Cells : GetCellGeometry(w, c) \/ StoreCell(w, c)
        \/ \E S \in SUBSET Cells : S # {} /\ GetMultipleCells(w, S)
        \/ RedisGet(w) \/ RedisMGet(w) \/ Fill(w) \/ StoreSet(w) \/ StoreFill(w)

Spec == Init /\ [][Next]_vars

-----------------------------------------------------------------------------
(* Properties.                                                             *)

\* A batch that succeeds answers every requested cell that Redis held during the
\* whole call: expiry and eviction between the L1 pass and the fill lose nothing.
NothingDropped ==
    \A w \in Workers :
        call[w].op = "multi" /\ call[w].pc = "idle" /\ call[w].res = "ok"
        => call[w].always \subseteq {g.nci : g \in call[w].found}

\* "Existing entries are overwritten": a lookup that starts after StoreCell returned
\* sees what it stored, or something newer, in L1 and after every expiry and failure,
\* as long as no StoreCell of the cell overlapped another call on it.
OverwriteSeen ==
    \A w \in Workers :
        call[w].op \in {"get", "multi"} =>
            \A g \in call[w].found : g.nci \notin overlapped => g.version >= call[w].floor[g.nci]
=============================================================================
