---------------------------- MODULE StoresProofs ----------------------------
(***************************************************************************)
(* Proofs about the stores: the cell geometry store of tdoa-engine, the    *)
(* subscriptions of event-manager, the caches of gnss-engine and           *)
(* assistance-data, and the filters of fusion-engine; for every set of     *)
(* cells and number of handlers, every hashing of the keys to slots, every *)
(* TTL and every failure.  Each is proved about by itself, then all of     *)
(* them together.                                                          *)
(***************************************************************************)
EXTENDS MCStores, Sequences, TLAPS

-----------------------------------------------------------------------------
(* CellGeometryStore.                                                      *)

USE CellGeometryAssumption

Calls == [op : {"none", "get", "multi", "store"},
          pc : {"idle", "get", "mget", "set", "fill"},
          want : SUBSET Cells, missing : SUBSET Cells,
          vals : SUBSET Geometry, found : SUBSET Geometry,
          res : {"none", "ok", "error", "notfound"},
          floor : [Cells -> 0 .. MaxVersion], always : SUBSET Cells]

LevelTypes ==
    /\ slotOf \in SlotMaps
    /\ redis \in [Cells -> Geometry \cup {NoGeometry}]
    /\ redisTtl \in [Cells -> 0 .. RedisTTL]
    /\ mem \in [Cells -> Entry]
    /\ written \in [Cells -> 0 .. MaxVersion]
    /\ acked \in [Cells -> 0 .. MaxVersion]
    /\ overlapped \in SUBSET Cells
    /\ requests \in 0 .. MaxRequests

Types == LevelTypes /\ call \in [Workers -> Calls]

\* Both levels hold a geometry under the key of its own cell.
Keyed ==
    \A c \in Cells :
        /\ redis[c] # NoGeometry => redis[c].nci = c
        /\ mem[c].cell # NoGeometry => mem[c].cell.nci = c
        /\ Valid(c) => mem[c].cell # NoGeometry

Ncis(S) == {g.nci : g \in S}

\* What a call at each of its steps still has to do.  A batch keeps sight of every
\* cell that Redis holds all along: it was found, it is missing still and stored, or
\* its value was read.
CallKept(k) ==
    /\ k.missing \subseteq k.want
    /\ k.always \subseteq Stored(Cells)
    /\ k.pc = "get" => k.op = "get"
    /\ k.pc = "mget" => k.op = "multi" /\ k.always \subseteq Ncis(k.found) \cup k.missing
    /\ k.pc = "set" => k.op = "store"
    /\ k.pc = "fill" /\ k.op = "multi" => k.always \subseteq Ncis(k.found) \cup Ncis(k.vals)
    /\ k.op = "multi" /\ k.pc = "idle" /\ k.res = "ok" => k.always \subseteq Ncis(k.found)
    /\ k.op = "none" => k.pc = "idle"
    /\ k.pc # "idle" => Ncis(k.vals) \subseteq k.want

CallsKept == \A w \in Workers : CallKept(call[w])

KInv == Types /\ Keyed /\ CallsKept

Busy(w) == call[w].pc # "idle"
Looks(w) == call[w].op \in {"get", "multi"}
Stores(w) == call[w].op = "store" /\ Busy(w)

\* Two calls on one cell, one of them a StoreCell, overlap.
OverlapsNoted ==
    \A v, w \in Workers : \A c \in call[v].want \cap call[w].want :
        v # w /\ Stores(v) /\ Busy(w) => c \in overlapped

\* What the levels hold of a cell, once stores of it overlap no other call, is at
\* least what was acknowledged; a lookup under way sees no acknowledgement, and a
\* store under way has the newest version.
LevelFresh(c) ==
    /\ redis[c] # NoGeometry => redis[c].version >= acked[c]
    /\ mem[c].cell # NoGeometry => mem[c].cell.version >= acked[c]

LookupFresh(w, c) ==
    /\ \A g \in call[w].found : g.nci = c => g.version >= call[w].floor[c]
    /\ Busy(w) => /\ c \in call[w].want => call[w].floor[c] = acked[c]
                  /\ \A g \in call[w].vals : g.nci = c => g.version >= call[w].floor[c]

StoreNewest(w, c) ==
    \A g \in call[w].vals : g.nci = c =>
        /\ g.version >= acked[c]
        /\ call[w].pc = "fill" /\ redis[c] # NoGeometry => redis[c].version >= g.version

CallFresh(w, c) == (Looks(w) => LookupFresh(w, c)) /\ (Stores(w) => StoreNewest(w, c))

Fresh == \A c \in Cells \ overlapped : LevelFresh(c) /\ \A w \in Workers : CallFresh(w, c)

OneValue == \A w \in Workers : Stores(w) => \A g, h \in call[w].vals : g = h

\* Nothing is acknowledged or under way that was not handed out.
Bounded ==
    /\ \A c \in Cells : acked[c] <= written[c]
    /\ \A w \in Workers : Stores(w) => \A g \in call[w].vals : g.version <= written[g.nci]

FInv == OverlapsNoted /\ Fresh /\ OneValue /\ Bounded

-----------------------------------------------------------------------------
(* The steps keep KInv.                                                    *)

LEMMA NoGeometryApart == NoGeometry \notin Geometry /\ NoGeometry.version = 0
BY DEF NoGeometry, Geometry

LEMMA KInit == Init => KInv
<1> SUFFICES ASSUME Init PROVE KInv
  OBVIOUS
<1>1. PICK present \in SUBSET Cells :
        /\ redis = [c \in Cells |-> IF c \in present THEN [nci |-> c, version |-> 1] ELSE NoGeometry]
        /\ redisTtl = [c \in Cells |-> IF c \in present THEN RedisTTL ELSE 0]
        /\ written = [c \in Cells |-> IF c \in present THEN 1 ELSE 0]
        /\ acked = written
  BY DEF Init
<1>2. Types
  <2>1. redis \in [Cells -> Geometry \cup {NoGeometry}]
    BY <1>1 DEF Geometry
  <2>2. redisTtl \in [Cells -> 0 .. RedisTTL] /\ written \in [Cells -> 0 .. MaxVersion]
    BY <1>1
  <2>3. mem \in [Cells -> Entry]
    BY DEF Init, NoEntry, Entry
  <2>4. call \in [Workers -> Calls]
    BY DEF Init, Idle, Calls
  <2>5. QED BY <1>1, <2>1, <2>2, <2>3, <2>4 DEF Init, Types, LevelTypes
<1>3. Keyed
  BY <1>1 DEF Init, Keyed, NoEntry, Valid
<1>4. CallsKept
  BY DEF Init, CallsKept, CallKept, Idle
<1>5. QED BY <1>2, <1>3, <1>4 DEF KInv

\* A step of one worker that leaves stored what Redis stores, and puts its call in a
\* good state.
LEMMA OneCall ==
    ASSUME KInv, NEW w \in Workers, call' \in [Workers -> Calls],
           \A v \in Workers \ {w} : call'[v] = call[v],
           CallKept(call'[w]), LevelTypes', Keyed', Stored(Cells) \subseteq Stored(Cells)'
    PROVE  KInv'
<1>1. \A v \in Workers : CallKept(call'[v])
  BY DEF KInv, CallsKept
<1>2. CallsKept'
  BY <1>1 DEF CallsKept, CallKept, Ncis
<1>3. QED BY <1>2 DEF KInv, Types

LEMMA LevelsKept ==
    ASSUME KInv, UNCHANGED <<slotOf, redis, redisTtl, mem, written, acked>>,
           overlapped' \in SUBSET Cells, requests' \in 0 .. MaxRequests
    PROVE  LevelTypes' /\ Keyed' /\ Stored(Cells)' = Stored(Cells)
BY DEF KInv, Types, LevelTypes, Keyed, Valid, Stored

\* How one call changes: to a record of its own, by a reply, or to a new step.
LEMMA CallChanges ==
    ASSUME KInv, NEW w \in Workers, NEW k \in Calls, call' = [call EXCEPT ![w] = k]
    PROVE  /\ call' \in [Workers -> Calls] /\ call'[w] = k
           /\ \A v \in Workers \ {w} : call'[v] = call[v]
BY DEF KInv, Types

LEMMA Replies ==
    ASSUME KInv, NEW w \in Workers, NEW res \in {"ok", "error", "notfound"}, Reply(w, res)
    PROVE  /\ call' \in [Workers -> Calls]
           /\ call'[w] = [call[w] EXCEPT !.pc = "idle", !.res = res]
           /\ \A v \in Workers \ {w} : call'[v] = call[v]
<1> DEFINE k == [call[w] EXCEPT !.pc = "idle", !.res = res]
<1>1. call[w] \in Calls
  BY DEF KInv, Types
<1>2. k \in Calls
  BY <1>1 DEF Calls
<1>3. call' = [call EXCEPT ![w] = k]
  BY <1>1 DEF Reply, KInv, Types, Calls
<1> HIDE DEF k
<1>4. QED BY <1>2, <1>3, CallChanges DEF k

LEMMA Proceeds ==
    ASSUME KInv, NEW w \in Workers, NEW pc \in {"idle", "get", "mget", "set", "fill"},
           NEW vals \in SUBSET Geometry,
           call' = [call EXCEPT ![w].pc = pc, ![w].vals = vals]
    PROVE  /\ call' \in [Workers -> Calls]
           /\ call'[w] = [call[w] EXCEPT !.pc = pc, !.vals = vals]
           /\ \A v \in Workers \ {w} : call'[v] = call[v]
<1> DEFINE k == [call[w] EXCEPT !.pc = pc, !.vals = vals]
<1>1. call[w] \in Calls
  BY DEF KInv, Types
<1>2. k \in Calls
  BY <1>1 DEF Calls
<1>3. call' = [call EXCEPT ![w] = k]
  BY <1>1 DEF KInv, Types, Calls
<1> HIDE DEF k
<1>4. QED BY <1>2, <1>3, CallChanges DEF k

\* A lookup and a StoreCell begin with a well-typed call.
LEMMA LookUpTyped ==
    ASSUME KInv, NEW S \in SUBSET Cells, NEW op \in {"get", "multi"}
    PROVE  LET hits == {c \in S : Valid(c)}
               begun == [Idle EXCEPT !.op = op, !.want = S, !.missing = S \ hits,
                                    !.found = {mem[c].cell : c \in hits},
                                    !.floor = acked, !.always = Stored(S)]
           IN  (IF hits = S THEN [begun EXCEPT !.res = "ok"]
                ELSE [begun EXCEPT !.pc = IF op = "get" THEN "get" ELSE "mget"]) \in Calls
<1> DEFINE hits == {c \in S : Valid(c)}
           begun == [Idle EXCEPT !.op = op, !.want = S, !.missing = S \ hits,
                                !.found = {mem[c].cell : c \in hits},
                                !.floor = acked, !.always = Stored(S)]
<1>1. \A c \in hits : mem[c].cell \in Geometry
  BY DEF KInv, Types, LevelTypes, Keyed, Entry
<1>2. /\ S \ hits \in SUBSET Cells /\ Stored(S) \in SUBSET Cells
      /\ {mem[c].cell : c \in hits} \in SUBSET Geometry
      /\ acked \in [Cells -> 0 .. MaxVersion]
  BY <1>1 DEF Stored, KInv, Types, LevelTypes
<1> HIDE DEF hits
<1>3. begun \in Calls
  BY <1>2 DEF Idle, Calls
<1>4. QED BY <1>3 DEF Calls, hits

LEMMA StoreCellTyped ==
    ASSUME KInv, NEW w \in Workers, NEW c \in Cells, StoreCell(w, c)
    PROVE  [Idle EXCEPT !.op = "store", !.pc = "set", !.want = {c},
                        !.vals = {[nci |-> c, version |-> written[c] + 1]}] \in Calls
<1> DEFINE g == [nci |-> c, version |-> written[c] + 1]
<1>1. {g} \in SUBSET Geometry /\ {c} \in SUBSET Cells
  BY DEF StoreCell, KInv, Types, LevelTypes, Geometry
<1>2. Idle \in Calls
  BY DEF Idle, Calls
<1> HIDE DEF g
<1>3. [Idle EXCEPT !.op = "store", !.pc = "set", !.want = {c}, !.vals = {g}] \in Calls
  BY <1>1, <1>2 DEF Calls
<1>4. QED BY <1>3 DEF g

LEMMA LookUpKeeps ==
    ASSUME KInv, NEW w \in Workers, NEW S \in SUBSET Cells, NEW op \in {"get", "multi"},
           LookUp(w, op, S)
    PROVE  KInv'
<1> DEFINE hits == {c \in S : Valid(c)}
           begun == [Idle EXCEPT !.op = op, !.want = S, !.missing = S \ hits,
                                !.found = {mem[c].cell : c \in hits},
                                !.floor = acked, !.always = Stored(S)]
           k == IF hits = S THEN [begun EXCEPT !.res = "ok"]
                ELSE [begun EXCEPT !.pc = IF op = "get" THEN "get" ELSE "mget"]
<1>1. Begin(w, k) /\ UNCHANGED <<redis, redisTtl, mem, written, acked>>
  BY DEF LookUp
<1>2. \A c \in hits : mem[c].cell \in Geometry /\ mem[c].cell.nci = c
  BY DEF KInv, Types, LevelTypes, Keyed, Entry
<1>3. k \in Calls
  BY LookUpTyped
<1>4. CallKept(k)
  <2>1. Ncis(begun.found) = hits
    BY <1>2 DEF Ncis, Idle
  <2>2. k.always = Stored(S) /\ k.missing = S \ hits /\ k.found = begun.found /\ k.want = S
        /\ k.op = op /\ k.vals = {} /\ k.pc \in {"idle", "get", "mget"}
        /\ (k.pc = "idle" <=> hits = S) /\ (k.pc = "get" => op = "get")
        /\ (k.pc = "mget" => op = "multi")
    BY DEF Idle
  <2>3. Stored(S) \subseteq Stored(Cells) /\ Stored(S) \subseteq S
    BY DEF Stored
  <2>4. QED BY <2>1, <2>2, <2>3 DEF CallKept, Ncis
<1> HIDE DEF k
<1>5. call' = [call EXCEPT ![w] = k] /\ UNCHANGED slotOf
      /\ overlapped' \in SUBSET Cells /\ requests' \in 0 .. MaxRequests
  BY <1>1, <1>3 DEF Begin, KInv, Types, LevelTypes, Calls
<1>6. LevelTypes' /\ Keyed' /\ Stored(Cells)' = Stored(Cells)
  BY <1>1, <1>5, LevelsKept
<1>7. QED BY <1>3, <1>4, <1>5, <1>6, OneCall DEF KInv, Types

LEMMA RedisGetKeeps ==
    ASSUME KInv, NEW w \in Workers, RedisGet(w)
    PROVE  KInv'
<1>1. LevelTypes' /\ Keyed' /\ Stored(Cells)' = Stored(Cells)
  BY LevelsKept DEF RedisGet, KInv, Types, LevelTypes
<1>2. call[w] \in Calls /\ CallKept(call[w]) /\ call[w].pc = "get" /\ call[w].op = "get"
  BY DEF RedisGet, KInv, Types, CallsKept, CallKept
<1>3. CASE \E c \in Stored(call[w].missing) :
            call' = [call EXCEPT ![w].pc = "fill", ![w].vals = {redis[c]}]
  <2>1. PICK c \in Stored(call[w].missing) :
            call' = [call EXCEPT ![w].pc = "fill", ![w].vals = {redis[c]}]
    BY <1>3
  <2>2. c \in call[w].want /\ redis[c] \in Geometry /\ redis[c].nci = c
    BY <1>2 DEF Stored, CallKept, KInv, Types, LevelTypes, Keyed, Calls
  <2>3. /\ call' \in [Workers -> Calls]
        /\ call'[w] = [call[w] EXCEPT !.pc = "fill", !.vals = {redis[c]}]
        /\ \A v \in Workers \ {w} : call'[v] = call[v]
    <3>1. {redis[c]} \in SUBSET Geometry
      BY <2>2
    <3>2. QED BY <2>1, <3>1, Proceeds
  <2>4. CallKept(call'[w])
    BY <1>2, <2>2, <2>3 DEF Calls, CallKept, Ncis
  <2>5. QED BY <1>1, <2>3, <2>4, OneCall
<1>4. ASSUME NEW res \in {"notfound", "error"}, Reply(w, res) PROVE KInv'
  <2>1. /\ call' \in [Workers -> Calls]
        /\ call'[w] = [call[w] EXCEPT !.pc = "idle", !.res = res]
        /\ \A v \in Workers \ {w} : call'[v] = call[v]
    BY <1>4, Replies
  <2>2. CallKept(call'[w])
    BY <1>2, <1>4, <2>1 DEF Calls, CallKept
  <2>3. QED BY <1>1, <2>1, <2>2, OneCall
<1>5. QED BY <1>3, <1>4 DEF RedisGet

LEMMA RedisMGetKeeps ==
    ASSUME KInv, NEW w \in Workers, RedisMGet(w)
    PROVE  KInv'
<1> DEFINE vals == {redis[c] : c \in Stored(call[w].missing)}
<1>1. LevelTypes' /\ Keyed' /\ Stored(Cells)' = Stored(Cells)
  BY LevelsKept DEF RedisMGet, KInv, Types, LevelTypes
<1>2. call[w] \in Calls /\ CallKept(call[w]) /\ call[w].pc = "mget" /\ call[w].op = "multi"
  BY DEF RedisMGet, KInv, Types, CallsKept, CallKept
<1>3. \A c \in Stored(call[w].missing) :
        c \in call[w].want /\ redis[c] \in Geometry /\ redis[c].nci = c
  BY <1>2 DEF Stored, CallKept, KInv, Types, LevelTypes, Keyed, Calls
<1>4. call[w].always \subseteq Ncis(call[w].found) \cup Ncis(vals)
  BY <1>2, <1>3 DEF CallKept, Stored, Ncis
<1>5. CASE call' = [call EXCEPT ![w].pc = "fill", ![w].vals = vals]
  <2>1. vals \in SUBSET Geometry
    BY <1>3
  <2>2. /\ call' \in [Workers -> Calls]
        /\ call'[w] = [call[w] EXCEPT !.pc = "fill", !.vals = vals]
        /\ \A v \in Workers \ {w} : call'[v] = call[v]
    BY <1>5, <2>1, Proceeds
  <2>3. Ncis(vals) \subseteq call[w].want
    BY <1>3 DEF Ncis
  <2>4. CallKept(call'[w])
    BY <1>2, <1>4, <2>2, <2>3 DEF Calls, CallKept
  <2>5. QED BY <1>1, <2>2, <2>4, OneCall
<1>6. ASSUME NEW res \in {"ok", "error"}, Reply(w, res), res = "ok" => vals = {}
      PROVE  KInv'
  <2>1. /\ call' \in [Workers -> Calls]
        /\ call'[w] = [call[w] EXCEPT !.pc = "idle", !.res = res]
        /\ \A v \in Workers \ {w} : call'[v] = call[v]
    BY <1>6, Replies
  <2>2. res = "ok" => call[w].always \subseteq Ncis(call[w].found)
    BY <1>4, <1>6 DEF Ncis
  <2>3. CallKept(call'[w])
    BY <1>2, <1>6, <2>1, <2>2 DEF Calls, CallKept
  <2>4. QED BY <1>1, <2>1, <2>3, OneCall
<1>7. QED BY <1>5, <1>6 DEF RedisMGet

\* Writing a geometry into the map leaves the levels well typed and keyed.
LEMMA MapWritten ==
    ASSUME KInv, NEW g \in Geometry, storeMemCache(g),
           UNCHANGED <<slotOf, redis, redisTtl, written, overlapped, requests>>,
           acked' \in [Cells -> 0 .. MaxVersion]
    PROVE  LevelTypes' /\ Keyed' /\ Stored(Cells)' = Stored(Cells)
<1>1. g.nci \in Cells /\ g # NoGeometry
  BY NoGeometryApart DEF Geometry
<1>2. mem' \in [Cells -> Entry]
  BY <1>1 DEF storeMemCache, Entry, KInv, Types, LevelTypes
<1>3. LevelTypes'
  BY <1>2 DEF KInv, Types, LevelTypes
<1>4. Keyed'
  BY <1>1 DEF storeMemCache, KInv, Types, LevelTypes, Keyed, Valid
<1>5. QED BY <1>3, <1>4 DEF Stored

LEMMA FillKeeps ==
    ASSUME KInv, NEW w \in Workers, Fill(w)
    PROVE  KInv'
<1>1. PICK g \in call[w].vals :
        /\ storeMemCache(g)
        /\ call' = [call EXCEPT ![w].vals = @ \ {g}, ![w].found = @ \cup {g},
                                ![w].pc = IF call[w].vals = {g} THEN "idle" ELSE "fill",
                                ![w].res = IF call[w].vals = {g} THEN "ok" ELSE @]
  BY DEF Fill
<1> DEFINE k == [call[w] EXCEPT !.vals = call[w].vals \ {g}, !.found = call[w].found \cup {g},
                                !.pc = IF call[w].vals = {g} THEN "idle" ELSE "fill",
                                !.res = IF call[w].vals = {g} THEN "ok" ELSE call[w].res]
<1>2. /\ call[w] \in Calls /\ CallKept(call[w])
      /\ call[w].pc = "fill" /\ call[w].op # "store" /\ g \in Geometry
  BY DEF Fill, KInv, Types, CallsKept, Calls
<1>3. k \in Calls
  BY <1>2 DEF Calls
<1>4. call' = [call EXCEPT ![w] = k]
  BY <1>1, <1>2 DEF KInv, Types, Calls
<1>5. CallKept(k)
  <2>1. Ncis(call[w].found) \cup Ncis(call[w].vals) = Ncis(k.found) \cup Ncis(k.vals)
    BY <1>2 DEF Calls, Ncis
  <2>2. k.pc = "idle" => Ncis(k.vals) = {}
    BY <1>2 DEF Calls, Ncis
  <2>3. Ncis(k.vals) \subseteq Ncis(call[w].vals)
    BY <1>2 DEF Calls, Ncis
  <2>4. QED BY <1>2, <2>1, <2>2, <2>3 DEF Calls, CallKept
<1>6. LevelTypes' /\ Keyed' /\ Stored(Cells)' = Stored(Cells)
  BY <1>1, <1>2, MapWritten DEF Fill, KInv, Types, LevelTypes, Keyed
<1> HIDE DEF k
<1>7. QED BY <1>3, <1>4, <1>5, <1>6, CallChanges, OneCall

LEMMA StoreCellKeeps ==
    ASSUME KInv, NEW w \in Workers, NEW c \in Cells, StoreCell(w, c)
    PROVE  KInv'
<1> DEFINE g == [nci |-> c, version |-> written[c] + 1]
           k == [Idle EXCEPT !.op = "store", !.pc = "set", !.want = {c}, !.vals = {g}]
<1>2. k \in Calls
  BY StoreCellTyped
<1>3. CallKept(k)
  BY DEF Idle, CallKept, Ncis
<1>4. /\ call' = [call EXCEPT ![w] = k]
      /\ overlapped' \in SUBSET Cells /\ requests' \in 0 .. MaxRequests
  BY <1>2 DEF StoreCell, Begin, KInv, Types, LevelTypes, Calls
<1>5. written' \in [Cells -> 0 .. MaxVersion] /\ \A b \in Cells : written[b] <= written'[b]
  BY DEF StoreCell, KInv, Types, LevelTypes
<1>6. LevelTypes' /\ Keyed' /\ Stored(Cells)' = Stored(Cells)
  BY <1>4, <1>5 DEF StoreCell, Begin, KInv, Types, LevelTypes, Keyed, Valid, Stored
<1> HIDE DEF k
<1>7. QED BY <1>2, <1>3, <1>4, <1>6, CallChanges, OneCall

\* What a StoreCell under way writes.
LEMMA StoreValue ==
    ASSUME KInv, NEW w \in Workers, call[w].pc \in {"set", "fill"}, NEW g \in call[w].vals
    PROVE  g \in Geometry /\ g.nci \in call[w].want /\ g.nci \in Cells /\ g # NoGeometry
<1>1. call[w] \in Calls /\ CallKept(call[w])
  BY DEF KInv, Types, CallsKept
<1>2. QED BY <1>1, NoGeometryApart DEF Calls, CallKept, Ncis, Geometry

LEMMA RedisWritten ==
    ASSUME KInv, NEW g \in Geometry, RedisSet(g), UNCHANGED <<slotOf, mem, written, acked, overlapped, requests>>
    PROVE  LevelTypes' /\ Keyed' /\ Stored(Cells) \subseteq Stored(Cells)'
<1>1. g.nci \in Cells /\ g # NoGeometry
  BY NoGeometryApart DEF Geometry
<1>2. LevelTypes'
  BY <1>1 DEF RedisSet, KInv, Types, LevelTypes
<1>3. QED BY <1>1, <1>2 DEF RedisSet, KInv, Types, LevelTypes, Keyed, Valid, Stored

LEMMA StoreSetKeeps ==
    ASSUME KInv, NEW w \in Workers, StoreSet(w)
    PROVE  KInv'
<1>1. PICK g \in call[w].vals :
        \/ RedisSet(g) /\ call' = [call EXCEPT ![w].pc = "fill"]
        \/ Reply(w, "error") /\ (RedisSet(g) \/ UNCHANGED <<redis, redisTtl>>)
  BY DEF StoreSet
<1>2. /\ call[w] \in Calls /\ CallKept(call[w]) /\ call[w].pc = "set" /\ call[w].op = "store"
      /\ g \in Geometry
  BY StoreValue DEF StoreSet, KInv, Types, CallsKept, CallKept
<1>3. LevelTypes' /\ Keyed' /\ Stored(Cells) \subseteq Stored(Cells)'
  <2>1. CASE RedisSet(g)
    BY <1>2, <2>1, RedisWritten DEF StoreSet
  <2>2. CASE UNCHANGED <<redis, redisTtl>>
    BY <2>2, LevelsKept DEF StoreSet, KInv, Types, LevelTypes
  <2>3. QED BY <1>1, <2>1, <2>2
<1>4. CASE call' = [call EXCEPT ![w].pc = "fill"]
  <2> DEFINE k == [call[w] EXCEPT !.pc = "fill"]
  <2>1. k \in Calls /\ CallKept(k)
    BY <1>2 DEF Calls, CallKept
  <2>2. call' = [call EXCEPT ![w] = k]
    BY <1>2, <1>4 DEF KInv, Types, Calls
  <2> HIDE DEF k
  <2>3. QED BY <1>3, <2>1, <2>2, CallChanges, OneCall
<1>5. CASE Reply(w, "error")
  <2>1. /\ call' \in [Workers -> Calls]
        /\ call'[w] = [call[w] EXCEPT !.pc = "idle", !.res = "error"]
        /\ \A v \in Workers \ {w} : call'[v] = call[v]
    BY <1>5, Replies
  <2>2. CallKept(call'[w])
    BY <1>2, <2>1 DEF Calls, CallKept
  <2>3. QED BY <1>3, <2>1, <2>2, OneCall
<1>6. QED BY <1>1, <1>4, <1>5

LEMMA StoreFillKeeps ==
    ASSUME KInv, NEW w \in Workers, StoreFill(w)
    PROVE  KInv'
<1>1. PICK g \in call[w].vals :
        /\ storeMemCache(g)
        /\ acked' = [acked EXCEPT ![g.nci] = IF g.version > @ THEN g.version ELSE @]
  BY DEF StoreFill
<1>2. /\ call[w] \in Calls /\ CallKept(call[w]) /\ call[w].pc = "fill" /\ call[w].op = "store"
      /\ g \in Geometry /\ g.nci \in Cells
  BY StoreValue DEF StoreFill, KInv, Types, CallsKept
<1>3. /\ call' \in [Workers -> Calls]
      /\ call'[w] = [call[w] EXCEPT !.pc = "idle", !.res = "ok"]
      /\ \A v \in Workers \ {w} : call'[v] = call[v]
  BY Replies DEF StoreFill
<1>4. CallKept(call'[w])
  BY <1>2, <1>3 DEF Calls, CallKept
<1>5. acked' \in [Cells -> 0 .. MaxVersion]
  BY <1>1, <1>2 DEF KInv, Types, LevelTypes, Geometry
<1>6. LevelTypes' /\ Keyed' /\ Stored(Cells)' = Stored(Cells)
  BY <1>1, <1>2, <1>5, MapWritten DEF StoreFill, KInv, Types, LevelTypes, Keyed, Geometry
<1>7. QED BY <1>3, <1>4, <1>6, OneCall

LEMMA TickKeeps ==
    ASSUME KInv, Tick
    PROVE  KInv'
<1> DEFINE gone == {c \in Cells : redisTtl[c] = 1}
<1>1. LevelTypes' /\ Keyed'
  <2>1. \A c \in Cells : [mem[c] EXCEPT !.ttl = IF @ = 0 THEN 0 ELSE @ - 1] \in Entry
    BY DEF KInv, Types, LevelTypes, Entry
  <2>2. mem' \in [Cells -> Entry]
    BY <2>1 DEF Tick
  <2>3. LevelTypes'
    BY <2>2 DEF Tick, KInv, Types, LevelTypes
  <2>4. \A c \in Cells : mem'[c].cell = mem[c].cell /\ (Valid(c)' => Valid(c))
    BY DEF Tick, KInv, Types, LevelTypes, Entry, Valid
  <2>5. Keyed'
    BY <2>4 DEF Tick, KInv, Types, LevelTypes, Keyed
  <2>6. QED BY <2>3, <2>5
<1>2. \A w \in Workers :
        /\ call'[w] = [call[w] EXCEPT !.always = call[w].always \ gone]
        /\ call[w] \in Calls /\ CallKept(call[w])
  BY DEF Tick, KInv, Types, Calls, CallsKept
<1>3. Stored(Cells)' = Stored(Cells) \ gone
  BY DEF Tick, Stored, KInv, Types, LevelTypes
<1> HIDE DEF gone
<1>4. call' \in [Workers -> Calls]
  <2>1. ASSUME NEW w \in Workers PROVE call'[w] \in Calls
    <3> DEFINE left == call[w].always \ gone
    <3>1. left \in SUBSET Cells /\ call'[w] = [call[w] EXCEPT !.always = left]
          /\ call[w] \in Calls
      BY <1>2 DEF Calls
    <3> HIDE DEF left
    <3>2. QED BY <3>1 DEF Calls
  <2>2. QED BY <2>1 DEF Tick
<1>5. CallsKept'
  <2> SUFFICES ASSUME NEW w \in Workers PROVE CallKept(call[w])'
    BY DEF CallsKept
  <2> DEFINE left == call[w].always \ gone
  <2>0. call'[w] = [call[w] EXCEPT !.always = left] /\ call[w] \in Calls
    BY <1>2
  <2> HIDE DEF left
  <2>1. call'[w].always = left
    BY <2>0 DEF Calls
  <2>2. /\ call'[w].op = call[w].op /\ call'[w].pc = call[w].pc /\ call'[w].res = call[w].res
        /\ call'[w].want = call[w].want /\ call'[w].missing = call[w].missing
        /\ call'[w].vals = call[w].vals /\ call'[w].found = call[w].found
    BY <2>0 DEF Calls
  <2>3. QED BY <1>2, <1>3, <2>1, <2>2 DEF CallKept, Ncis, left
<1>6. QED BY <1>1, <1>4, <1>5 DEF KInv, Types

LEMMA EvictKeeps ==
    ASSUME KInv, Evict
    PROVE  KInv'
<1>1. LevelTypes'
  BY DEF Evict, KInv, Types, LevelTypes, NoEntry, Entry
<1>2. Keyed'
  BY DEF Evict, KInv, Types, LevelTypes, Keyed, NoEntry, Valid
<1>3. CallsKept'
  BY DEF Evict, KInv, CallsKept, CallKept, Stored, Ncis
<1>4. QED BY <1>1, <1>2, <1>3 DEF Evict, KInv, Types

LEMMA KNext == KInv /\ [Next]_vars => KInv'
<1> SUFFICES ASSUME KInv, [Next]_vars PROVE KInv'
  OBVIOUS
<1>1. CASE UNCHANGED vars
  BY <1>1 DEF vars, KInv, Types, LevelTypes, Keyed, Valid, CallsKept, CallKept, Stored, Ncis
<1>2. CASE Tick \/ Evict
  BY <1>2, TickKeeps, EvictKeeps
<1>3. ASSUME NEW w \in Workers, NEW c \in Cells, GetCellGeometry(w, c) \/ StoreCell(w, c)
      PROVE  KInv'
  BY <1>3, LookUpKeeps, StoreCellKeeps DEF GetCellGeometry
<1>4. ASSUME NEW w \in Workers, NEW S \in SUBSET Cells, GetMultipleCells(w, S)
      PROVE  KInv'
  BY <1>4, LookUpKeeps DEF GetMultipleCells
<1>5. ASSUME NEW w \in Workers,
             RedisGet(w) \/ RedisMGet(w) \/ Fill(w) \/ StoreSet(w) \/ StoreFill(w)
      PROVE  KInv'
  BY <1>5, RedisGetKeeps, RedisMGetKeeps, FillKeeps, StoreSetKeeps, StoreFillKeeps
<1>6. QED BY <1>1, <1>2, <1>3, <1>4, <1>5 DEF Next

-----------------------------------------------------------------------------
(* The steps keep FInv.                                                    *)

LEMMA FInit == Init => FInv
BY DEF Init, FInv, OverlapsNoted, Fresh, OneValue, Bounded, Stores, Busy, Looks, CallFresh,
       LevelFresh, Idle, NoEntry

\* While no call begins, overlaps stay noted.
LEMMA NotedKept ==
    ASSUME OverlapsNoted, UNCHANGED overlapped,
           \A v \in Workers : Busy(v)' => /\ Busy(v) /\ call'[v].want = call[v].want
                                         /\ call'[v].op = call[v].op
    PROVE  OverlapsNoted'
BY DEF OverlapsNoted, Stores, Busy

\* A StoreCell that nothing overlaps has its cell to itself.
LEMMA Alone ==
    ASSUME KInv, FInv, NEW w \in Workers, Stores(w), NEW g \in call[w].vals,
           g.nci \notin overlapped, NEW v \in Workers \ {w}, Busy(v)
    PROVE  /\ g.nci \notin call[v].want
           /\ \A h \in call[v].vals : h.nci # g.nci
<1>1. g.nci \in call[w].want
  BY DEF KInv, CallsKept, CallKept, Ncis, Stores, Busy
<1>2. g.nci \notin call[v].want
  BY <1>1 DEF FInv, OverlapsNoted
<1>3. QED BY <1>2 DEF KInv, CallsKept, CallKept, Ncis, Busy

\* A step of one call that stores nothing in Redis.
LEMMA CallMoves ==
    ASSUME KInv, FInv, NEW w \in Workers,
           UNCHANGED <<redis, written, acked, overlapped>>,
           \A c \in Cells \ overlapped : LevelFresh(c)',
           \A v \in Workers \ {w} : call'[v] = call[v],
           Busy(w)' => /\ Busy(w) /\ call'[w].want = call[w].want /\ call'[w].op = call[w].op,
           Stores(w)' => call'[w].vals = call[w].vals,
           \A c \in Cells \ overlapped : CallFresh(w, c)'
    PROVE  FInv'
<1>1. OverlapsNoted'
  BY NotedKept DEF FInv, Busy
<1>2. Fresh'
  <2> SUFFICES ASSUME NEW c \in Cells \ overlapped
               PROVE  LevelFresh(c)' /\ \A v \in Workers : CallFresh(v, c)'
    BY DEF Fresh
  <2>1. \A v \in Workers \ {w} : CallFresh(v, c)'
    BY DEF FInv, Fresh, CallFresh, Looks, Stores, Busy, LookupFresh, StoreNewest
  <2>2. QED BY <2>1
<1>3. OneValue' /\ Bounded'
  BY DEF FInv, OneValue, Bounded, Stores, Busy
<1>4. QED BY <1>1, <1>2, <1>3 DEF FInv

LEMMA ReplyFresh ==
    ASSUME KInv, FInv, NEW w \in Workers, NEW res \in {"ok", "error", "notfound"},
           Reply(w, res), UNCHANGED <<redis, mem, written, acked, overlapped>>
    PROVE  FInv'
<1>1. /\ call'[w] = [call[w] EXCEPT !.pc = "idle", !.res = res]
      /\ \A v \in Workers \ {w} : call'[v] = call[v]
  BY Replies
<1>2. /\ ~Busy(w)' /\ call'[w].op = call[w].op /\ call'[w].found = call[w].found
      /\ call'[w].floor = call[w].floor
  BY <1>1 DEF Busy, KInv, Types, Calls
<1>3. \A c \in Cells \ overlapped : CallFresh(w, c)'
  BY <1>2 DEF FInv, Fresh, CallFresh, Looks, Stores, LookupFresh, Busy
<1>4. \A c \in Cells \ overlapped : LevelFresh(c)'
  BY DEF FInv, Fresh, LevelFresh
<1>5. QED BY <1>1, <1>2, <1>3, <1>4, CallMoves DEF Stores

\* The values a lookup reads from Redis are not older than what it must see.
LEMMA ReadFresh ==
    ASSUME KInv, FInv, NEW w \in Workers, Looks(w), Busy(w), NEW vals \in SUBSET Geometry,
           \A g \in vals : g.nci \in call[w].want /\ redis[g.nci] = g,
           call' = [call EXCEPT ![w].pc = "fill", ![w].vals = vals],
           UNCHANGED <<redis, mem, written, acked, overlapped>>
    PROVE  FInv'
<1>1. /\ call'[w] = [call[w] EXCEPT !.pc = "fill", !.vals = vals]
      /\ \A v \in Workers \ {w} : call'[v] = call[v]
  BY Proceeds
<1>2. /\ call'[w].op = call[w].op /\ call'[w].found = call[w].found /\ call'[w].vals = vals
      /\ call'[w].floor = call[w].floor /\ call'[w].want = call[w].want
      /\ call'[w].pc = "fill"
  BY <1>1 DEF KInv, Types, Calls
<1>3. \A g \in vals : g # NoGeometry
  BY NoGeometryApart
<1>4. ASSUME NEW c \in Cells \ overlapped PROVE CallFresh(w, c)'
  <2>1. LevelFresh(c) /\ LookupFresh(w, c)
    BY DEF FInv, Fresh, CallFresh
  <2>2. \A g \in vals : g.nci = c => g.version >= acked[c]
    BY <1>3, <2>1 DEF LevelFresh
  <2>3. c \in call[w].want => call[w].floor[c] = acked[c]
    BY <2>1 DEF LookupFresh
  <2>4. LookupFresh(w, c)'
    <3>1. \A g \in call[w].found : g.nci = c => g.version >= call[w].floor[c]
      BY <2>1 DEF LookupFresh
    <3>2. \A g \in vals : g.nci = c => c \in call[w].want
      OBVIOUS
    <3>3. \A g \in vals : g.nci = c => g.version >= call[w].floor[c]
      BY <2>2, <2>3, <3>2
    <3>4. QED BY <1>2, <2>3, <3>1, <3>3 DEF LookupFresh
  <2>5. ~Stores(w)'
    BY <1>2 DEF Looks, Stores
  <2>6. QED BY <2>4, <2>5 DEF CallFresh
<1>5. \A c \in Cells \ overlapped : LevelFresh(c)'
  BY DEF FInv, Fresh, LevelFresh
<1>6. QED BY <1>1, <1>2, <1>4, <1>5, CallMoves DEF Looks, Stores, Busy

LEMMA RedisGetFresh ==
    ASSUME KInv, FInv, NEW w \in Workers, RedisGet(w) \/ RedisMGet(w)
    PROVE  FInv'
<1>1. /\ call[w] \in Calls /\ CallKept(call[w]) /\ Looks(w) /\ Busy(w)
      /\ UNCHANGED <<redis, mem, written, acked, overlapped>>
  BY DEF RedisGet, RedisMGet, KInv, Types, CallsKept, CallKept, Looks, Busy
<1>2. \A c \in Stored(call[w].missing) :
        c \in call[w].want /\ redis[c] \in Geometry /\ redis[c].nci = c
  BY <1>1 DEF Stored, CallKept, KInv, Types, LevelTypes, Keyed, Calls
<1>3. ASSUME NEW C \in SUBSET Stored(call[w].missing),
             call' = [call EXCEPT ![w].pc = "fill", ![w].vals = {redis[c] : c \in C}]
      PROVE  FInv'
  <2>1. /\ {redis[c] : c \in C} \in SUBSET Geometry
        /\ \A g \in {redis[c] : c \in C} : g.nci \in call[w].want /\ redis[g.nci] = g
    BY <1>2
  <2>2. QED BY <1>1, <1>3, <2>1, ReadFresh
<1>4. ASSUME NEW c \in Stored(call[w].missing),
             call' = [call EXCEPT ![w].pc = "fill", ![w].vals = {redis[c]}]
      PROVE  FInv'
  <2>1. {redis[b] : b \in {c}} = {redis[c]}
    OBVIOUS
  <2>2. {c} \in SUBSET Stored(call[w].missing)
    OBVIOUS
  <2>3. QED BY <1>3, <1>4, <2>1, <2>2
<1>5. ASSUME NEW res \in {"ok", "error", "notfound"}, Reply(w, res) PROVE FInv'
  BY <1>1, <1>5, ReplyFresh
<1>6. CASE RedisGet(w)
  BY <1>4, <1>5, <1>6 DEF RedisGet
<1>7. CASE RedisMGet(w)
  BY <1>3, <1>5, <1>7 DEF RedisMGet
<1>8. QED BY <1>6, <1>7

\* A call begins: it notes what it overlaps, and starts from the levels as they are.
LEMMA BeginNoted ==
    ASSUME KInv, OverlapsNoted, NEW w \in Workers, NEW k \in Calls, Begin(w, k)
    PROVE  OverlapsNoted'
<1>1. /\ call'[w] = k /\ \A v \in Workers \ {w} : call'[v] = call[v]
      /\ ~Busy(w)
  BY CallChanges DEF Begin, Busy
<1>2. \A v \in Workers \ {w} : \A c \in call[v].want \cap k.want :
        Busy(v) /\ "store" \in {k.op, call[v].op} => c \in overlapped'
  BY DEF Begin, Busy, KInv, Types, Calls
<1>3. overlapped \subseteq overlapped'
  BY DEF Begin
<1>4. QED BY <1>1, <1>2, <1>3 DEF OverlapsNoted, Stores, Busy

LEMMA LookUpFresh ==
    ASSUME KInv, FInv, NEW w \in Workers, NEW S \in SUBSET Cells,
           NEW op \in {"get", "multi"}, LookUp(w, op, S)
    PROVE  FInv'
<1> DEFINE hits == {c \in S : Valid(c)}
           begun == [Idle EXCEPT !.op = op, !.want = S, !.missing = S \ hits,
                                !.found = {mem[c].cell : c \in hits},
                                !.floor = acked, !.always = Stored(S)]
           k == IF hits = S THEN [begun EXCEPT !.res = "ok"]
                ELSE [begun EXCEPT !.pc = IF op = "get" THEN "get" ELSE "mget"]
<1>1. Begin(w, k) /\ UNCHANGED <<redis, redisTtl, mem, written, acked>>
  BY DEF LookUp
<1>2. \A c \in hits : mem[c].cell \in Geometry /\ mem[c].cell.nci = c /\ mem[c].cell # NoGeometry
  BY NoGeometryApart DEF KInv, Types, LevelTypes, Keyed, Entry
<1>3. k.op = op /\ k.vals = {} /\ k.floor = acked /\ k.found = {mem[c].cell : c \in hits}
  BY DEF Idle
<1>4. k \in Calls
  BY LookUpTyped
<1> HIDE DEF k
<1>5. call'[w] = k /\ (\A v \in Workers \ {w} : call'[v] = call[v])
  BY <1>1, <1>4, CallChanges DEF Begin
<1>6. overlapped \subseteq overlapped' /\ OverlapsNoted'
  BY <1>1, <1>4, BeginNoted DEF Begin, FInv
<1>7. Fresh'
  <2> SUFFICES ASSUME NEW c \in Cells, c \notin overlapped, c \notin overlapped'
               PROVE  LevelFresh(c)' /\ \A v \in Workers : CallFresh(v, c)'
    BY <1>6 DEF Fresh
  <2>1. LevelFresh(c) /\ LevelFresh(c)'
    BY <1>1 DEF FInv, Fresh, LevelFresh
  <2>2. CallFresh(w, c)'
    BY <1>1, <1>2, <1>3, <1>5, <2>1
       DEF CallFresh, Looks, Stores, LookupFresh, LevelFresh, Busy
  <2>3. \A v \in Workers \ {w} : CallFresh(v, c)'
    BY <1>1, <1>5 DEF FInv, Fresh, CallFresh, Looks, Stores, Busy, LookupFresh, StoreNewest
  <2>4. QED BY <2>1, <2>2, <2>3
<1>8. OneValue' /\ Bounded'
  BY <1>1, <1>3, <1>5 DEF FInv, OneValue, Bounded, Stores, Busy
<1>9. QED BY <1>6, <1>7, <1>8 DEF FInv

LEMMA StoreCellFresh ==
    ASSUME KInv, FInv, NEW w \in Workers, NEW c \in Cells, StoreCell(w, c)
    PROVE  FInv'
<1> DEFINE g == [nci |-> c, version |-> written[c] + 1]
           k == [Idle EXCEPT !.op = "store", !.pc = "set", !.want = {c}, !.vals = {g}]
<1>1. /\ Begin(w, k) /\ UNCHANGED <<redis, redisTtl, mem, acked>>
      /\ written' = [written EXCEPT ![c] = @ + 1]
  BY DEF StoreCell
<1>2. k.op = "store" /\ k.pc = "set" /\ k.vals = {g}
  BY DEF Idle
<1>3. k \in Calls
  BY StoreCellTyped
<1> HIDE DEF k
<1>4. call'[w] = k /\ (\A v \in Workers \ {w} : call'[v] = call[v])
  BY <1>1, <1>3, CallChanges DEF Begin
<1>5. overlapped \subseteq overlapped' /\ OverlapsNoted'
  BY <1>1, <1>3, BeginNoted DEF Begin, FInv
<1>6. /\ written'[c] = written[c] + 1 /\ g.nci = c /\ g.version = written[c] + 1
      /\ \A b \in Cells : written'[b] >= written[b] /\ acked[b] <= written[b]
      /\ written \in [Cells -> 0 .. MaxVersion] /\ acked \in [Cells -> 0 .. MaxVersion]
  BY <1>1 DEF KInv, Types, LevelTypes, FInv, Bounded
<1> HIDE DEF g
<1>7. Fresh'
  <2> SUFFICES ASSUME NEW b \in Cells, b \notin overlapped, b \notin overlapped'
               PROVE  LevelFresh(b)' /\ \A v \in Workers : CallFresh(v, b)'
    BY <1>5 DEF Fresh
  <2>1. LevelFresh(b)'
    BY <1>1 DEF FInv, Fresh, LevelFresh
  <2>2. CallFresh(w, b)'
    BY <1>1, <1>2, <1>4, <1>6 DEF CallFresh, Looks, Stores, StoreNewest, Busy
  <2>3. \A v \in Workers \ {w} : CallFresh(v, b)'
    BY <1>1, <1>4 DEF FInv, Fresh, CallFresh, Looks, Stores, Busy, LookupFresh, StoreNewest
  <2>4. QED BY <2>1, <2>2, <2>3
<1>8. OneValue'
  BY <1>2, <1>4 DEF FInv, OneValue, Stores, Busy
<1>9. Bounded'
  <2>1. \A b \in Cells : acked'[b] <= written'[b]
    BY <1>1, <1>6
  <2>2. ASSUME NEW v \in Workers \ {w}, Stores(v)', NEW h \in call'[v].vals
        PROVE  h.version <= written'[h.nci]
    <3>1. h.version <= written[h.nci] /\ h \in Geometry
      BY <1>4, <2>2 DEF FInv, Bounded, Stores, Busy, KInv, Types, Calls
    <3>2. h.nci \in Cells /\ h.version \in Nat
      BY <3>1 DEF Geometry
    <3>3. written'[h.nci] >= written[h.nci] /\ written[h.nci] \in Nat /\ written'[h.nci] \in Nat
      BY <1>1, <1>6, <3>2
    <3>4. QED BY <3>1, <3>2, <3>3
  <2>3. QED BY <1>2, <1>4, <1>6, <2>1, <2>2 DEF Bounded
<1>10. QED BY <1>5, <1>7, <1>8, <1>9 DEF FInv

LEMMA FillFresh ==
    ASSUME KInv, FInv, NEW w \in Workers, Fill(w)
    PROVE  FInv'
<1>1. PICK g \in call[w].vals :
        /\ storeMemCache(g)
        /\ call' = [call EXCEPT ![w].vals = @ \ {g}, ![w].found = @ \cup {g},
                                ![w].pc = IF call[w].vals = {g} THEN "idle" ELSE "fill",
                                ![w].res = IF call[w].vals = {g} THEN "ok" ELSE @]
  BY DEF Fill
<1>2. /\ call[w] \in Calls /\ CallKept(call[w]) /\ Busy(w) /\ Looks(w)
      /\ g \in Geometry /\ g.nci \in call[w].want /\ g.nci \in Cells
      /\ UNCHANGED <<redis, written, acked, overlapped>>
  BY StoreValue DEF Fill, KInv, Types, CallsKept, CallKept, Calls, Busy, Looks
<1>3. /\ call'[w].op = call[w].op /\ call'[w].want = call[w].want
      /\ call'[w].floor = call[w].floor
      /\ call'[w].vals = call[w].vals \ {g} /\ call'[w].found = call[w].found \cup {g}
      /\ \A v \in Workers \ {w} : call'[v] = call[v]
  BY <1>1, <1>2 DEF KInv, Types, Calls
<1>4. \A c \in Cells \ overlapped : LookupFresh(w, c) /\ LevelFresh(c)
  BY <1>2 DEF FInv, Fresh, CallFresh
<1>5. g.nci \notin overlapped =>
        g.version >= call[w].floor[g.nci] /\ call[w].floor[g.nci] = acked[g.nci]
  BY <1>2, <1>4 DEF LookupFresh
<1>6. ASSUME NEW c \in Cells \ overlapped PROVE LevelFresh(c)'
  <2>1. CASE c = g.nci
    <3>1. mem'[c].cell = g
      BY <1>1, <2>1 DEF storeMemCache, KInv, Types, LevelTypes
    <3>2. QED BY <1>2, <1>4, <1>5, <2>1, <3>1 DEF LevelFresh
  <2>2. CASE c # g.nci
    BY <1>1, <1>2, <1>4, <2>2 DEF LevelFresh, storeMemCache, KInv, Types, LevelTypes
  <2>3. QED BY <2>1, <2>2
<1>7. ASSUME NEW c \in Cells \ overlapped PROVE CallFresh(w, c)'
  <2>1. LookupFresh(w, c)
    BY <1>4
  <2>2. LookupFresh(w, c)'
    BY <1>2, <1>3, <1>5, <2>1 DEF LookupFresh, Busy
  <2>3. QED BY <1>2, <1>3, <2>2 DEF CallFresh, Looks, Stores
<1>8. QED BY <1>2, <1>3, <1>6, <1>7, CallMoves DEF Looks, Stores, Busy

LEMMA StoreSetFresh ==
    ASSUME KInv, FInv, NEW w \in Workers, StoreSet(w)
    PROVE  FInv'
<1>1. PICK g \in call[w].vals :
        \/ RedisSet(g) /\ call' = [call EXCEPT ![w].pc = "fill"]
        \/ Reply(w, "error") /\ (RedisSet(g) \/ UNCHANGED <<redis, redisTtl>>)
  BY DEF StoreSet
<1>2. /\ call[w] \in Calls /\ call[w].op = "store" /\ call[w].pc = "set" /\ Stores(w)
      /\ g \in Geometry /\ g.nci \in Cells
      /\ UNCHANGED <<mem, written, acked, overlapped>>
  BY StoreValue DEF StoreSet, KInv, Types, CallsKept, CallKept, Stores, Busy
<1>3. CASE Reply(w, "error") /\ UNCHANGED <<redis, redisTtl>>
  BY <1>2, <1>3, ReplyFresh
<1>4. CASE RedisSet(g)
  <2>1. \A v \in Workers \ {w} : call'[v] = call[v]
    BY <1>1, Replies DEF KInv, Types
  <2>2. /\ call'[w].op = "store" /\ call'[w].want = call[w].want
        /\ call'[w].vals = call[w].vals
    <3>1. CASE call' = [call EXCEPT ![w].pc = "fill"]
      BY <1>2, <3>1 DEF KInv, Types, Calls
    <3>2. CASE Reply(w, "error")
      <4>1. call'[w] = [call[w] EXCEPT !.pc = "idle", !.res = "error"]
        BY <3>2, Replies
      <4>2. QED BY <1>2, <4>1 DEF Calls
    <3>3. QED BY <1>1, <3>1, <3>2
  <2>3. OverlapsNoted'
    BY <1>2, <2>1, <2>2, NotedKept DEF FInv, Busy, Stores
  <2>4. OneValue' /\ Bounded'
    BY <1>2, <2>1, <2>2 DEF FInv, OneValue, Bounded, Stores, Busy
  <2>5. redis'[g.nci] = g /\ \A c \in Cells \ {g.nci} : redis'[c] = redis[c]
    BY <1>2, <1>4 DEF RedisSet, KInv, Types, LevelTypes
  <2>6. \A h \in call[w].vals : h = g
    BY <1>2 DEF FInv, OneValue
  <2>7. ASSUME NEW c \in Cells \ overlapped
        PROVE  LevelFresh(c)' /\ \A v \in Workers : CallFresh(v, c)'
    <3>1. LevelFresh(c) /\ StoreNewest(w, c)
      BY <1>2 DEF FInv, Fresh, CallFresh
    <3>2. LevelFresh(c)'
      BY <1>2, <2>5, <3>1 DEF LevelFresh, StoreNewest
    <3>3. CallFresh(w, c)'
      <4>1. g.version \in Int
        BY <1>2 DEF Geometry
      <4>2. StoreNewest(w, c)'
        BY <1>2, <2>2, <2>5, <2>6, <3>1, <4>1 DEF StoreNewest
      <4>3. QED BY <2>2, <4>2 DEF CallFresh, Looks
    <3>4. ASSUME NEW v \in Workers \ {w} PROVE CallFresh(v, c)'
      <4>1. CallFresh(v, c) /\ call'[v] = call[v]
        BY <2>1 DEF FInv, Fresh
      <4>2. Busy(v) /\ c = g.nci => \A h \in call[v].vals : h.nci # c
        BY <1>2, Alone
      <4>3. Looks(v)' => LookupFresh(v, c)'
        BY <1>2, <4>1 DEF CallFresh, Looks, LookupFresh, Busy
      <4>4. Stores(v)' => StoreNewest(v, c)'
        BY <1>2, <2>5, <4>1, <4>2 DEF CallFresh, Stores, StoreNewest, Busy
      <4>5. QED BY <4>3, <4>4 DEF CallFresh
    <3>5. QED BY <3>2, <3>3, <3>4
  <2>8. QED BY <1>2, <2>3, <2>4, <2>7 DEF FInv, Fresh
<1>5. QED BY <1>1, <1>3, <1>4

LEMMA StoreFillFresh ==
    ASSUME KInv, FInv, NEW w \in Workers, StoreFill(w)
    PROVE  FInv'
<1>1. PICK g \in call[w].vals :
        /\ storeMemCache(g)
        /\ acked' = [acked EXCEPT ![g.nci] = IF g.version > @ THEN g.version ELSE @]
  BY DEF StoreFill
<1>2. /\ call[w] \in Calls /\ call[w].op = "store" /\ call[w].pc = "fill" /\ Stores(w)
      /\ g \in Geometry /\ g.nci \in Cells /\ g.version \in Nat
      /\ UNCHANGED <<redis, written, overlapped>>
  BY StoreValue DEF StoreFill, KInv, Types, Stores, Busy, Geometry
<1>3. /\ call'[w] = [call[w] EXCEPT !.pc = "idle", !.res = "ok"]
      /\ \A v \in Workers \ {w} : call'[v] = call[v]
  BY Replies DEF StoreFill
<1>4. call'[w].op = "store" /\ ~Busy(w)'
  BY <1>2, <1>3 DEF Busy, Calls
<1>5. OverlapsNoted'
  BY <1>2, <1>3, <1>4, NotedKept DEF FInv, Busy
<1>6. OneValue'
  BY <1>3, <1>4 DEF FInv, OneValue, Stores, Busy
<1>7. /\ acked'[g.nci] = IF g.version > acked[g.nci] THEN g.version ELSE acked[g.nci]
      /\ \A c \in Cells \ {g.nci} : acked'[c] = acked[c]
      /\ mem'[g.nci].cell = g
      /\ \A c \in Cells \ {g.nci} : mem'[c] = mem[c]
      /\ \A c \in Cells : acked[c] \in Nat /\ written[c] \in Nat
  BY <1>1, <1>2 DEF storeMemCache, KInv, Types, LevelTypes
<1>8. Bounded'
  <2>1. g.version <= written[g.nci] /\ \A c \in Cells : acked[c] <= written[c]
    BY <1>2 DEF FInv, Bounded
  <2>2. \A c \in Cells : acked'[c] <= written[c]
    BY <1>7, <2>1
  <2>3. ASSUME NEW v \in Workers, Stores(v)', NEW h \in call'[v].vals
        PROVE  h.version <= written[h.nci]
    <3>1. v # w
      BY <1>4, <2>3 DEF Stores
    <3>2. Stores(v) /\ h \in call[v].vals
      BY <1>3, <2>3, <3>1 DEF Stores, Busy
    <3>3. QED BY <3>2 DEF FInv, Bounded
  <2>4. QED BY <1>2, <2>2, <2>3 DEF Bounded
<1>9. ASSUME NEW c \in Cells \ overlapped
      PROVE  LevelFresh(c)' /\ \A v \in Workers : CallFresh(v, c)'
  <2>1. LevelFresh(c) /\ StoreNewest(w, c)
    BY <1>2 DEF FInv, Fresh, CallFresh
  <2>2. c = g.nci => /\ g.version >= acked[c]
                     /\ redis[c] # NoGeometry => redis[c].version >= g.version
    BY <1>2, <2>1 DEF StoreNewest
  <2>3. c = g.nci => acked'[c] = g.version
    BY <1>2, <1>7, <2>2
  <2>4. LevelFresh(c)'
    BY <1>2, <1>7, <2>1, <2>2, <2>3 DEF LevelFresh
  <2>5. CallFresh(w, c)'
    BY <1>4 DEF CallFresh, Looks, Stores
  <2>6. ASSUME NEW v \in Workers \ {w} PROVE CallFresh(v, c)'
    <3>1. CallFresh(v, c) /\ call'[v] = call[v]
      BY <1>3 DEF FInv, Fresh
    <3>2. Busy(v) /\ c = g.nci => c \notin call[v].want /\ \A h \in call[v].vals : h.nci # c
      BY <1>2, Alone
    <3>3. Looks(v)' => LookupFresh(v, c)'
      BY <1>2, <1>7, <3>1, <3>2 DEF CallFresh, Looks, LookupFresh, Busy
    <3>4. Stores(v)' => StoreNewest(v, c)'
      BY <1>2, <1>7, <3>1, <3>2 DEF CallFresh, Stores, StoreNewest, Busy
    <3>5. QED BY <3>3, <3>4 DEF CallFresh
  <2>7. QED BY <2>4, <2>5, <2>6
<1>10. QED BY <1>2, <1>5, <1>6, <1>8, <1>9 DEF FInv, Fresh

LEMMA TickFresh ==
    ASSUME KInv, FInv, Tick
    PROVE  FInv'
<1>1. /\ \A c \in Cells : redis'[c] \in {redis[c], NoGeometry} /\ mem'[c].cell = mem[c].cell
      /\ UNCHANGED <<written, acked, overlapped>>
  BY DEF Tick, KInv, Types, LevelTypes, Entry
<1>2. \A w \in Workers :
        /\ call'[w].op = call[w].op /\ call'[w].pc = call[w].pc /\ call'[w].want = call[w].want
        /\ call'[w].vals = call[w].vals /\ call'[w].found = call[w].found
        /\ call'[w].floor = call[w].floor
  BY DEF Tick, KInv, Types, Calls
<1>3. OverlapsNoted' /\ OneValue' /\ Bounded'
  BY <1>1, <1>2 DEF FInv, OverlapsNoted, OneValue, Bounded, Stores, Busy
<1>4. ASSUME NEW c \in Cells \ overlapped
      PROVE  LevelFresh(c)' /\ \A w \in Workers : CallFresh(w, c)'
  <2>1. LevelFresh(c)'
    BY <1>1 DEF FInv, Fresh, LevelFresh
  <2>2. ASSUME NEW w \in Workers PROVE CallFresh(w, c)'
    <3>1. CallFresh(w, c)
      BY DEF FInv, Fresh
    <3>2. Looks(w)' => LookupFresh(w, c)'
      BY <1>1, <1>2, <3>1 DEF CallFresh, Looks, LookupFresh, Busy
    <3>3. Stores(w)' => StoreNewest(w, c)'
      BY <1>1, <1>2, <3>1 DEF CallFresh, Stores, StoreNewest, Busy
    <3>4. QED BY <3>2, <3>3 DEF CallFresh
  <2>3. QED BY <2>1, <2>2
<1>5. QED BY <1>1, <1>3, <1>4 DEF FInv, Fresh

LEMMA EvictFresh ==
    ASSUME KInv, FInv, Evict
    PROVE  FInv'
<1>1. /\ \A c \in Cells : mem'[c].cell \in {mem[c].cell, NoGeometry}
      /\ UNCHANGED <<redis, call, written, acked, overlapped>>
  BY DEF Evict, NoEntry
<1>2. OverlapsNoted' /\ OneValue' /\ Bounded'
  BY <1>1 DEF FInv, OverlapsNoted, OneValue, Bounded, Stores, Busy
<1>3. Fresh'
  BY <1>1 DEF FInv, Fresh, LevelFresh, CallFresh, Looks, LookupFresh, StoreNewest, Stores, Busy
<1>4. QED BY <1>2, <1>3 DEF FInv

LEMMA FNext == KInv /\ FInv /\ [Next]_vars => FInv'
<1> SUFFICES ASSUME KInv, FInv, [Next]_vars PROVE FInv'
  OBVIOUS
<1>1. CASE UNCHANGED vars
  BY <1>1 DEF vars, FInv, OverlapsNoted, Fresh, LevelFresh, CallFresh, Looks, LookupFresh,
              StoreNewest, OneValue, Bounded, Stores, Busy
<1>2. CASE Tick \/ Evict
  BY <1>2, TickFresh, EvictFresh
<1>3. ASSUME NEW w \in Workers, NEW c \in Cells, GetCellGeometry(w, c) \/ StoreCell(w, c)
      PROVE  FInv'
  BY <1>3, LookUpFresh, StoreCellFresh DEF GetCellGeometry
<1>4. ASSUME NEW w \in Workers, NEW S \in SUBSET Cells, GetMultipleCells(w, S)
      PROVE  FInv'
  BY <1>4, LookUpFresh DEF GetMultipleCells
<1>5. ASSUME NEW w \in Workers,
             RedisGet(w) \/ RedisMGet(w) \/ Fill(w) \/ StoreSet(w) \/ StoreFill(w)
      PROVE  FInv'
  BY <1>5, RedisGetFresh, FillFresh, StoreSetFresh, StoreFillFresh
<1>6. QED BY <1>1, <1>2, <1>3, <1>4, <1>5 DEF Next

-----------------------------------------------------------------------------
\* Types, keys and what each call still has to do agree in every reachable state.
THEOREM StoreInvariance == Spec => []KInv
BY KInit, KNext, PTL DEF Spec

\* GetMultipleCells answers every cell that Redis held during the call, whatever
\* expires, is evicted or stored between its steps.
THEOREM BatchComplete == Spec => []NothingDropped
<1>1. KInv => NothingDropped
  BY DEF KInv, CallsKept, CallKept, Ncis, NothingDropped
<1>2. QED BY <1>1, StoreInvariance, PTL

\* Levels and lookups under way are as new as what was acknowledged, on every cell whose
\* stores overlapped no other call.
THEOREM StoreFresh == Spec => []FInv
BY FInit, FNext, StoreInvariance, PTL DEF Spec

\* A lookup that starts after StoreCell returned sees what it stored or something newer,
\* through both levels, expiries, evictions, lost and half-done SETs.
THEOREM OverwritesSeen == Spec => []OverwriteSeen
<1>1. KInv /\ FInv => OverwriteSeen
  BY DEF KInv, Types, Calls, Geometry, FInv, Fresh, CallFresh, Looks, LookupFresh, OverwriteSeen
<1>2. QED BY <1>1, StoreInvariance, StoreFresh, PTL

LEMMA StoreTyped == KInv /\ FInv => TypeOK
<1> SUFFICES ASSUME KInv, FInv PROVE TypeOK
  OBVIOUS
<1>1. \A c \in Cells : redis[c] \in Geometry \cup {NoGeometry} /\ redisTtl[c] \in 0 .. RedisTTL
  BY DEF KInv, Types, LevelTypes
<1>2. \A c \in Cells : mem[c] \in Entry /\ (mem[c].ttl > 0 => mem[c].cell # NoGeometry)
  BY DEF KInv, Types, LevelTypes, Keyed, Valid
<1>3. ASSUME NEW w \in Workers
      PROVE  /\ call[w].op \in {"none", "get", "multi", "store"}
             /\ call[w].pc \in {"idle", "get", "mget", "set", "fill"}
             /\ call[w].missing \subseteq call[w].want
             /\ call[w].vals \cup call[w].found \subseteq Geometry
  BY DEF KInv, Types, Calls, CallsKept, CallKept
<1>4. \A c \in Cells : acked[c] \in 0 .. written[c]
  BY DEF KInv, Types, LevelTypes, FInv, Bounded
<1>5. QED BY <1>1, <1>2, <1>3, <1>4 DEF TypeOK, KInv, Types, LevelTypes

\* Every reachable state is well typed; nothing is acknowledged that was not handed out.
THEOREM StoreTypes == Spec => []TypeOK
BY StoreTyped, StoreInvariance, StoreFresh, PTL

-----------------------------------------------------------------------------
(* SubscriptionStore.                                                      *)

HIDE CellGeometryAssumption
USE StoresAssumption

\* Between its two writes a subscription is new: nobody knows it, and one call saves it.
Saves(c) == c.pc \in {"set", "sadd"}

Saving ==
    /\ known \subseteq used
    /\ \A w \in Workers :
         /\ subCall[w].pc # "idle" => subCall[w].sub \in used
         /\ Saves(subCall[w]) =>
              /\ subCall[w].sub \notin known
              /\ \A v \in Workers \ {w} : Saves(subCall[v]) => subCall[v].sub # subCall[w].sub

\* What Save stored cannot be unmarshalled: it was marshalled twice.
Unreadable == \A s \in Subs : ~Sub!Unmarshals(subStored[s])

SubInv == Sub!TypeOK /\ Saving /\ Unreadable /\ Sub!Listed

\* A call goes on, or begins, as c.
LEMMA SubCalls ==
    ASSUME Sub!TypeOK, NEW w \in Workers, NEW c \in Sub!Call, subCall' = [subCall EXCEPT ![w] = c]
    PROVE  /\ subCall' \in [Workers -> Sub!Call] /\ subCall'[w] = c
           /\ \A v \in Workers \ {w} : subCall'[v] = subCall[v]
BY DEF Sub!TypeOK

LEMMA SubReplies ==
    ASSUME Sub!TypeOK, NEW w \in Workers, NEW res \in {"ok", "error"}, Sub!Reply(w, res)
    PROVE  /\ subCall' \in [Workers -> Sub!Call]
           /\ subCall'[w].pc = "idle" /\ subCall'[w].sub = subCall[w].sub
           /\ \A v \in Workers \ {w} : subCall'[v] = subCall[v]
<1> DEFINE c == [subCall[w] EXCEPT !.pc = "idle", !.res = res]
<1>1. c \in Sub!Call /\ c.pc = "idle" /\ c.sub = subCall[w].sub
  BY DEF Sub!TypeOK, Sub!Call
<1>2. subCall' = [subCall EXCEPT ![w] = c]
  BY DEF Sub!Reply
<1> HIDE DEF c
<1>3. QED BY <1>1, <1>2, SubCalls

LEMMA SubInit == Sub!Init => SubInv
<1> SUFFICES ASSUME Sub!Init PROVE SubInv
  OBVIOUS
<1>1. Sub!TypeOK
  BY DEF Sub!Init, Sub!TypeOK, Sub!Call, Sub!SubscriptionAssumption
<1>2. QED BY <1>1
      DEF Sub!Init, SubInv, Saving, Saves, Unreadable, Sub!Unmarshals, Sub!Listed

\* Requests store nothing.
LEMMA SubRequest ==
    ASSUME SubInv, NEW w \in Workers, NEW s \in Subs,
           Sub!Subscribe(w, s) \/ Sub!Unsubscribe(w, s) \/ Sub!GetSubscription(w, s)
    PROVE  SubInv'
<1>1. PICK op \in {"subscribe", "unsubscribe", "get"}, pc \in {"set", "read"} :
         /\ Sub!Begin(w, op, s, pc)
         /\ pc = "set" => s \notin used /\ used' = used \cup {s}
         /\ pc = "read" => s \in known /\ used' = used
  BY DEF Sub!Subscribe, Sub!Unsubscribe, Sub!GetSubscription
<1> DEFINE c == [op |-> op, pc |-> pc, sub |-> s, res |-> "none"]
<1>2. c \in Sub!Call /\ c.pc = pc /\ c.sub = s
  BY DEF Sub!Call
<1>3. /\ subCall' = [subCall EXCEPT ![w] = c] /\ subCall[w].pc = "idle"
      /\ UNCHANGED <<subStored, subTtl, supiSubs, supiTtl, known>>
      /\ subRequests > 0 /\ subRequests' = subRequests - 1
  BY <1>1 DEF Sub!Begin
<1> HIDE DEF c
<1>4. /\ subCall' \in [Workers -> Sub!Call] /\ subCall'[w] = c
      /\ \A v \in Workers \ {w} : subCall'[v] = subCall[v]
  BY <1>2, <1>3, SubCalls DEF SubInv
<1>5. Sub!TypeOK'
  BY <1>1, <1>3, <1>4 DEF SubInv, Sub!TypeOK, Sub!SubscriptionAssumption
<1>6. Saving'
  BY <1>1, <1>2, <1>3, <1>4 DEF SubInv, Saving, Saves
<1>7. QED BY <1>3, <1>5, <1>6 DEF SubInv, Unreadable, Sub!Unmarshals, Sub!Listed

\* A call that saves a new subscription, or ends, leaves the known ones to themselves.
LEMMA SavingKept ==
    ASSUME SubInv, NEW w \in Workers, UNCHANGED used, known' \subseteq known \cup {subCall[w].sub},
           \A v \in Workers \ {w} : subCall'[v] = subCall[v],
           subCall'[w].sub = subCall[w].sub, Saves(subCall[w])' => Saves(subCall[w]),
           subCall[w].pc # "idle",
           known' # known => Saves(subCall[w]) /\ ~Saves(subCall[w])'
    PROVE  Saving'
<1>1. known' \subseteq used
  BY DEF SubInv, Saving
<1>2. ASSUME NEW v \in Workers, subCall'[v].pc # "idle" PROVE subCall'[v].sub \in used
  BY <1>2 DEF SubInv, Saving
<1>3. ASSUME NEW v \in Workers, Saves(subCall'[v]) 
      PROVE  /\ subCall'[v].sub \notin known'
             /\ \A u \in Workers \ {v} : Saves(subCall'[u]) => subCall'[u].sub # subCall'[v].sub
  BY <1>3 DEF SubInv, Saving, Saves
<1>4. QED BY <1>1, <1>2, <1>3 DEF Saving

LEMMA SubSaveKey ==
    ASSUME SubInv, NEW w \in Workers, Sub!SaveKey(w)
    PROVE  SubInv'
<1> DEFINE s == subCall[w].sub
<1>1. /\ subCall[w].pc = "set" /\ s \in Subs /\ s \notin known
      /\ UNCHANGED <<supiSubs, supiTtl, subRequests, used, known>>
  BY DEF Sub!SaveKey, SubInv, Saving, Saves, Sub!TypeOK
<1>2. /\ subCall' \in [Workers -> Sub!Call]
      /\ subCall'[w].pc \in {"idle", "sadd"} /\ subCall'[w].sub = s
      /\ \A v \in Workers \ {w} : subCall'[v] = subCall[v]
  <2>1. CASE \E res \in {"error"} : Sub!Reply(w, res)
    BY <2>1, SubReplies DEF SubInv
  <2>2. CASE subCall' = [subCall EXCEPT ![w].pc = "sadd"]
    <3> DEFINE c == [subCall[w] EXCEPT !.pc = "sadd"]
    <3>1. c \in Sub!Call /\ c.pc = "sadd" /\ c.sub = s
      BY DEF SubInv, Sub!TypeOK, Sub!Call
    <3>2. subCall' = [subCall EXCEPT ![w] = c]
      BY <2>2
    <3> HIDE DEF c
    <3>3. QED BY <3>1, <3>2, SubCalls DEF SubInv
  <2>3. QED BY <2>1, <2>2 DEF Sub!SaveKey
<1>3. /\ subStored' \in [Subs -> 0 .. 2] /\ subTtl' \in [Subs -> 0 .. SubTTL]
      /\ subStored'[s] \in {subStored[s], 2}
      /\ \A z \in Subs \ {s} : subStored'[z] = subStored[z] /\ subTtl'[z] = subTtl[z]
  BY <1>1 DEF Sub!SaveKey, Sub!SetJSON, Sub!Marshal, SubInv, Sub!TypeOK, Sub!SubscriptionAssumption
<1>4. Sub!TypeOK'
  BY <1>1, <1>2, <1>3 DEF SubInv, Sub!TypeOK
<1>5. Saving'
  BY <1>1, <1>2, SavingKept DEF Saves
<1>6. Unreadable'
  BY <1>1, <1>3 DEF SubInv, Unreadable, Sub!Unmarshals
<1>7. Sub!Listed'
  BY <1>1, <1>3 DEF SubInv, Sub!Listed, Sub!TypeOK
<1>8. QED BY <1>4, <1>5, <1>6, <1>7 DEF SubInv

LEMMA SubSaveIndex ==
    ASSUME SubInv, NEW w \in Workers, Sub!SaveIndex(w)
    PROVE  SubInv'
<1> DEFINE s == subCall[w].sub
           u == SupiOf[s]
<1>1. /\ subCall[w].pc = "sadd" /\ s \in Subs /\ s \notin known /\ s \in used
      /\ UNCHANGED <<subStored, subTtl, subRequests, used>>
      /\ \A z \in Subs : SupiOf[z] \in Supis
      /\ SubTTL \in Nat
  BY DEF Sub!SaveIndex, SubInv, Saving, Saves, Sub!TypeOK, Sub!SubscriptionAssumption
<1>2. PICK res \in {"ok", "error"} :
         /\ Sub!Reply(w, res)
         /\ res = "ok" => Sub!SetAdd(s) /\ known' = known \cup {s}
         /\ res = "error" => known' = known /\ (Sub!SetAdd(s) \/ UNCHANGED <<supiSubs, supiTtl>>)
  BY DEF Sub!SaveIndex
<1>3. /\ subCall' \in [Workers -> Sub!Call]
      /\ subCall'[w].pc = "idle" /\ subCall'[w].sub = s
      /\ \A v \in Workers \ {w} : subCall'[v] = subCall[v]
  BY <1>2, SubReplies DEF SubInv
<1>4. /\ supiSubs' \in [Supis -> SUBSET Subs] /\ supiTtl' \in [Supis -> 0 .. SubTTL]
      /\ \A x \in Supis : supiSubs[x] \subseteq supiSubs'[x] /\ supiTtl'[x] >= supiTtl[x]
      /\ s \in known' => s \in supiSubs'[u] /\ supiTtl'[u] = SubTTL
  BY <1>1, <1>2 DEF Sub!SetAdd, SubInv, Sub!TypeOK
<1>5. known' \subseteq known \cup {s}
  BY <1>2
<1>6. Sub!TypeOK'
  BY <1>1, <1>2, <1>3, <1>4 DEF SubInv, Sub!TypeOK
<1>7. Saving'
  BY <1>1, <1>3, <1>5, SavingKept DEF Saves
<1>8. Sub!Listed'
  <2> SUFFICES ASSUME NEW z \in known', subStored[z] # 0
               PROVE  z \in supiSubs'[SupiOf[z]] /\ supiTtl'[SupiOf[z]] >= subTtl[z]
    BY <1>1 DEF Sub!Listed
  <2>1. z \in Subs /\ subTtl[z] \in 0 .. SubTTL /\ SupiOf[z] \in Supis
    BY <1>1, <1>6 DEF SubInv, Sub!TypeOK
  <2>2. CASE z = s
    BY <1>1, <1>4, <2>1, <2>2
  <2>3. CASE z # s
    <3>1. z \in supiSubs[SupiOf[z]] /\ supiTtl[SupiOf[z]] >= subTtl[z]
      BY <1>5, <2>3 DEF SubInv, Sub!Listed
    <3>2. /\ supiTtl[SupiOf[z]] \in 0 .. SubTTL /\ supiTtl'[SupiOf[z]] \in 0 .. SubTTL
      BY <1>4, <2>1 DEF SubInv, Sub!TypeOK
    <3>3. QED BY <1>1, <1>4, <2>1, <3>1, <3>2
  <2>4. QED BY <2>2, <2>3
<1>9. QED BY <1>1, <1>6, <1>7, <1>8 DEF SubInv, Unreadable

\* No read finds what it can unmarshal, so every Get and Delete ends with an error.
LEMMA SubRead ==
    ASSUME SubInv, NEW w \in Workers, Sub!Read(w)
    PROVE  SubInv'
<1>1. /\ subCall[w].pc = "read" /\ subCall[w].sub \in Subs
      /\ UNCHANGED <<supiTtl, subRequests, used, known>>
  BY DEF Sub!Read, SubInv, Saving, Sub!TypeOK
<1>2. Sub!Reply(w, "error") /\ UNCHANGED <<subStored, subTtl, supiSubs>>
  BY <1>1 DEF Sub!Read, SubInv, Unreadable
<1>3. /\ subCall' \in [Workers -> Sub!Call]
      /\ subCall'[w].pc = "idle" /\ subCall'[w].sub = subCall[w].sub
      /\ \A v \in Workers \ {w} : subCall'[v] = subCall[v]
  BY <1>2, SubReplies DEF SubInv
<1>4. Sub!TypeOK'
  BY <1>1, <1>2, <1>3 DEF SubInv, Sub!TypeOK
<1>5. Saving'
  BY <1>1, <1>3, SavingKept DEF Saves
<1>6. QED BY <1>1, <1>2, <1>4, <1>5 DEF SubInv, Unreadable, Sub!Listed

LEMMA SubTick == SubInv /\ Sub!Tick => SubInv'
<1> SUFFICES ASSUME SubInv, Sub!Tick PROVE SubInv'
  OBVIOUS
<1>1. /\ UNCHANGED <<subCall, subRequests, used, known>>
      /\ subTtl \in [Subs -> 0 .. SubTTL] /\ supiTtl \in [Supis -> 0 .. SubTTL]
      /\ SubTTL \in Nat /\ \A s \in Subs : SupiOf[s] \in Supis
      /\ known \subseteq Subs
  BY DEF Sub!Tick, SubInv, Sub!TypeOK, Sub!SubscriptionAssumption
<1>2. /\ \A s \in Subs : subTtl'[s] = (IF subTtl[s] = 0 THEN 0 ELSE subTtl[s] - 1)
                          /\ subStored'[s] = (IF subTtl[s] <= 1 THEN 0 ELSE subStored[s])
      /\ \A u \in Supis : supiTtl'[u] = (IF supiTtl[u] = 0 THEN 0 ELSE supiTtl[u] - 1)
                          /\ supiSubs'[u] = (IF supiTtl[u] <= 1 THEN {} ELSE supiSubs[u])
  BY DEF Sub!Tick
<1>3. Sub!TypeOK'
  BY <1>1, <1>2 DEF SubInv, Sub!TypeOK, Sub!Tick
<1>4. Unreadable'
  BY <1>2 DEF SubInv, Unreadable, Sub!Unmarshals
<1>5. Sub!Listed'
  <2> SUFFICES ASSUME NEW s \in known, subStored'[s] # 0
               PROVE  s \in supiSubs'[SupiOf[s]] /\ supiTtl'[SupiOf[s]] >= subTtl'[s]
    BY <1>1 DEF Sub!Listed
  <2>1. subTtl[s] > 1 /\ subStored[s] # 0
    BY <1>1, <1>2
  <2>2. s \in supiSubs[SupiOf[s]] /\ supiTtl[SupiOf[s]] >= subTtl[s]
    BY <2>1 DEF SubInv, Sub!Listed
  <2>3. QED BY <1>1, <1>2, <2>1, <2>2
<1>6. QED BY <1>1, <1>3, <1>4, <1>5 DEF SubInv, Saving, Saves

LEMMA SubNext == SubInv /\ [Sub!Next]_Sub!vars => SubInv'
<1>1. SubInv /\ UNCHANGED Sub!vars => SubInv'
  BY DEF Sub!vars, SubInv, Sub!TypeOK, Saving, Saves, Unreadable, Sub!Unmarshals, Sub!Listed
<1>2. QED BY <1>1, SubRequest, SubSaveKey, SubSaveIndex, SubRead, SubTick DEF Sub!Next

\* Types, calls under way, encodings and the index of the subscriptions agree in every
\* reachable state.
THEOREM SubscriptionInvariance == Sub!Spec => []SubInv
BY SubInit, SubNext, PTL DEF Sub!Spec

\* A subscription that Subscribe returned stays in the set of its SUPI as long as its key
\* lives, for any number of subscriptions of the SUPI, handlers and failures.
THEOREM SubscriptionsListed == Sub!Spec => []Listed
<1>1. SubInv => Listed
  BY DEF SubInv, Listed
<1>2. QED BY <1>1, SubscriptionInvariance, PTL

\* Save encodes twice and Get decodes once: no stored subscription can ever be read back,
\* so no Get and no Unsubscribe ever succeeds.
THEOREM NothingReadBack == Sub!Spec => []Unreadable
<1>1. SubInv => Unreadable
  BY DEF SubInv
<1>2. QED BY <1>1, SubscriptionInvariance, PTL

-----------------------------------------------------------------------------
(* KalmanTracker.                                                          *)

\* A filter is as old as its session has been quiet, and the last cleanup left none that
\* was older than the TTL.
Aged(s) ==
    /\ filters[s] # Track!NoFilter => quiet[s] = filters[s].age
    /\ filters[s] # Track!NoFilter => filters[s].age <= TrackTTL + sinceCleanup
    /\ filters[s] = Track!NoFilter => quiet[s] > TrackTTL

Among(s) == filters[s] # Track!NoFilter =>
                \E low, high \in seen[s] : low <= filters[s].pos /\ filters[s].pos <= high

TrackInv == Track!TypeOK /\ \A s \in TrackSessions : Aged(s) /\ Among(s)

Filter == [pos : Track!Positions, age : 0 .. TrackTTL + CleanupPeriod]

LEMMA TrackTypes ==
    ASSUME Track!TypeOK
    PROVE  /\ TrackTTL \in Nat /\ TrackTTL > 0 /\ CleanupPeriod \in Nat /\ CleanupPeriod > 0
           /\ MaxPosition \in Nat /\ sinceCleanup \in 0 .. CleanupPeriod
           /\ \A s \in TrackSessions :
                /\ filters[s] \in Filter \cup {Track!NoFilter}
                /\ quiet[s] \in 0 .. TrackTTL + CleanupPeriod + 1
                /\ seen[s] \subseteq Track!Positions
BY DEF Track!TypeOK, Track!TrackerAssumption, Filter, Track!LongAgo

LEMMA FilterShape ==
    ASSUME Track!TypeOK, NEW f \in Filter
    PROVE  f.pos \in Nat /\ f.age \in Nat /\ f # Track!NoFilter
BY TrackTypes DEF Filter, Track!Positions, Track!NoFilter

LEMMA TrackInit == Track!Init => TrackInv
<1> SUFFICES ASSUME Track!Init PROVE TrackInv
  OBVIOUS
<1>1. Track!TypeOK
  BY DEF Track!Init, Track!TypeOK, Track!TrackerAssumption, Track!LongAgo
<1>2. QED BY <1>1, TrackTypes DEF Track!Init, TrackInv, Aged, Among, Track!LongAgo

LEMMA FuseKeeps ==
    ASSUME TrackInv, NEW s \in TrackSessions, NEW z \in Track!Positions, Track!FusePositions(s, z)
    PROVE  TrackInv'
<1>1. PICK entry \in Track!Update(filters[s], z) : filters' = [filters EXCEPT ![s] = entry]
  BY DEF Track!FusePositions
<1>2. /\ TrackTTL \in Nat /\ CleanupPeriod \in Nat /\ MaxPosition \in Nat
      /\ filters[s] \in Filter \cup {Track!NoFilter} /\ seen[s] \subseteq Track!Positions
      /\ z \in Nat
  BY TrackTypes DEF TrackInv, Track!Positions
<1>3. /\ entry \in Filter /\ entry.age = 0
      /\ filters[s] = Track!NoFilter => entry.pos = z
      /\ filters[s] # Track!NoFilter =>
           \/ filters[s].pos <= entry.pos /\ entry.pos <= z
           \/ z <= entry.pos /\ entry.pos <= filters[s].pos
  BY <1>2 DEF Track!Update, Track!NewKalmanFilter, Track!Between, Filter
<1>4. entry.pos \in Nat /\ entry # Track!NoFilter
  BY <1>3, FilterShape DEF TrackInv
<1>5. /\ filters'[s] = entry /\ quiet'[s] = 0 /\ UNCHANGED sinceCleanup
      /\ seen'[s] = (IF filters[s] = Track!NoFilter THEN {z} ELSE seen[s] \cup {z})
      /\ \A x \in TrackSessions \ {s} :
           filters'[x] = filters[x] /\ quiet'[x] = quiet[x] /\ seen'[x] = seen[x]
  BY <1>1 DEF Track!FusePositions, TrackInv, Track!TypeOK
<1>6. Track!TypeOK'
  <2>1. /\ filters' \in [TrackSessions -> Filter \cup {Track!NoFilter}]
        /\ seen' \in [TrackSessions -> SUBSET Track!Positions]
        /\ quiet' \in [TrackSessions -> 0 .. Track!LongAgo]
    BY <1>1, <1>2, <1>3 DEF Track!FusePositions, TrackInv, Track!TypeOK, Filter, Track!LongAgo
  <2>2. QED BY <1>5, <2>1 DEF TrackInv, Track!TypeOK, Filter
<1>7. Aged(s)'
  BY <1>2, <1>3, <1>4, <1>5, TrackTypes DEF Aged, TrackInv
<1>8. Among(s)'
  <2>1. CASE filters[s] = Track!NoFilter
    BY <1>2, <1>3, <1>5, <2>1 DEF Among
  <2>2. CASE filters[s] # Track!NoFilter
    <3>1. PICK low, high \in seen[s] : low <= filters[s].pos /\ filters[s].pos <= high
      BY <2>2 DEF TrackInv, Among
    <3>2. low \in Nat /\ high \in Nat /\ filters[s].pos \in Nat
      BY <1>2, <2>2, FilterShape DEF TrackInv, Track!Positions
    <3>3. \E l, h \in seen[s] \cup {z} : l <= entry.pos /\ entry.pos <= h
      BY <1>2, <1>3, <1>4, <2>2, <3>1, <3>2
    <3>4. QED BY <1>5, <2>2, <3>3 DEF Among
  <2>3. QED BY <2>1, <2>2
<1>9. QED BY <1>5, <1>6, <1>7, <1>8 DEF TrackInv, Aged, Among

LEMMA CleanupKeeps == TrackInv /\ Track!CleanupLoop => TrackInv'
<1> SUFFICES ASSUME TrackInv, Track!CleanupLoop PROVE TrackInv'
  OBVIOUS
<1>1. /\ UNCHANGED quiet /\ sinceCleanup' = 0
      /\ \A s \in TrackSessions :
           /\ filters'[s] = (IF filters[s].age > TrackTTL THEN Track!NoFilter ELSE filters[s])
           /\ seen'[s] = (IF filters[s].age > TrackTTL THEN {} ELSE seen[s])
  BY DEF Track!CleanupLoop
<1>2. Track!TypeOK'
  <2>1. /\ filters' \in [TrackSessions -> Filter \cup {Track!NoFilter}]
        /\ seen' \in [TrackSessions -> SUBSET Track!Positions]
    BY DEF Track!CleanupLoop, TrackInv, Track!TypeOK, Filter
  <2>2. QED BY <1>1, <2>1, TrackTypes DEF TrackInv, Track!TypeOK, Filter
<1>3. ASSUME NEW s \in TrackSessions PROVE Aged(s)' /\ Among(s)'
  <2>1. filters[s] \in Filter \cup {Track!NoFilter} /\ Aged(s) /\ Among(s)
        /\ TrackTTL \in Nat /\ quiet[s] \in Nat
    BY TrackTypes DEF TrackInv
  <2>2. CASE filters[s] = Track!NoFilter
    BY <1>1, <2>1, <2>2 DEF Track!NoFilter, Aged, Among
  <2>3. CASE filters[s] \in Filter
    <3>1. filters[s].age \in Nat /\ filters[s] # Track!NoFilter
      BY <2>3, FilterShape DEF TrackInv
    <3>2. QED BY <1>1, <2>1, <2>3, <3>1 DEF Aged, Among
  <2>4. QED BY <2>1, <2>2, <2>3
<1>4. QED BY <1>2, <1>3 DEF TrackInv

LEMMA TrackTick == TrackInv /\ Track!Tick => TrackInv'
<1> SUFFICES ASSUME TrackInv, Track!Tick PROVE TrackInv'
  OBVIOUS
<1>1. /\ UNCHANGED seen /\ sinceCleanup < CleanupPeriod /\ sinceCleanup' = sinceCleanup + 1
      /\ \A s \in TrackSessions :
           /\ filters'[s] = (IF filters[s] = Track!NoFilter THEN Track!NoFilter
                             ELSE [filters[s] EXCEPT !.age = @ + 1])
           /\ quiet'[s] = (IF quiet[s] = Track!LongAgo THEN Track!LongAgo ELSE quiet[s] + 1)
      /\ filters' = [s \in TrackSessions |-> filters'[s]]
      /\ quiet' = [s \in TrackSessions |-> quiet'[s]]
  BY DEF Track!Tick
<1>2. ASSUME NEW s \in TrackSessions
      PROVE  /\ Aged(s)' /\ Among(s)'
             /\ filters'[s] \in Filter \cup {Track!NoFilter}
             /\ quiet'[s] \in 0 .. Track!LongAgo
  <2>1. /\ filters[s] \in Filter \cup {Track!NoFilter} /\ Aged(s) /\ Among(s)
        /\ TrackTTL \in Nat /\ CleanupPeriod \in Nat /\ sinceCleanup \in 0 .. CleanupPeriod
        /\ quiet[s] \in 0 .. TrackTTL + CleanupPeriod + 1
    BY TrackTypes DEF TrackInv
  <2>2. CASE filters[s] = Track!NoFilter
    BY <1>1, <2>1, <2>2 DEF Aged, Among, Track!LongAgo
  <2>3. CASE filters[s] \in Filter
    <3>1. filters[s].age \in Nat /\ filters[s] # Track!NoFilter
      BY <2>3, FilterShape DEF TrackInv
    <3>2. /\ filters'[s].age = filters[s].age + 1 /\ filters'[s].pos = filters[s].pos
          /\ filters[s].age + 1 <= TrackTTL + CleanupPeriod
          /\ filters'[s] \in Filter
      BY <1>1, <2>1, <2>3, <3>1 DEF Aged, Filter
    <3>3. filters'[s] # Track!NoFilter
      BY <3>2, FilterShape DEF TrackInv
    <3>4. quiet[s] = filters[s].age /\ quiet'[s] = quiet[s] + 1
      BY <1>1, <2>1, <3>1, <3>2 DEF Aged, Track!LongAgo
    <3>5. QED BY <1>1, <2>1, <3>1, <3>2, <3>3, <3>4 DEF Aged, Among, Track!LongAgo
  <2>4. QED BY <2>1, <2>2, <2>3
<1>3. Track!TypeOK'
  <2>1. /\ filters' \in [TrackSessions -> Filter \cup {Track!NoFilter}]
        /\ quiet' \in [TrackSessions -> 0 .. Track!LongAgo]
    BY <1>1, <1>2
  <2>2. sinceCleanup' \in 0 .. CleanupPeriod
    BY <1>1, TrackTypes DEF TrackInv
  <2>3. QED BY <1>1, <2>1, <2>2 DEF TrackInv, Track!TypeOK, Filter
<1>4. QED BY <1>2, <1>3 DEF TrackInv

LEMMA TrackNext == TrackInv /\ [Track!Next]_Track!vars => TrackInv'
<1>1. TrackInv /\ UNCHANGED Track!vars => TrackInv'
  BY DEF Track!vars, TrackInv, Track!TypeOK, Aged, Among
<1>2. QED BY <1>1, FuseKeeps, CleanupKeeps, TrackTick DEF Track!Next

\* Types, the ages of the filters and where they stand agree in every reachable state.
THEOREM TrackInvariance == Track!Spec => []TrackInv
BY TrackInit, TrackNext, PTL DEF Track!Spec

\* A session whose estimates come no more than the TTL apart keeps its filter, a silent one
\* loses it by the next cleanup, and the filter stays among its own session's estimates;
\* for every gain, TTL and period of the cleanup.
THEOREM TracksOwn == Track!Spec => []OwnTrack
<1>1. TrackInv => OwnTrack
  <2> SUFFICES ASSUME TrackInv, NEW s \in TrackSessions
               PROVE  /\ quiet[s] <= TrackTTL => filters[s] # Track!NoFilter
                      /\ quiet[s] = Track!LongAgo => filters[s] = Track!NoFilter
                      /\ Among(s)
    BY DEF OwnTrack, Track!OwnTrack, Among
  <2>1. /\ filters[s] \in Filter \cup {Track!NoFilter} /\ Aged(s) /\ Among(s)
        /\ TrackTTL \in Nat /\ CleanupPeriod \in Nat /\ sinceCleanup \in 0 .. CleanupPeriod
        /\ quiet[s] \in 0 .. TrackTTL + CleanupPeriod + 1
    BY TrackTypes DEF TrackInv
  <2>2. CASE filters[s] = Track!NoFilter
    BY <2>1, <2>2 DEF Aged
  <2>3. CASE filters[s] \in Filter
    <3>1. filters[s].age \in Nat /\ filters[s] # Track!NoFilter
      BY <2>3, FilterShape DEF TrackInv
    <3>2. QED BY <2>1, <3>1 DEF Aged, Track!LongAgo
  <2>4. QED BY <2>1, <2>2, <2>3
<1>2. QED BY <1>1, TrackInvariance, PTL

-----------------------------------------------------------------------------
(* GnssAssistance.                                                         *)

GnssCalls == [pc : {"idle", "get", "fetch"}, asked : SUBSET Gnss!Names,
              left : Seq(Gnss!DataTypes), eph : SUBSET Gnss!Generated,
              res : {"none", "ok", "error"}]

\* No list, or one with GPS in it, if the clients include GPS.
WithGPS(eph) == Gnss!ClientsIncludeGps => eph = {} \/ Gnss!ConstellationGPS \in eph

GnssCallOk(c) ==
    /\ c.pc # "idle" => c.asked \in Asked /\ c.left # <<>>
    /\ WithGPS(c.eph)

GnssInv ==
    /\ Gnss!TypeOK
    /\ gnssCall \in [Workers -> GnssCalls]
    /\ WithGPS(gnssCached)
    /\ \A w \in Workers : GnssCallOk(gnssCall[w])

LEMMA GnssConstants ==
    /\ Asked \subseteq SUBSET Gnss!Names
    /\ TypeLists \subseteq Seq(Gnss!DataTypes) \ {<<>>}
    /\ \A dt \in Gnss!DataTypes : Gnss!TTLFor[dt] \in Nat /\ Gnss!TTLFor[dt] > 0
    /\ MaxFaults \in Nat /\ GnssRequests \in Nat
    /\ \A asked \in Asked : WithGPS(Gnss!Ephemerides(asked))
<1>1. Gnss!ConstellationGPS \in Gnss!Generated
  BY DEF Gnss!Generated
<1>2. QED BY <1>1 DEF Gnss!GnssAssistanceAssumption, Gnss!ClientsIncludeGps, WithGPS, Gnss!Ephemerides

LEMMA GnssInit == Gnss!Init => GnssInv
<1> SUFFICES ASSUME Gnss!Init PROVE GnssInv
  OBVIOUS
<1>1. gnssCached \in SUBSET Gnss!Generated /\ WithGPS(gnssCached)
  BY GnssConstants DEF Gnss!Init, Gnss!Ephemerides, WithGPS, Gnss!Generated
<1>2. gnssCall \in [Workers -> GnssCalls] /\ \A w \in Workers : GnssCallOk(gnssCall[w])
  <2> DEFINE idle == Gnss!Idle
  <2>1. idle \in GnssCalls /\ GnssCallOk(idle)
    BY DEF Gnss!Idle, GnssCalls, GnssCallOk, WithGPS
  <2> HIDE DEF idle
  <2>2. gnssCall = [w \in Workers |-> idle]
    BY DEF Gnss!Init, idle
  <2>3. QED BY <2>1, <2>2
<1>3. Gnss!TypeOK
  <2>1. /\ gnssTtl \in [Gnss!DataTypes -> Nat]
        /\ \A dt \in Gnss!DataTypes : gnssTtl[dt] <= Gnss!TTLFor[dt]
        /\ gnssCached # {} <=> gnssTtl["ephemeris"] > 0
    BY GnssConstants DEF Gnss!Init, Gnss!DataTypes, Gnss!TTLFor
  <2>2. QED BY <1>1, <1>2, <2>1, GnssConstants DEF Gnss!Init, Gnss!TypeOK, GnssCalls
<1>4. QED BY <1>1, <1>2, <1>3 DEF GnssInv

\* A call becomes c, which asks what clients ask and holds GPS if it holds anything.
LEMMA GnssCallStep ==
    ASSUME GnssInv, NEW w \in Workers, NEW c \in GnssCalls, GnssCallOk(c),
           gnssCall' = [gnssCall EXCEPT ![w] = c]
    PROVE  gnssCall' \in [Workers -> GnssCalls] /\ \A v \in Workers : GnssCallOk(gnssCall'[v])
BY DEF GnssInv

LEMMA GnssAnswered ==
    ASSUME GnssInv, NEW w \in Workers, NEW c \in GnssCalls, c.left # <<>>, c.asked \in Asked,
           WithGPS(c.eph), Gnss!Answered(w, c)
    PROVE  gnssCall' \in [Workers -> GnssCalls] /\ \A v \in Workers : GnssCallOk(gnssCall'[v])
<1> DEFINE rest == Tail(c.left)
           d == [c EXCEPT !.left = rest, !.pc = IF rest = <<>> THEN "idle" ELSE "get",
                          !.res = IF rest = <<>> THEN "ok" ELSE "none"]
<1>1. rest \in Seq(Gnss!DataTypes)
  BY DEF GnssCalls
<1>2. gnssCall' = [gnssCall EXCEPT ![w] = d]
  BY DEF Gnss!Answered
<1> HIDE DEF rest
<1>3. d \in GnssCalls /\ GnssCallOk(d)
  BY <1>1 DEF GnssCalls, GnssCallOk
<1> HIDE DEF d
<1>4. QED BY <1>2, <1>3, GnssCallStep

LEMMA GnssCacheSet ==
    ASSUME GnssInv, NEW dt \in Gnss!DataTypes, NEW eph \in SUBSET Gnss!Generated,
           dt = "ephemeris" => eph # {} /\ WithGPS(eph), Gnss!CacheSet(dt, eph)
    PROVE  /\ gnssCached' \in SUBSET Gnss!Generated /\ WithGPS(gnssCached)'
           /\ gnssTtl' \in [Gnss!DataTypes -> Nat]
           /\ \A d \in Gnss!DataTypes : gnssTtl'[d] <= Gnss!TTLFor[d]
           /\ gnssCached' # {} <=> gnssTtl'["ephemeris"] > 0
           /\ faults' \in 0 .. MaxFaults
<1>1. /\ gnssTtl \in [Gnss!DataTypes -> Nat] /\ "ephemeris" \in Gnss!DataTypes
      /\ \A d \in Gnss!DataTypes : gnssTtl[d] <= Gnss!TTLFor[d]
      /\ gnssCached # {} <=> gnssTtl["ephemeris"] > 0
      /\ gnssCached \in SUBSET Gnss!Generated /\ WithGPS(gnssCached)
      /\ faults \in 0 .. MaxFaults /\ MaxFaults \in Nat
  BY GnssConstants DEF GnssInv, Gnss!TypeOK, Gnss!DataTypes
<1>2. CASE UNCHANGED <<gnssCached, gnssTtl>> /\ faults > 0 /\ faults' = faults - 1
  BY <1>1, <1>2
<1>3. CASE /\ gnssTtl' = [gnssTtl EXCEPT ![dt] = Gnss!TTLFor[dt]]
           /\ gnssCached' = IF dt = "ephemeris" THEN eph ELSE gnssCached
           /\ UNCHANGED faults
  <2>1. /\ gnssTtl'[dt] = Gnss!TTLFor[dt] /\ Gnss!TTLFor[dt] \in Nat /\ Gnss!TTLFor[dt] > 0
        /\ \A d \in Gnss!DataTypes \ {dt} : gnssTtl'[d] = gnssTtl[d]
        /\ gnssTtl' \in [Gnss!DataTypes -> Nat]
    BY <1>1, <1>3, GnssConstants
  <2>2. CASE dt = "ephemeris"
    BY <1>1, <1>3, <2>1, <2>2
  <2>3. CASE dt # "ephemeris"
    BY <1>1, <1>3, <2>1, <2>3
  <2>4. QED BY <2>2, <2>3
<1>4. QED BY <1>2, <1>3 DEF Gnss!CacheSet

LEMMA GnssRequest ==
    ASSUME GnssInv, NEW w \in Workers, NEW asked \in Asked, NEW types \in TypeLists,
           Gnss!Request(w, asked, types)
    PROVE  GnssInv'
<1> DEFINE c == [Gnss!Idle EXCEPT !.pc = "get", !.asked = asked, !.left = types]
<1>1. c \in GnssCalls /\ GnssCallOk(c)
  BY GnssConstants DEF Gnss!Idle, GnssCalls, GnssCallOk, WithGPS
<1>2. gnssCall' = [gnssCall EXCEPT ![w] = c]
  BY DEF Gnss!Request
<1> HIDE DEF c
<1>3. gnssCall' \in [Workers -> GnssCalls] /\ \A v \in Workers : GnssCallOk(gnssCall'[v])
  BY <1>1, <1>2, GnssCallStep
<1>4. gnssRequests' \in 0 .. GnssRequests /\ UNCHANGED <<gnssCached, gnssTtl, refresh, faults>>
  BY GnssConstants DEF Gnss!Request, GnssInv, Gnss!TypeOK
<1>5. QED BY <1>3, <1>4 DEF GnssInv, Gnss!TypeOK, GnssCalls

LEMMA GnssGet ==
    ASSUME GnssInv, NEW w \in Workers, Gnss!Get(w)
    PROVE  GnssInv'
<1> DEFINE c == gnssCall[w]
<1>1. /\ c \in GnssCalls /\ c.pc = "get" /\ c.left # <<>> /\ c.asked \in Asked /\ WithGPS(c.eph)
      /\ UNCHANGED <<gnssCached, gnssTtl, refresh, gnssRequests>>
      /\ gnssCached \in SUBSET Gnss!Generated /\ WithGPS(gnssCached)
  BY DEF Gnss!Get, GnssInv, GnssCallOk, Gnss!TypeOK
<1>2. gnssCall' \in [Workers -> GnssCalls] /\ \A v \in Workers : GnssCallOk(gnssCall'[v])
  <2>1. CASE gnssCall' = [gnssCall EXCEPT ![w].pc = "fetch"]
    <3> DEFINE d == [c EXCEPT !.pc = "fetch"]
    <3>1. d \in GnssCalls /\ GnssCallOk(d)
      BY <1>1 DEF GnssCalls, GnssCallOk
    <3>2. gnssCall' = [gnssCall EXCEPT ![w] = d]
      BY <2>1
    <3> HIDE DEF d
    <3>3. QED BY <3>1, <3>2, GnssCallStep
  <2>2. CASE Gnss!Answered(w, c)
    BY <1>1, <2>2, GnssAnswered
  <2>3. CASE Gnss!Answered(w, [c EXCEPT !.eph = gnssCached])
    <3> DEFINE d == [c EXCEPT !.eph = gnssCached]
    <3>1. d \in GnssCalls /\ d.left # <<>> /\ d.asked \in Asked /\ WithGPS(d.eph)
      BY <1>1 DEF GnssCalls
    <3>2. Gnss!Answered(w, d)
      BY <2>3
    <3> HIDE DEF d
    <3>3. QED BY <3>1, <3>2, GnssAnswered
  <2>4. QED BY <2>1, <2>2, <2>3 DEF Gnss!Get
<1>3. faults' \in 0 .. MaxFaults
  BY GnssConstants DEF Gnss!Get, GnssInv, Gnss!TypeOK
<1>4. QED BY <1>1, <1>2, <1>3 DEF GnssInv, Gnss!TypeOK, GnssCalls

LEMMA GnssFetch ==
    ASSUME GnssInv, NEW w \in Workers, Gnss!Fetch(w)
    PROVE  GnssInv'
<1> DEFINE c == gnssCall[w]
           eph == Gnss!Ephemerides(c.asked)
           dt == Head(c.left)
<1>1. /\ c \in GnssCalls /\ c.pc = "fetch" /\ c.left # <<>> /\ c.asked \in Asked /\ WithGPS(c.eph)
      /\ UNCHANGED <<refresh, gnssRequests>>
  BY DEF Gnss!Fetch, GnssInv, GnssCallOk
<1>2. /\ eph \in SUBSET Gnss!Generated /\ WithGPS(eph) /\ dt \in Gnss!DataTypes
  <2>1. WithGPS(eph)
    BY <1>1, GnssConstants
  <2>2. eph \in SUBSET Gnss!Generated /\ dt \in Gnss!DataTypes
    BY <1>1 DEF Gnss!Ephemerides, GnssCalls
  <2>3. QED BY <2>1, <2>2
<1>3. CASE /\ gnssCall' = [gnssCall EXCEPT ![w].pc = "idle", ![w].res = "error"]
           /\ UNCHANGED <<gnssCached, gnssTtl, faults>>
  <2> DEFINE d == [c EXCEPT !.pc = "idle", !.res = "error"]
  <2>1. d \in GnssCalls /\ GnssCallOk(d)
    BY <1>1 DEF GnssCalls, GnssCallOk
  <2>2. gnssCall' = [gnssCall EXCEPT ![w] = d]
    BY <1>3
  <2> HIDE DEF d
  <2>3. gnssCall' \in [Workers -> GnssCalls] /\ \A v \in Workers : GnssCallOk(gnssCall'[v])
    BY <2>1, <2>2, GnssCallStep
  <2>4. QED BY <1>1, <1>3, <2>3 DEF GnssInv, Gnss!TypeOK, GnssCalls
<1>4. CASE /\ dt # "ephemeris" \/ eph # {}
           /\ Gnss!CacheSet(dt, eph)
           /\ Gnss!Answered(w, IF dt = "ephemeris" THEN [c EXCEPT !.eph = eph] ELSE c)
  <2> DEFINE d == IF dt = "ephemeris" THEN [c EXCEPT !.eph = eph] ELSE c
  <2> HIDE DEF dt, eph
  <2>1. d \in GnssCalls /\ d.left # <<>> /\ d.asked \in Asked /\ WithGPS(d.eph)
    <3>1. [c EXCEPT !.eph = eph] \in GnssCalls
      BY <1>1, <1>2 DEF GnssCalls
    <3>2. QED BY <1>1, <1>2, <3>1 DEF GnssCalls
  <2>2. Gnss!Answered(w, d)
    BY <1>4
  <2> HIDE DEF d
  <2>3. gnssCall' \in [Workers -> GnssCalls] /\ \A v \in Workers : GnssCallOk(gnssCall'[v])
    BY <2>1, <2>2, GnssAnswered
  <2>4. /\ gnssCached' \in SUBSET Gnss!Generated /\ WithGPS(gnssCached)'
        /\ gnssTtl' \in [Gnss!DataTypes -> Nat]
        /\ \A x \in Gnss!DataTypes : gnssTtl'[x] <= Gnss!TTLFor[x]
        /\ gnssCached' # {} <=> gnssTtl'["ephemeris"] > 0
        /\ faults' \in 0 .. MaxFaults
    BY <1>2, <1>4, GnssCacheSet
  <2>5. QED BY <1>1, <2>3, <2>4 DEF GnssInv, Gnss!TypeOK, GnssCalls
<1>5. QED BY <1>3, <1>4 DEF Gnss!Fetch

LEMMA GnssRefreshes ==
    ASSUME GnssInv, Gnss!RefreshTick \/ Gnss!RefreshAll \/ Gnss!Tick
    PROVE  GnssInv'
<1> USE DEF Gnss!DataTypes
<1>1. CASE Gnss!RefreshTick
  BY <1>1 DEF Gnss!RefreshTick, Gnss!NextRefresh, GnssInv, Gnss!TypeOK
<1>2. CASE Gnss!RefreshAll
  <2>1. refresh \in Gnss!DataTypes /\ Gnss!CacheSet(refresh, Gnss!Generated)
    BY <1>2 DEF Gnss!RefreshAll, GnssInv, Gnss!TypeOK
  <2>2. Gnss!Generated # {} /\ WithGPS(Gnss!Generated)
    BY DEF Gnss!Generated, WithGPS
  <2>3. /\ gnssCached' \in SUBSET Gnss!Generated /\ WithGPS(gnssCached)'
        /\ gnssTtl' \in [Gnss!DataTypes -> Nat]
        /\ \A x \in Gnss!DataTypes : gnssTtl'[x] <= Gnss!TTLFor[x]
        /\ gnssCached' # {} <=> gnssTtl'["ephemeris"] > 0
        /\ faults' \in 0 .. MaxFaults
    BY <2>1, <2>2, GnssCacheSet
  <2>4. /\ UNCHANGED <<gnssCall, gnssRequests>>
        /\ refresh' \in Gnss!DataTypes \cup {"wait"}
    BY <1>2, <2>1 DEF Gnss!RefreshAll, Gnss!NextRefresh
  <2>5. QED BY <2>3, <2>4 DEF GnssInv, Gnss!TypeOK
<1>3. CASE Gnss!Tick
  <2>1. /\ UNCHANGED <<gnssCall, refresh, faults, gnssRequests>>
        /\ \A dt \in Gnss!DataTypes : gnssTtl[dt] \in Nat /\ gnssTtl[dt] <= Gnss!TTLFor[dt]
        /\ \A dt \in Gnss!DataTypes : Gnss!TTLFor[dt] \in Nat
    BY <1>3, GnssConstants DEF Gnss!Tick, GnssInv, Gnss!TypeOK
  <2>2. /\ gnssTtl' = [dt \in Gnss!DataTypes |-> IF gnssTtl[dt] = 0 THEN 0 ELSE gnssTtl[dt] - 1]
        /\ gnssCached' = IF gnssTtl["ephemeris"] <= 1 THEN {} ELSE gnssCached
    BY <1>3 DEF Gnss!Tick
  <2>3. /\ gnssTtl' \in [Gnss!DataTypes -> Nat]
        /\ \A dt \in Gnss!DataTypes : gnssTtl'[dt] <= Gnss!TTLFor[dt]
    BY <2>1, <2>2
  <2>4. /\ gnssCached' \in SUBSET Gnss!Generated /\ WithGPS(gnssCached)'
        /\ gnssCached' # {} <=> gnssTtl'["ephemeris"] > 0
    BY <2>1, <2>2 DEF GnssInv, Gnss!TypeOK, WithGPS
  <2>5. QED BY <2>1, <2>3, <2>4 DEF GnssInv, Gnss!TypeOK
<1>4. QED BY <1>1, <1>2, <1>3

LEMMA GnssNext == GnssInv /\ [Gnss!Next]_Gnss!vars => GnssInv'
<1>1. GnssInv /\ UNCHANGED Gnss!vars => GnssInv'
  BY DEF Gnss!vars, GnssInv, Gnss!TypeOK
<1>2. QED BY <1>1, GnssRequest, GnssGet, GnssFetch, GnssRefreshes DEF Gnss!Next

\* Types hold, and if the clients include GPS no list without it is in the cache or in an
\* answer.
THEOREM GnssInvariance == Gnss!Spec => []GnssInv
BY GnssInit, GnssNext, PTL DEF Gnss!Spec

\* As long as every client that can be answered asks for GPS too, nobody who asks for GPS
\* gets a list without it, although the cache ignores who asked.
THEOREM GpsIsServed ==
    ASSUME Gnss!ClientsIncludeGps
    PROVE  Gnss!Spec => []GpsServed
<1>1. GnssInv => GpsServed
  BY DEF GnssInv, GnssCallOk, WithGPS, GpsServed, Gnss!GpsServed, Gnss!AskedEphemeris
<1>2. QED BY <1>1, GnssInvariance, PTL

-----------------------------------------------------------------------------
(* AssistanceData.                                                         *)

AssistCalls == [pc : {"idle", "get", "set", "iono", "ionoset"}, left : Seq(Constellations),
                made : Assist!Ephemeris \cup {Assist!NoEphemeris},
                got : SUBSET [asked : Constellations, eph : Assist!Ephemeris], iono : BOOLEAN]

\* What may be served for constellation k.
Servable(e, k) == e \in Assist!Ephemeris /\ e.of = k /\ (e.age > Validity => e.late)

\* What was cached at once is no older than its key.
Cached(k) ==
    ephem[k] # Assist!NoEphemeris =>
        Servable(ephem[k], k) /\ (ephem[k].late \/ ephem[k].age + ephemTtl[k] <= AssistTTL)

AssistCallOk(c) ==
    /\ c.pc \in {"get", "set"} => c.left # <<>>
    /\ c.pc = "set" => /\ c.made \in Assist!Ephemeris /\ c.made.of = Head(c.left)
                       /\ c.made.late \/ c.made.age = 0
    /\ \A e \in c.got : e.eph.of = e.asked /\ (e.eph.age > Validity => e.eph.late)

AssistInv ==
    /\ Assist!TypeOK
    /\ ephem \in [Constellations -> Assist!Ephemeris \cup {Assist!NoEphemeris}]
    /\ ephemTtl \in [Constellations -> 0 .. AssistTTL]
    /\ ephemCall \in [Workers -> AssistCalls]
    /\ \A k \in Constellations : Cached(k)
    /\ \A w \in Workers : AssistCallOk(ephemCall[w])

LEMMA AssistConstants ==
    /\ Lists \subseteq Seq(Constellations) \ {<<>>}
    /\ AssistTTL \in Nat /\ AssistTTL > 0 /\ Validity \in Nat /\ AssistTTL <= Validity
    /\ AssistRequests \in Nat /\ Assist!Old = Validity + 1
    /\ \A e \in Assist!Ephemeris : /\ e # Assist!NoEphemeris /\ e.of \in Constellations
                                   /\ e.age \in Nat /\ e.age <= Validity + 1 /\ e.late \in BOOLEAN
BY DEF Assist!AssistanceAssumption, Assist!Old, Assist!Ephemeris, Assist!NoEphemeris

LEMMA AssistInit == Assist!Init => AssistInv
<1> SUFFICES ASSUME Assist!Init PROVE AssistInv
  OBVIOUS
<1> DEFINE idle == Assist!Idle
<1>1. idle \in AssistCalls /\ AssistCallOk(idle)
  BY DEF Assist!Idle, AssistCalls, AssistCallOk
<1> HIDE DEF idle
<1>2. ephemCall = [w \in Workers |-> idle]
  BY DEF Assist!Init, idle
<1>3. ephemCall \in [Workers -> AssistCalls] /\ \A w \in Workers : AssistCallOk(ephemCall[w])
  BY <1>1, <1>2
<1>4. Assist!TypeOK
  BY <1>3, AssistConstants DEF Assist!Init, Assist!TypeOK, AssistCalls
<1>5. \A k \in Constellations : Cached(k)
  BY DEF Assist!Init, Cached
<1>6. QED BY <1>3, <1>4, <1>5, AssistConstants DEF Assist!Init, AssistInv

LEMMA AssistCallStep ==
    ASSUME AssistInv, NEW w \in Workers, NEW c \in AssistCalls, AssistCallOk(c),
           ephemCall' = [ephemCall EXCEPT ![w] = c]
    PROVE  ephemCall' \in [Workers -> AssistCalls] /\ \A v \in Workers : AssistCallOk(ephemCall'[v])
BY DEF AssistInv

\* A constellation is answered with what may be served for it.
LEMMA AssistAppends ==
    ASSUME AssistInv, NEW c \in AssistCalls, AssistCallOk(c), c.left # <<>>,
           NEW e, Servable(e, Head(c.left))
    PROVE  Assist!Append1(c, e) \in AssistCalls /\ AssistCallOk(Assist!Append1(c, e))
<1> DEFINE rest == Tail(c.left)
           answer == [asked |-> Head(c.left), eph |-> e]
           d == [c EXCEPT !.got = c.got \cup {answer}, !.made = Assist!NoEphemeris, !.left = rest,
                          !.pc = IF rest = <<>> THEN "iono" ELSE "get"]
<1>1. d = Assist!Append1(c, e)
  BY DEF Assist!Append1, AssistCalls
<1>2. rest \in Seq(Constellations) /\ Head(c.left) \in Constellations
  BY DEF AssistCalls
<1>3. /\ answer \in [asked : Constellations, eph : Assist!Ephemeris]
      /\ answer.eph.of = answer.asked /\ (answer.eph.age > Validity => answer.eph.late)
  BY <1>2 DEF Servable
<1> HIDE DEF rest, answer
<1>4. d \in AssistCalls
  BY <1>2, <1>3 DEF AssistCalls
<1>5. AssistCallOk(d)
  BY <1>3 DEF AssistCalls, AssistCallOk
<1>6. QED BY <1>1, <1>4, <1>5

LEMMA AssistRequest ==
    ASSUME AssistInv, NEW w \in Workers, NEW list \in Lists, Assist!Request(w, list)
    PROVE  AssistInv'
<1> DEFINE c == [Assist!Idle EXCEPT !.pc = "get", !.left = list]
<1>1. c \in AssistCalls /\ AssistCallOk(c)
  BY AssistConstants DEF Assist!Idle, AssistCalls, AssistCallOk
<1>2. ephemCall' = [ephemCall EXCEPT ![w] = c]
  BY DEF Assist!Request
<1> HIDE DEF c
<1>3. ephemCall' \in [Workers -> AssistCalls] /\ \A v \in Workers : AssistCallOk(ephemCall'[v])
  BY <1>1, <1>2, AssistCallStep
<1>4. ephemRequests' \in 0 .. AssistRequests /\ UNCHANGED <<ephem, ephemTtl, iono>>
  BY AssistConstants DEF Assist!Request, AssistInv, Assist!TypeOK
<1>5. QED BY <1>3, <1>4 DEF AssistInv, Assist!TypeOK, AssistCalls, Cached

LEMMA AssistGet ==
    ASSUME AssistInv, NEW w \in Workers, Assist!GetEphemeris(w)
    PROVE  AssistInv'
<1> DEFINE c == ephemCall[w]
           k == Head(c.left)
<1>1. /\ c \in AssistCalls /\ AssistCallOk(c) /\ c.pc = "get" /\ c.left # <<>>
      /\ UNCHANGED <<ephem, ephemTtl, iono, ephemRequests>>
  BY DEF Assist!GetEphemeris, AssistInv, AssistCallOk
<1>2. k \in Constellations
  BY <1>1 DEF AssistCalls
<1>3. ephemCall' \in [Workers -> AssistCalls] /\ \A v \in Workers : AssistCallOk(ephemCall'[v])
  <2>1. CASE /\ ephem[k] # Assist!NoEphemeris
             /\ ephemCall' = [ephemCall EXCEPT ![w] = Assist!Append1(c, ephem[k])]
    <3> DEFINE d == Assist!Append1(c, ephem[k])
    <3>1. Servable(ephem[k], k)
      BY <1>2, <2>1 DEF AssistInv, Cached
    <3>2. d \in AssistCalls /\ AssistCallOk(d)
      BY <1>1, <3>1, AssistAppends
    <3> HIDE DEF d
    <3>3. QED BY <2>1, <3>2, AssistCallStep DEF d
  <2>2. CASE ephemCall' = [ephemCall EXCEPT ![w].pc = "set",
                                            ![w].made = [of |-> k, age |-> 0, late |-> FALSE]]
    <3> DEFINE made == [of |-> k, age |-> 0, late |-> FALSE]
               d == [c EXCEPT !.pc = "set", !.made = made]
    <3>1. made \in Assist!Ephemeris /\ made.of = k /\ made.age = 0
      BY <1>2, AssistConstants DEF Assist!Ephemeris
    <3>2. ephemCall' = [ephemCall EXCEPT ![w] = d]
      BY <2>2
    <3> HIDE DEF made
    <3>3. d \in AssistCalls /\ AssistCallOk(d)
      BY <1>1, <3>1 DEF AssistCalls, AssistCallOk
    <3> HIDE DEF d
    <3>4. QED BY <3>2, <3>3, AssistCallStep
  <2>3. QED BY <2>1, <2>2 DEF Assist!GetEphemeris
<1>4. QED BY <1>1, <1>3 DEF AssistInv, Assist!TypeOK, AssistCalls, Cached

LEMMA AssistSet ==
    ASSUME AssistInv, NEW w \in Workers, Assist!SetEphemeris(w)
    PROVE  AssistInv'
<1> DEFINE c == ephemCall[w]
           k == Head(c.left)
<1>1. /\ c \in AssistCalls /\ AssistCallOk(c) /\ c.pc = "set" /\ c.left # <<>>
      /\ c.made \in Assist!Ephemeris /\ c.made.of = k /\ (c.made.late \/ c.made.age = 0)
      /\ UNCHANGED <<iono, ephemRequests>>
      /\ ephemCall' = [ephemCall EXCEPT ![w] = Assist!Append1(c, c.made)]
      /\ Assist!SetJSON(k, c.made) \/ UNCHANGED <<ephem, ephemTtl>>
  BY DEF Assist!SetEphemeris, AssistInv, AssistCallOk
<1>2. k \in Constellations
  BY <1>1 DEF AssistCalls
<1>3. Servable(c.made, k) /\ c.made # Assist!NoEphemeris
  BY <1>1, AssistConstants DEF Servable
<1>4. ephemCall' \in [Workers -> AssistCalls] /\ \A v \in Workers : AssistCallOk(ephemCall'[v])
  <2> DEFINE d == Assist!Append1(c, c.made)
  <2>1. d \in AssistCalls /\ AssistCallOk(d)
    BY <1>1, <1>3, AssistAppends
  <2>2. ephemCall' = [ephemCall EXCEPT ![w] = d]
    BY <1>1
  <2> HIDE DEF d
  <2>3. QED BY <2>1, <2>2, AssistCallStep
<1>5. CASE UNCHANGED <<ephem, ephemTtl>>
  BY <1>1, <1>4, <1>5 DEF AssistInv, Assist!TypeOK, AssistCalls, Cached
<1>6. CASE Assist!SetJSON(k, c.made)
  <2> DEFINE e == c.made
  <2> HIDE DEF k, e
  <2>1. /\ ephem' = [ephem EXCEPT ![k] = e] /\ ephemTtl' = [ephemTtl EXCEPT ![k] = AssistTTL]
        /\ e \in Assist!Ephemeris /\ e # Assist!NoEphemeris /\ Servable(e, k)
        /\ e.late \/ e.age = 0
    BY <1>1, <1>3, <1>6 DEF Assist!SetJSON, e
  <2>2. /\ ephem' \in [Constellations -> Assist!Ephemeris \cup {Assist!NoEphemeris}]
        /\ ephemTtl' \in [Constellations -> 0 .. AssistTTL]
        /\ ephem'[k] = e /\ ephemTtl'[k] = AssistTTL
        /\ \A x \in Constellations \ {k} : ephem'[x] = ephem[x] /\ ephemTtl'[x] = ephemTtl[x]
    BY <1>2, <2>1, AssistConstants DEF AssistInv
  <2>3. /\ Servable(ephem'[k], k)
        /\ ephem'[k].late \/ ephem'[k].age + ephemTtl'[k] <= AssistTTL
    BY <2>1, <2>2, AssistConstants
  <2>4. ASSUME NEW x \in Constellations PROVE Cached(x)'
    <3>1. CASE x = k
      BY <2>3, <3>1 DEF Cached, Servable
    <3>2. CASE x # k
      <4>1. ephem'[x] = ephem[x] /\ ephemTtl'[x] = ephemTtl[x] /\ Cached(x)
        BY <2>2, <3>2 DEF AssistInv
      <4>2. QED BY <4>1 DEF Cached, Servable
    <3>3. QED BY <3>1, <3>2
  <2>5. Assist!TypeOK'
    <3>1. \A x \in Constellations : ephem'[x] # Assist!NoEphemeris <=> ephemTtl'[x] > 0
      BY <2>1, <2>2, AssistConstants DEF AssistInv, Assist!TypeOK
    <3>2. QED BY <1>1, <1>4, <2>2, <3>1 DEF AssistInv, Assist!TypeOK, AssistCalls
  <2>6. QED BY <1>4, <2>2, <2>4, <2>5 DEF AssistInv
<1>7. QED BY <1>1, <1>5, <1>6

\* The ionospheric model is no part of what is served.
LEMMA AssistIono ==
    ASSUME AssistInv, NEW w \in Workers,
           Assist!GetIonosphericModel(w) \/ Assist!SetIonosphericModel(w)
    PROVE  AssistInv'
<1> DEFINE c == ephemCall[w]
<1>1. /\ c \in AssistCalls /\ AssistCallOk(c) /\ UNCHANGED <<ephem, ephemTtl, ephemRequests>>
      /\ iono' \in 0 .. 2
  BY DEF Assist!GetIonosphericModel, Assist!SetIonosphericModel, AssistInv, Assist!TypeOK
<1>2. PICK step \in {"idle", "ionoset"}, b \in BOOLEAN :
         ephemCall' = [ephemCall EXCEPT ![w] = [c EXCEPT !.pc = step, !.iono = b]]
  <2>1. CASE Assist!GetIonosphericModel(w)
    BY <2>1 DEF Assist!GetIonosphericModel
  <2>2. CASE Assist!SetIonosphericModel(w)
    <3>1. [c EXCEPT !.pc = "idle"] = [c EXCEPT !.pc = "idle", !.iono = c.iono] /\ c.iono \in BOOLEAN
      BY <1>1 DEF AssistCalls
    <3>2. ephemCall' = [ephemCall EXCEPT ![w] = [c EXCEPT !.pc = "idle"]]
      BY <2>2 DEF Assist!SetIonosphericModel
    <3>3. ephemCall' = [ephemCall EXCEPT ![w] = [c EXCEPT !.pc = "idle", !.iono = c.iono]]
      BY <3>1, <3>2
    <3>4. QED BY <3>1, <3>3
  <2>3. QED BY <2>1, <2>2
<1> DEFINE d == [c EXCEPT !.pc = step, !.iono = b]
<1>3. d \in AssistCalls /\ AssistCallOk(d)
  BY <1>1 DEF AssistCalls, AssistCallOk
<1> HIDE DEF d
<1>4. ephemCall' = [ephemCall EXCEPT ![w] = d]
  BY <1>2 DEF d
<1>5. ephemCall' \in [Workers -> AssistCalls] /\ \A v \in Workers : AssistCallOk(ephemCall'[v])
  BY <1>3, <1>4, AssistCallStep
<1>6. QED BY <1>1, <1>5 DEF AssistInv, Assist!TypeOK, AssistCalls, Cached

\* What is cached and what is held up grow older together.
LEMMA AssistTick == AssistInv /\ Assist!Tick => AssistInv'
<1> SUFFICES ASSUME AssistInv, Assist!Tick PROVE AssistInv'
  OBVIOUS
<1> DEFINE Older(e) == [e EXCEPT !.age = IF @ = Assist!Old THEN Assist!Old ELSE @ + 1]
<1>1. ASSUME NEW e \in Assist!Ephemeris
      PROVE  /\ Older(e) \in Assist!Ephemeris
             /\ Older(e).of = e.of /\ Older(e).late = e.late
             /\ Older(e).age = (IF e.age = Validity + 1 THEN Validity + 1 ELSE e.age + 1)
  BY AssistConstants DEF Assist!Ephemeris
<1> HIDE DEF Older
<1>2. /\ ephemTtl' = [k \in Constellations |-> IF ephemTtl[k] = 0 THEN 0 ELSE ephemTtl[k] - 1]
      /\ ephem' = [k \in Constellations |-> IF ephemTtl[k] <= 1 THEN Assist!NoEphemeris
                                                                  ELSE Older(ephem[k])]
      /\ ephemCall' = [w \in Workers |->
                          IF ephemCall[w].pc = "set"
                          THEN [ephemCall[w] EXCEPT !.made = [Older(@) EXCEPT !.late = TRUE]]
                          ELSE ephemCall[w]]
      /\ iono' \in 0 .. 2 /\ UNCHANGED ephemRequests
  <2>1. iono' \in {0, iono} /\ UNCHANGED ephemRequests
    BY Zenon DEF Assist!Tick
  <2>2. iono' \in 0 .. 2
    BY <2>1 DEF AssistInv, Assist!TypeOK
  <2>3. QED BY <2>1, <2>2, Zenon DEF Assist!Tick, Older
<1>3. ASSUME NEW k \in Constellations
      PROVE  /\ ephemTtl'[k] \in 0 .. AssistTTL
             /\ ephem'[k] \in Assist!Ephemeris \cup {Assist!NoEphemeris}
             /\ ephem'[k] # Assist!NoEphemeris <=> ephemTtl'[k] > 0
             /\ Cached(k)'
  <2>1. ephemTtl[k] \in 0 .. AssistTTL /\ AssistTTL \in Nat
    BY AssistConstants DEF AssistInv
  <2>2. CASE ephemTtl[k] <= 1
    <3>1. ephemTtl'[k] = 0 /\ ephem'[k] = Assist!NoEphemeris
      BY <1>2, <2>1, <2>2
    <3>2. QED BY <2>1, <3>1 DEF Cached
  <2>3. CASE ephemTtl[k] > 1
    <3>1. ephem[k] \in Assist!Ephemeris /\ Cached(k) /\ ephem[k] # Assist!NoEphemeris
      BY <2>1, <2>3 DEF AssistInv, Assist!TypeOK
    <3>a. ephem'[k] = Older(ephem[k]) /\ ephemTtl'[k] = ephemTtl[k] - 1
      BY <1>2, <2>1, <2>3
    <3>2. /\ ephem'[k] = Older(ephem[k]) /\ ephemTtl'[k] = ephemTtl[k] - 1
          /\ Older(ephem[k]) \in Assist!Ephemeris
          /\ Older(ephem[k]).of = ephem[k].of /\ Older(ephem[k]).late = ephem[k].late
          /\ Older(ephem[k]).age =
               (IF ephem[k].age = Validity + 1 THEN Validity + 1 ELSE ephem[k].age + 1)
          /\ ephem[k].age \in Nat /\ ephem[k].late \in BOOLEAN
      BY <1>1, <3>a, <3>1, AssistConstants
    <3>3. /\ ephem'[k] \in Assist!Ephemeris /\ ephem'[k].of = k
          /\ ephem'[k].late = ephem[k].late
          /\ ephem'[k].late \/ ephem'[k].age + ephemTtl'[k] <= AssistTTL
      BY <2>1, <2>3, <3>1, <3>2, AssistConstants DEF Cached, Servable
    <3>4. ephem'[k].age \in Nat
      BY <3>3, AssistConstants
    <3>5. ephem'[k].age > Validity => ephem'[k].late
      BY <2>1, <2>3, <3>2, <3>3, <3>4, AssistConstants
    <3>6. QED BY <2>1, <2>3, <3>2, <3>3, <3>5, AssistConstants DEF Cached, Servable
  <2>4. QED BY <2>1, <2>2, <2>3
<1>4. ASSUME NEW w \in Workers PROVE ephemCall'[w] \in AssistCalls /\ AssistCallOk(ephemCall'[w])
  <2> DEFINE c == ephemCall[w]
  <2>1. c \in AssistCalls /\ AssistCallOk(c)
    BY DEF AssistInv
  <2>2. CASE c.pc # "set"
    BY <1>2, <2>1, <2>2
  <2>3. CASE c.pc = "set"
    <3> DEFINE made == [Older(c.made) EXCEPT !.late = TRUE]
    <3>1. made \in Assist!Ephemeris /\ made.of = c.made.of /\ made.late
      BY <1>1, <2>1, <2>3 DEF Assist!Ephemeris, AssistCallOk
    <3>2. ephemCall'[w] = [c EXCEPT !.made = made]
      BY <1>2, <2>3
    <3> HIDE DEF made
    <3>3. QED BY <2>1, <3>1, <3>2 DEF AssistCalls, AssistCallOk
  <2>4. QED BY <2>2, <2>3
<1>5. /\ ephem' \in [Constellations -> Assist!Ephemeris \cup {Assist!NoEphemeris}]
      /\ ephemTtl' \in [Constellations -> 0 .. AssistTTL]
      /\ ephemCall' \in [Workers -> AssistCalls]
  BY <1>2, <1>3, <1>4
<1>6. Assist!TypeOK'
  BY <1>2, <1>3, <1>4 DEF AssistInv, Assist!TypeOK, AssistCalls
<1>7. QED BY <1>3, <1>4, <1>5, <1>6 DEF AssistInv

LEMMA AssistNext == AssistInv /\ [Assist!Next]_Assist!vars => AssistInv'
<1>1. AssistInv /\ UNCHANGED Assist!vars => AssistInv'
  BY DEF Assist!vars, AssistInv, Assist!TypeOK, Cached
<1>2. QED BY <1>1, AssistRequest, AssistGet, AssistSet, AssistIono, AssistTick DEF Assist!Next

\* Types hold, and what was cached at once is no older than its key.
THEOREM AssistanceInvariance == Assist!Spec => []AssistInv
BY AssistInit, AssistNext, PTL DEF Assist!Spec

\* Every constellation is answered with valid ephemerides of its own, whoever cached them
\* and when, since a key lives no longer than its ephemerides are valid; only what was held
\* up between its making and its SET may be served beyond its validity.
THEOREM ValidServed == Assist!Spec => []ServedValid
<1>1. AssistInv => ServedValid
  BY DEF AssistInv, AssistCallOk, ServedValid, Assist!ServedValid
<1>2. QED BY <1>1, AssistanceInvariance, PTL

-----------------------------------------------------------------------------
(* All stores side by side, as they are model-checked.                     *)

StoresInv == KInv /\ FInv /\ SubInv /\ TrackInv /\ GnssInv /\ AssistInv

LEMMA StoresStart == StoresInit => StoresInv
BY KInit, FInit, SubInit, TrackInit, GnssInit, AssistInit DEF StoresInit, StoresInv

\* One store takes a step of its own, and the others keep what they have.
LEMMA StoresStep ==
    StoresInv /\ [StoresNext]_<<store, vars, subVars, gnssVars, ephemVars, trackVars>>
        => StoresInv'
<1>1. UNCHANGED subVars => [Sub!Next]_Sub!vars
  BY DEF subVars, Sub!vars
<1>2. UNCHANGED gnssVars => [Gnss!Next]_Gnss!vars
  BY DEF gnssVars, Gnss!vars
<1>3. UNCHANGED ephemVars => [Assist!Next]_Assist!vars
  BY DEF ephemVars, Assist!vars
<1>4. UNCHANGED trackVars => [Track!Next]_Track!vars
  BY DEF trackVars, Track!vars
<1>5. [StoresNext]_<<store, vars, subVars, gnssVars, ephemVars, trackVars>> =>
        /\ [Next]_vars /\ [Sub!Next]_Sub!vars /\ [Gnss!Next]_Gnss!vars
        /\ [Assist!Next]_Assist!vars /\ [Track!Next]_Track!vars
  BY <1>1, <1>2, <1>3, <1>4
     DEF StoresNext, CellsRun, SubscriptionsRun, GnssRuns, AssistanceRuns, TracksRun
<1>6. QED BY <1>5, KNext, FNext, SubNext, GnssNext, AssistNext, TrackNext DEF StoresInv

THEOREM StoresInvariance == StoresSpec => []StoresInv
BY StoresStart, StoresStep, PTL DEF StoresSpec

\* The types of all stores hold together, whichever runs.
THEOREM StoresTypes == StoresSpec => []TypesOK
<1>1. StoresInv => TypesOK
  BY StoreTyped DEF StoresInv, SubInv, TrackInv, GnssInv, AssistInv, TypesOK
<1>2. QED BY <1>1, StoresInvariance, PTL
=============================================================================
