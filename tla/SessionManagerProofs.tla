------------------------ MODULE SessionManagerProofs ------------------------
(***************************************************************************)
(* Proofs about SessionManager, for every number of sessions, subscribers  *)
(* and handlers, every TTL and every kind of Redis failure.                *)
(***************************************************************************)
EXTENDS SessionManager, TLAPS

USE ConstantsAssumption

-----------------------------------------------------------------------------
(* How a worker's call changes, and what that leaves true.                 *)

\* A worker whose new call still owns its session disturbs no other call.
LEMMA CallStep ==
    ASSUME IInv, NEW w \in Workers, NEW c \in Call, CallOwns(c),
           call' = [call EXCEPT ![w] = c], owner' = owner
    PROVE  /\ call' \in [Workers -> Call]
           /\ call'[w] = c
           /\ \A v \in Workers \ {w} : call'[v] = call[v]
           /\ CallsOwn'
<1>1. call \in [Workers -> Call] /\ CallsOwn
  BY DEF IInv, TypeOK
<1>2. /\ call' \in [Workers -> Call]
      /\ call'[w] = c
      /\ \A v \in Workers \ {w} : call'[v] = call[v]
  BY <1>1
<1>3. CallOwns(call[w])' /\ \A v \in Workers \ {w} : CallOwns(call[v])'
  BY <1>1, <1>2 DEF CallsOwn, CallOwns
<1>4. QED BY <1>2, <1>3 DEF CallsOwn

\* A reply keeps the session of the call, so every reply owns what it answers.
LEMMA ReplyStep ==
    ASSUME IInv, NEW w \in Workers, NEW res \in Results, Reply(w, res),
           call[w].pc # "idle", res = "ok" => call[w].pc # "smembers",
           owner' = owner
    PROVE  /\ call' \in [Workers -> Call]
           /\ \A v \in Workers \ {w} : call'[v] = call[v]
           /\ CallsOwn'
           /\ issued' \in SUBSET Sessions
           /\ deleted' \in SUBSET Sessions
           /\ (\A s \in issued : owner[s] # Unborn)'
<1> DEFINE c == [call[w] EXCEPT !.pc = "idle", !.res = res]
<1>1. TypeOK /\ call[w] \in Call /\ CallOwns(call[w]) /\ KeysOwn
  BY DEF IInv, TypeOK, CallsOwn
<1>2. /\ c \in Call
      /\ c.pc = "idle"
      /\ c.res = res
      /\ c.op = call[w].op
      /\ c.sid = call[w].sid
      /\ c.supi = call[w].supi
  BY <1>1 DEF Call, Steps
<1>3. CallOwns(c)
  BY <1>1, <1>2 DEF CallOwns
<1>4. call' = [call EXCEPT ![w] = c]
  BY DEF Reply
<1>5. /\ issued' \in SUBSET Sessions
      /\ deleted' \in SUBSET Sessions
      /\ \A s \in issued' : owner[s] # Unborn
  BY <1>1 DEF TypeOK, KeysOwn, CallOwns, Reply, Succeeds
<1> HIDE DEF c
<1>6. QED BY <1>2, <1>3, <1>4, <1>5, CallStep

\* A jump to the next round trip of the handler.
LEMMA GotoStep ==
    ASSUME IInv, NEW w \in Workers, NEW pc \in {"sadd", "del"}, Goto(w, pc),
           pc = "sadd" => call[w].pc = "set" /\ call[w].supi # NoSupi,
           pc = "del" => call[w].pc \in {"get", "srem"} /\ call[w].op = "delete",
           owner' = owner
    PROVE  /\ call' \in [Workers -> Call]
           /\ call'[w].pc = pc
           /\ call'[w].sid = call[w].sid
           /\ \A v \in Workers \ {w} : call'[v] = call[v]
           /\ CallsOwn'
           /\ issued' \in SUBSET Sessions
           /\ deleted' \in SUBSET Sessions
           /\ (\A s \in issued : owner[s] # Unborn)'
<1> DEFINE c == [call[w] EXCEPT !.pc = pc]
<1>1. TypeOK /\ call[w] \in Call /\ CallOwns(call[w]) /\ KeysOwn
  BY DEF IInv, TypeOK, CallsOwn
<1>2. /\ c \in Call
      /\ c.pc = pc
      /\ c.res = call[w].res
      /\ c.op = call[w].op
      /\ c.sid = call[w].sid
      /\ c.supi = call[w].supi
      /\ c.supi \in Supis \cup {NoSupi}
  BY <1>1 DEF Call, Steps
<1>3. CallOwns(c)
  BY <1>1, <1>2 DEF CallOwns
<1>4. call' = [call EXCEPT ![w] = c]
  BY DEF Goto
<1>5. UNCHANGED <<issued, deleted>>
  BY DEF Goto
<1> HIDE DEF c
<1>6. QED BY <1>1, <1>2, <1>3, <1>4, <1>5, CallStep DEF TypeOK, KeysOwn

-----------------------------------------------------------------------------
(* When a session keeps its index entry.                                   *)

\* While Redis is not touched, a session loses its cover only with a call that
\* was between its two keys.
LEMMA CoverKept ==
    ASSUME IInv, NEW w \in Workers, call[w].pc \notin {"sadd", "del"},
           \A v \in Workers \ {w} : call'[v] = call[v],
           UNCHANGED <<redis, torn>>
    PROVE  IndexCoversLive'
<1> SUFFICES ASSUME NEW x \in Sessions,
                    Live(x)', (sess[x].supi # NoSupi)', x \notin torn'
             PROVE  Pending(x)' \/ Indexed(x)'
  BY DEF IndexCoversLive
<1>1. Pending(x) \/ Indexed(x)
  BY DEF IInv, IndexCoversLive, Live, redis
<1>2. CASE Pending(x)
  <2>1. PICK v \in Workers : call[v].pc \in {"sadd", "del"} /\ call[v].sid = x
    BY <1>2 DEF Pending
  <2>2. call'[v] = call[v]
    BY <2>1
  <2>3. QED BY <2>1, <2>2 DEF Pending
<1>3. CASE Indexed(x)
  BY <1>3 DEF Indexed, redis
<1>4. QED BY <1>1, <1>2, <1>3

\* A step that writes to session s only leaves the cover of the others alone.
LEMMA CoverOthers ==
    ASSUME IInv, NEW w \in Workers, NEW s \in Sessions, NEW x \in Sessions, x # s,
           call[w].sid = s,
           \A v \in Workers \ {w} : call'[v] = call[v],
           torn \ {s} \subseteq torn',
           sess'[x] = sess[x], sessTtl'[x] = sessTtl[x],
           \A u \in Supis : x \in index[u] =>
               x \in index'[u] /\ (indexTtl'[u] >= indexTtl[u] \/ indexTtl'[u] >= TTL),
           Live(x)', (sess[x].supi # NoSupi)', x \notin torn',
           TypeOK'
    PROVE  Pending(x)' \/ Indexed(x)'
<1>1. TypeOK /\ Live(x) /\ sess[x].supi # NoSupi /\ x \notin torn
  BY DEF IInv, Live
<1>2. Pending(x) \/ Indexed(x)
  BY <1>1 DEF IInv, IndexCoversLive
<1>3. CASE Pending(x)
  <2>1. PICK v \in Workers : call[v].pc \in {"sadd", "del"} /\ call[v].sid = x
    BY <1>3 DEF Pending
  <2>2. call'[v] = call[v]
    BY <2>1
  <2>3. QED BY <2>1, <2>2 DEF Pending
<1>4. CASE Indexed(x)
  <2> DEFINE u == sess[x].supi
  <2>1. u \in Supis /\ x \in index[u] /\ indexTtl[u] >= sessTtl[x]
    BY <1>1, <1>4 DEF TypeOK, Value, Indexed, SupiIndexKey
  <2>2. /\ indexTtl[u] \in Nat
        /\ indexTtl'[u] \in Nat
        /\ sessTtl[x] \in Nat
        /\ sessTtl[x] <= TTL
    BY <1>1, <2>1 DEF TypeOK, Forever
  <2>3. x \in index'[u] /\ indexTtl'[u] >= sessTtl'[x] /\ sess'[x].supi = u
    BY <2>1, <2>2
  <2>4. QED BY <2>3 DEF Indexed, SupiIndexKey
<1>5. QED BY <1>2, <1>3, <1>4

-----------------------------------------------------------------------------
(* The invariant is inductive: one lemma per action.                       *)

LEMMA WriteIndexInv ==
    ASSUME IInv, NEW w \in Workers, WriteIndex(w)
    PROVE  IInv'
<1> DEFINE s == call[w].sid
           u == call[w].supi
<1>1. TypeOK /\ CallsOwn /\ KeysOwn /\ IndexCoversLive
  BY DEF IInv
<1>2. s \in Sessions /\ u \in Supis /\ owner[s] = u
  BY <1>1 DEF WriteIndex, CallsOwn, CallOwns
<1>3. /\ call[w].pc = "sadd"
      /\ SetAdd(s, u, TRUE)
      /\ "ok" \in Results
      /\ Reply(w, "ok")
      /\ torn' = torn \ {s}
      /\ UNCHANGED <<sess, sessTtl, requests, owner>>
  BY DEF Results, WriteIndex
<1>4. /\ call' \in [Workers -> Call]
      /\ \A v \in Workers \ {w} : call'[v] = call[v]
      /\ CallsOwn'
      /\ issued' \in SUBSET Sessions
      /\ deleted' \in SUBSET Sessions
      /\ (\A x \in issued : owner[x] # Unborn)'
  BY <1>3, ReplyStep
<1>5. TypeOK'
  <2>1. index' \in [Supis -> SUBSET Sessions] /\ indexTtl' \in [Supis -> 0 .. Forever]
    BY <1>1, <1>2, <1>3 DEF TypeOK, SetAdd, SupiIndexKey, Forever
  <2>2. QED BY <1>1, <1>3, <1>4, <2>1 DEF TypeOK
<1>6. KeysOwn'
  BY <1>1, <1>2, <1>3, <1>4 DEF KeysOwn, TypeOK, SetAdd, SupiIndexKey, Live
<1>7. IndexCoversLive'
  <2> SUFFICES ASSUME NEW x \in Sessions,
                      Live(x)', (sess[x].supi # NoSupi)', x \notin torn'
               PROVE  Pending(x)' \/ Indexed(x)'
    BY DEF IndexCoversLive
  <2>1. CASE x = s
    BY <1>1, <1>2, <1>3, <2>1
    DEF TypeOK, KeysOwn, SetAdd, SupiIndexKey, Live, Forever, Indexed
  <2>2. CASE x # s
    <3>1. \A k \in Supis : x \in index[k] =>
              x \in index'[k] /\ (indexTtl'[k] >= indexTtl[k] \/ indexTtl'[k] >= TTL)
      BY <1>1, <1>2, <1>3 DEF TypeOK, SetAdd, SupiIndexKey, Forever
    <3>2. QED BY <1>2, <1>3, <1>4, <1>5, <2>2, <3>1, CoverOthers
  <2>3. QED BY <2>1, <2>2
<1>8. QED BY <1>4, <1>5, <1>6, <1>7 DEF IInv

LEMMA WriteIndexErrorInv ==
    ASSUME IInv, NEW w \in Workers, WriteIndexError(w)
    PROVE  IInv'
<1> DEFINE s == call[w].sid
           u == call[w].supi
<1>1. TypeOK /\ CallsOwn /\ KeysOwn /\ IndexCoversLive
  BY DEF IInv
<1>2. s \in Sessions /\ u \in Supis /\ owner[s] = u
  BY <1>1 DEF WriteIndexError, CallsOwn, CallOwns
<1>3. /\ call[w].pc = "sadd"
      /\ UNCHANGED <<index, indexTtl>> \/ SetAdd(s, u, TRUE) \/ SetAdd(s, u, FALSE)
      /\ "internal" \in Results
      /\ Reply(w, "internal")
      /\ torn' = torn \cup {s}
      /\ UNCHANGED <<sess, sessTtl, requests, owner>>
  BY DEF Results, WriteIndexError
<1>4. /\ call' \in [Workers -> Call]
      /\ \A v \in Workers \ {w} : call'[v] = call[v]
      /\ CallsOwn'
      /\ issued' \in SUBSET Sessions
      /\ deleted' \in SUBSET Sessions
      /\ (\A x \in issued : owner[x] # Unborn)'
  BY <1>3, ReplyStep
<1>5. TypeOK'
  <2>1. index' \in [Supis -> SUBSET Sessions] /\ indexTtl' \in [Supis -> 0 .. Forever]
    BY <1>1, <1>2, <1>3 DEF TypeOK, SetAdd, SupiIndexKey, Forever
  <2>2. QED BY <1>1, <1>2, <1>3, <1>4, <2>1 DEF TypeOK
<1>6. KeysOwn'
  <2>1. \A k \in Supis : \A x \in index'[k] : owner[x] = k
    BY <1>1, <1>2, <1>3 DEF KeysOwn, TypeOK, SetAdd, SupiIndexKey
  <2>2. QED BY <1>1, <1>3, <1>4, <2>1 DEF KeysOwn, Live
<1>7. IndexCoversLive'
  <2> SUFFICES ASSUME NEW x \in Sessions,
                      Live(x)', (sess[x].supi # NoSupi)', x \notin torn'
               PROVE  Pending(x)' \/ Indexed(x)'
    BY DEF IndexCoversLive
  <2>1. x # s
    BY <1>3
  <2>2. \A k \in Supis : x \in index[k] =>
            x \in index'[k] /\ (indexTtl'[k] >= indexTtl[k] \/ indexTtl'[k] >= TTL)
    BY <1>1, <1>2, <1>3 DEF TypeOK, SetAdd, SupiIndexKey, Forever
  <2>3. QED BY <1>2, <1>3, <1>4, <1>5, <2>1, <2>2, CoverOthers
<1>8. QED BY <1>4, <1>5, <1>6, <1>7 DEF IInv

LEMMA WriteSessionInv ==
    ASSUME IInv, NEW w \in Workers, WriteSession(w)
    PROVE  IInv'
<1> DEFINE s == call[w].sid
           u == call[w].supi
<1>1. TypeOK /\ CallsOwn /\ KeysOwn /\ IndexCoversLive
  BY DEF IInv
<1>2. /\ s \in Sessions
      /\ u \in Supis \cup {NoSupi}
      /\ call[w].status \in Status
      /\ owner[s] = u
      /\ owner[s] # Unborn
  BY <1>1 DEF WriteSession, CallsOwn, CallOwns, TypeOK, Call
<1>3. /\ call[w].pc = "set"
      /\ SetJSON(s, [supi |-> u, status |-> call[w].status])
      /\ IF u = NoSupi THEN Reply(w, "ok") ELSE Goto(w, "sadd")
      /\ "ok" \in Results
      /\ UNCHANGED <<index, indexTtl, requests, owner, torn>>
  BY DEF Results, WriteSession
<1>4. /\ call' \in [Workers -> Call]
      /\ u # NoSupi => call'[w].pc = "sadd" /\ call'[w].sid = s
      /\ \A v \in Workers \ {w} : call'[v] = call[v]
      /\ CallsOwn'
      /\ issued' \in SUBSET Sessions
      /\ deleted' \in SUBSET Sessions
      /\ (\A x \in issued : owner[x] # Unborn)'
  <2>1. CASE u = NoSupi
    BY <1>3, <2>1, ReplyStep
  <2>2. CASE u # NoSupi
    BY <1>3, <2>2, GotoStep
  <2>3. QED BY <2>1, <2>2
<1>5. TypeOK'
  <2>1. sess' \in [Sessions -> Value] /\ sessTtl' \in [Sessions -> 0 .. TTL]
    BY <1>1, <1>2, <1>3 DEF TypeOK, SetJSON, Value
  <2>2. QED BY <1>1, <1>3, <1>4, <2>1 DEF TypeOK
<1>6. KeysOwn'
  BY <1>1, <1>2, <1>3, <1>4 DEF KeysOwn, TypeOK, SetJSON, Live
<1>7. IndexCoversLive'
  <2> SUFFICES ASSUME NEW x \in Sessions,
                      Live(x)', (sess[x].supi # NoSupi)', x \notin torn'
               PROVE  Pending(x)' \/ Indexed(x)'
    BY DEF IndexCoversLive
  <2>1. CASE x = s
    <3>1. u # NoSupi
      BY <1>1, <1>2, <1>3, <2>1 DEF TypeOK, SetJSON
    <3>2. QED BY <1>4, <2>1, <3>1 DEF Pending
  <2>2. CASE x # s
    <3>1. /\ sess'[x] = sess[x]
          /\ sessTtl'[x] = sessTtl[x]
      BY <1>1, <1>3, <2>2 DEF TypeOK, SetJSON
    <3>2. \A k \in Supis : indexTtl[k] \in Nat
      BY <1>1 DEF TypeOK, Forever
    <3>3. QED BY <1>2, <1>3, <1>4, <1>5, <2>2, <3>1, <3>2, CoverOthers
  <2>3. QED BY <2>1, <2>2
<1>8. QED BY <1>4, <1>5, <1>6, <1>7 DEF IInv

LEMMA WriteSessionErrorInv ==
    ASSUME IInv, NEW w \in Workers, WriteSessionError(w)
    PROVE  IInv'
<1> DEFINE s == call[w].sid
           u == call[w].supi
           lost == UNCHANGED <<redis, torn>>
           applied == /\ SetJSON(s, [supi |-> u, status |-> call[w].status])
                      /\ torn' = torn \cup {s}
                      /\ UNCHANGED <<index, indexTtl>>
<1>1. TypeOK /\ CallsOwn /\ KeysOwn /\ IndexCoversLive
  BY DEF IInv
<1>2. /\ s \in Sessions
      /\ u \in Supis \cup {NoSupi}
      /\ call[w].status \in Status
      /\ owner[s] = u
      /\ owner[s] # Unborn
  BY <1>1 DEF WriteSessionError, CallsOwn, CallOwns, TypeOK, Call
<1>3. /\ call[w].pc = "set"
      /\ lost \/ applied
      /\ "internal" \in Results
      /\ Reply(w, "internal")
      /\ UNCHANGED <<requests, owner>>
  BY DEF Results, WriteSessionError
<1>4. /\ call' \in [Workers -> Call]
      /\ \A v \in Workers \ {w} : call'[v] = call[v]
      /\ CallsOwn'
      /\ issued' \in SUBSET Sessions
      /\ deleted' \in SUBSET Sessions
      /\ (\A x \in issued : owner[x] # Unborn)'
  BY <1>3, ReplyStep
<1>5. CASE lost
  <2>1. TypeOK' /\ KeysOwn'
    BY <1>1, <1>3, <1>4, <1>5 DEF TypeOK, KeysOwn, redis, Live
  <2>2. IndexCoversLive'
    BY <1>3, <1>4, <1>5, CoverKept
  <2>3. QED BY <1>4, <2>1, <2>2 DEF IInv
<1>6. CASE applied
  <2>1. TypeOK'
    <3>1. sess' \in [Sessions -> Value] /\ sessTtl' \in [Sessions -> 0 .. TTL]
      BY <1>1, <1>2, <1>6 DEF TypeOK, SetJSON, Value
    <3>2. QED BY <1>1, <1>2, <1>3, <1>4, <1>6, <3>1 DEF TypeOK
  <2>2. KeysOwn'
    BY <1>1, <1>2, <1>3, <1>4, <1>6 DEF KeysOwn, TypeOK, SetJSON, Live
  <2>3. IndexCoversLive'
    <3> SUFFICES ASSUME NEW x \in Sessions,
                        Live(x)', (sess[x].supi # NoSupi)', x \notin torn'
                 PROVE  Pending(x)' \/ Indexed(x)'
      BY DEF IndexCoversLive
    <3>1. x # s
      BY <1>6
    <3>2. /\ sess'[x] = sess[x]
          /\ sessTtl'[x] = sessTtl[x]
      BY <1>1, <1>6, <3>1 DEF TypeOK, SetJSON
    <3>3. \A k \in Supis : indexTtl[k] \in Nat
      BY <1>1 DEF TypeOK, Forever
    <3>4. QED BY <1>2, <1>3, <1>4, <1>6, <2>1, <3>1, <3>2, <3>3, CoverOthers
  <2>4. QED BY <1>4, <2>1, <2>2, <2>3 DEF IInv
<1>7. QED BY <1>3, <1>5, <1>6

LEMMA RemoveFromIndexInv ==
    ASSUME IInv, NEW w \in Workers, RemoveFromIndex(w)
    PROVE  IInv'
<1> DEFINE s == call[w].sid
           u == call[w].supi
<1>1. TypeOK /\ CallsOwn /\ KeysOwn /\ IndexCoversLive
  BY DEF IInv
<1>2. s \in Sessions /\ u \in Supis /\ call[w].op = "delete"
  BY <1>1 DEF RemoveFromIndex, CallsOwn, CallOwns
<1>3. /\ call[w].pc = "srem"
      /\ SetRemove(s, u) \/ UNCHANGED <<index, indexTtl>>
      /\ Goto(w, "del")
      /\ UNCHANGED <<sess, sessTtl, requests, owner, torn>>
  BY DEF RemoveFromIndex
<1>4. /\ call' \in [Workers -> Call]
      /\ call'[w].pc = "del"
      /\ call'[w].sid = s
      /\ \A v \in Workers \ {w} : call'[v] = call[v]
      /\ CallsOwn'
      /\ issued' \in SUBSET Sessions
      /\ deleted' \in SUBSET Sessions
      /\ (\A x \in issued : owner[x] # Unborn)'
  BY <1>2, <1>3, GotoStep
<1>5. TypeOK'
  <2>1. index' \in [Supis -> SUBSET Sessions] /\ indexTtl' \in [Supis -> 0 .. Forever]
    BY <1>1, <1>2, <1>3 DEF TypeOK, SetRemove, SupiIndexKey, Forever
  <2>2. QED BY <1>1, <1>3, <1>4, <2>1 DEF TypeOK
<1>6. KeysOwn'
  BY <1>1, <1>2, <1>3, <1>4 DEF KeysOwn, TypeOK, SetRemove, SupiIndexKey, Live
<1>7. IndexCoversLive'
  <2> SUFFICES ASSUME NEW x \in Sessions,
                      Live(x)', (sess[x].supi # NoSupi)', x \notin torn'
               PROVE  Pending(x)' \/ Indexed(x)'
    BY DEF IndexCoversLive
  <2>1. CASE x = s
    BY <1>4, <2>1 DEF Pending
  <2>2. CASE x # s
    <3>1. \A k \in Supis : indexTtl[k] \in Nat
      BY <1>1 DEF TypeOK, Forever
    <3>2. \A k \in Supis : x \in index[k] => x \in index'[k] /\ indexTtl'[k] = indexTtl[k]
      BY <1>1, <1>2, <1>3, <2>2 DEF TypeOK, SetRemove, SupiIndexKey
    <3>3. QED BY <1>2, <1>3, <1>4, <1>5, <2>2, <3>1, <3>2, CoverOthers
  <2>3. QED BY <2>1, <2>2
<1>8. QED BY <1>4, <1>5, <1>6, <1>7 DEF IInv

\* DEL, whether its reply arrives or not.
LEMMA DeleteInv ==
    ASSUME IInv, NEW w \in Workers, DeleteKey(w) \/ DeleteKeyError(w)
    PROVE  IInv'
<1> DEFINE s == call[w].sid
<1>1. TypeOK /\ CallsOwn /\ KeysOwn /\ IndexCoversLive
  BY DEF IInv
<1>2. s \in Sessions
  BY <1>1 DEF DeleteKey, DeleteKeyError, CallsOwn, CallOwns
<1>3. PICK res \in Results :
          /\ call[w].pc = "del"
          /\ Reply(w, res)
          /\ UNCHANGED <<index, indexTtl, requests, owner>>
          /\ \/ Delete(s) /\ torn' \in {torn, torn \cup {s}}
             \/ UNCHANGED <<sess, sessTtl>> /\ torn' = torn \cup {s}
  BY DEF Results, DeleteKey, DeleteKeyError
<1>4. /\ call' \in [Workers -> Call]
      /\ \A v \in Workers \ {w} : call'[v] = call[v]
      /\ CallsOwn'
      /\ issued' \in SUBSET Sessions
      /\ deleted' \in SUBSET Sessions
      /\ (\A x \in issued : owner[x] # Unborn)'
  BY <1>3, ReplyStep
<1>5. TypeOK'
  <2>1. sess' \in [Sessions -> Value] /\ sessTtl' \in [Sessions -> 0 .. TTL]
    <3>1. Blank \in Value
      BY DEF Blank, Value, Status
    <3>2. QED BY <1>1, <1>2, <1>3, <3>1 DEF TypeOK, Delete
  <2>2. torn' \in SUBSET Sessions
    BY <1>1, <1>2, <1>3 DEF TypeOK
  <2>3. QED BY <1>1, <1>3, <1>4, <2>1, <2>2 DEF TypeOK
<1>6. KeysOwn'
  BY <1>1, <1>2, <1>3, <1>4 DEF KeysOwn, TypeOK, Delete, Live
<1>7. IndexCoversLive'
  <2> SUFFICES ASSUME NEW x \in Sessions,
                      Live(x)', (sess[x].supi # NoSupi)', x \notin torn'
               PROVE  Pending(x)' \/ Indexed(x)'
    BY DEF IndexCoversLive
  <2>1. x # s
    BY <1>1, <1>2, <1>3 DEF TypeOK, Delete, Live
  <2>2. /\ sess'[x] = sess[x]
        /\ sessTtl'[x] = sessTtl[x]
    BY <1>1, <1>3, <2>1 DEF TypeOK, Delete
  <2>3. \A k \in Supis : indexTtl[k] \in Nat
    BY <1>1 DEF TypeOK, Forever
  <2>4. QED BY <1>2, <1>3, <1>4, <1>5, <2>1, <2>2, <2>3, CoverOthers
<1>8. QED BY <1>4, <1>5, <1>6, <1>7 DEF IInv

\* A step that moves one call and no key, from a round trip outside the two
\* writes: reads and requests.
LEMMA ReadKeeps ==
    ASSUME IInv, NEW w \in Workers, call[w].pc \notin {"sadd", "del"},
           call' \in [Workers -> Call],
           \A v \in Workers \ {w} : call'[v] = call[v],
           CallsOwn',
           issued' \in SUBSET Sessions, deleted' \in SUBSET Sessions,
           requests' \in 0 .. MaxRequests,
           (\A s \in issued : owner[s] # Unborn)',
           UNCHANGED <<redis, owner, torn>>
    PROVE  IInv'
<1>1. TypeOK /\ KeysOwn
  BY DEF IInv
<1>2. TypeOK'
  BY <1>1 DEF TypeOK, redis
<1>3. KeysOwn'
  BY <1>1 DEF KeysOwn, redis, Live
<1>4. QED BY <1>2, <1>3, CoverKept DEF IInv

LEMMA ReadFoundInv ==
    ASSUME IInv, NEW w \in Workers, ReadFound(w)
    PROVE  IInv'
<1> DEFINE s == call[w].sid
           u == sess[s].supi
           toSet == [call[w] EXCEPT !.pc = "set", !.supi = u]
           toDelete == [call[w] EXCEPT !.pc = IF u = NoSupi THEN "del" ELSE "srem",
                                       !.supi = u]
<1>1. /\ TypeOK /\ KeysOwn
      /\ call[w] \in Call
      /\ CallOwns(call[w])
  BY DEF IInv, TypeOK, CallsOwn
<1>2. /\ call[w].pc = "get"
      /\ Live(s)
      /\ s \in Sessions
      /\ UNCHANGED <<redis, requests, owner, torn>>
  BY <1>1 DEF ReadFound, CallOwns
<1>3. u \in Supis \cup {NoSupi} /\ owner[s] = u
  BY <1>1, <1>2 DEF TypeOK, KeysOwn, Value
<1>4. CASE call[w].op = "update"
  <2>1. call' = [call EXCEPT ![w] = toSet] /\ UNCHANGED <<issued, deleted>>
    BY <1>4 DEF ReadFound
  <2>2. /\ toSet \in Call
        /\ toSet.pc = "set"
        /\ toSet.op = "update"
        /\ toSet.sid = s
        /\ toSet.supi = u
    BY <1>1, <1>3, <1>4 DEF Call, Steps
  <2>3. CallOwns(toSet)
    BY <1>1, <1>2, <1>3, <2>2 DEF CallOwns
  <2> HIDE DEF toSet
  <2>4. /\ call' \in [Workers -> Call]
        /\ \A v \in Workers \ {w} : call'[v] = call[v]
        /\ CallsOwn'
    BY <1>2, <2>1, <2>2, <2>3, CallStep
  <2>5. QED BY <1>1, <1>2, <2>1, <2>4, ReadKeeps DEF TypeOK, KeysOwn
<1>5. CASE call[w].op = "delete"
  <2>1. call' = [call EXCEPT ![w] = toDelete] /\ UNCHANGED <<issued, deleted>>
    BY <1>5 DEF ReadFound
  <2>2. /\ toDelete \in Call
        /\ toDelete.pc = IF u = NoSupi THEN "del" ELSE "srem"
        /\ toDelete.op = "delete"
        /\ toDelete.sid = s
        /\ toDelete.supi = u
    BY <1>1, <1>3, <1>5 DEF Call, Steps
  <2>3. CallOwns(toDelete)
    BY <1>1, <1>2, <1>3, <2>2 DEF CallOwns
  <2> HIDE DEF toDelete
  <2>4. /\ call' \in [Workers -> Call]
        /\ \A v \in Workers \ {w} : call'[v] = call[v]
        /\ CallsOwn'
    BY <1>2, <2>1, <2>2, <2>3, CallStep
  <2>5. QED BY <1>1, <1>2, <2>1, <2>4, ReadKeeps DEF TypeOK, KeysOwn
<1>6. CASE call[w].op \notin {"update", "delete"}
  <2>1. Reply(w, "ok") /\ "ok" \in Results
    BY <1>6 DEF ReadFound, Results
  <2>2. QED BY <1>1, <1>2, <2>1, ReplyStep, ReadKeeps DEF TypeOK
<1>7. QED BY <1>4, <1>5, <1>6

LEMMA ReadFailedInv ==
    ASSUME IInv, NEW w \in Workers, ReadMissing(w) \/ ReadError(w)
    PROVE  IInv'
<1>1. TypeOK
  BY DEF IInv
<1>2. PICK res \in Results \ {"ok"} :
          /\ call[w].pc = "get"
          /\ IF call[w].op = "delete" THEN Goto(w, "del") ELSE Reply(w, res)
          /\ UNCHANGED <<redis, requests, owner, torn>>
  BY DEF Results, ReadMissing, ReadError, ReadFailed
<1>3. CASE call[w].op = "delete"
  BY <1>1, <1>2, <1>3, GotoStep, ReadKeeps DEF TypeOK
<1>4. CASE call[w].op # "delete"
  BY <1>1, <1>2, <1>4, ReplyStep, ReadKeeps DEF TypeOK
<1>5. QED BY <1>3, <1>4

LEMMA ReadMembersInv ==
    ASSUME IInv, NEW w \in Workers, ReadMembers(w)
    PROVE  IInv'
<1> DEFINE members == index[SupiIndexKey(call[w].supi)]
<1>1. /\ TypeOK /\ KeysOwn
      /\ call[w] \in Call
      /\ CallOwns(call[w])
  BY DEF IInv, TypeOK, CallsOwn
<1>2. /\ call[w].pc = "smembers"
      /\ call[w].supi \in Supis
      /\ call[w].op = "bySupi"
      /\ UNCHANGED <<redis, requests, owner, torn>>
  BY <1>1 DEF ReadMembers, CallOwns
<1>3. CASE \E s \in members :
               /\ call' = [call EXCEPT ![w] = [@ EXCEPT !.pc = "get", !.sid = s]]
               /\ UNCHANGED <<issued, deleted>>
  <2>1. PICK s \in members :
            /\ call' = [call EXCEPT ![w] = [@ EXCEPT !.pc = "get", !.sid = s]]
            /\ UNCHANGED <<issued, deleted>>
    BY <1>3
  <2> DEFINE c == [call[w] EXCEPT !.pc = "get", !.sid = s]
  <2>2. s \in Sessions /\ owner[s] = call[w].supi
    BY <1>1, <1>2 DEF TypeOK, KeysOwn, SupiIndexKey
  <2>3. /\ c \in Call
        /\ c.pc = "get"
        /\ c.op = "bySupi"
        /\ c.sid = s
        /\ c.supi = call[w].supi
    BY <1>1, <1>2, <2>2 DEF Call, Steps
  <2>4. CallOwns(c)
    BY <1>1, <1>2, <2>2, <2>3 DEF CallOwns
  <2>5. call' = [call EXCEPT ![w] = c]
    BY <2>1
  <2> HIDE DEF c
  <2>6. /\ call' \in [Workers -> Call]
        /\ \A v \in Workers \ {w} : call'[v] = call[v]
        /\ CallsOwn'
    BY <1>2, <2>3, <2>4, <2>5, CallStep
  <2>7. QED BY <1>1, <1>2, <2>1, <2>6, ReadKeeps DEF TypeOK, KeysOwn
<1>4. CASE \E res \in Results \ {"ok"} : Reply(w, res)
  BY <1>1, <1>2, <1>4, ReplyStep, ReadKeeps DEF TypeOK
<1>5. QED BY <1>3, <1>4 DEF ReadMembers, Results

LEMMA RequestInv ==
    ASSUME IInv, NEW w \in Workers, Request(w)
    PROVE  IInv'
<1>1. TypeOK /\ CallsOwn /\ KeysOwn
  BY DEF IInv
<1>2. ASSUME NEW op \in Ops, NEW s \in Sessions \cup {NoSession},
             NEW u \in Supis \cup {NoSupi}, NEW status \in Status,
             NEW pc \in {"set", "get", "smembers"},
             Begin(w, op, s, u, status, pc),
             owner' \in [Sessions -> Supis \cup {NoSupi, Unborn}],
             \A x \in Sessions : owner[x] # Unborn => owner'[x] = owner[x],
             pc # "smembers" => s \in Sessions /\ owner'[s] # Unborn,
             pc = "set" => op = "create" /\ owner'[s] = u,
             pc = "smembers" => u \in Supis,
             op = "bySupi" <=> pc = "smembers"
      PROVE  IInv'
  <2> DEFINE c == [op |-> op, pc |-> pc, sid |-> s, supi |-> u,
                   status |-> status, res |-> "none"]
  <2>1. /\ c \in Call
        /\ call' = [call EXCEPT ![w] = c]
        /\ call[w].pc = "idle"
        /\ requests' \in 0 .. MaxRequests
        /\ UNCHANGED <<redis, issued, deleted, torn>>
    BY <1>1, <1>2 DEF Begin, Call, Results, Steps, TypeOK
  <2> HIDE DEF c
  <2>2. /\ call' \in [Workers -> Call]
        /\ call'[w] = c
        /\ \A v \in Workers \ {w} : call'[v] = call[v]
    BY <1>1, <2>1 DEF TypeOK
  <2>3. \A x \in Sessions : owner[x] # Unborn => owner'[x] = owner[x]
    BY <1>2
  <2>4. TypeOK'
    BY <1>1, <1>2, <2>1, <2>2 DEF TypeOK, redis
  <2>5. CallsOwn'
    <3>1. CallOwns(call[w])'
      BY <1>2, <2>2 DEF c, CallOwns
    <3>2. ASSUME NEW v \in Workers \ {w}
          PROVE  CallOwns(call[v])'
      <4>1. call[v] \in Call /\ CallOwns(call[v]) /\ call'[v] = call[v]
        BY <1>1, <2>2 DEF TypeOK, CallsOwn
      <4>2. call[v].supi # Unborn
        BY <4>1 DEF Call
      <4>3. QED BY <2>3, <4>1, <4>2 DEF CallOwns
    <3>3. QED BY <3>1, <3>2 DEF CallsOwn
  <2>6. KeysOwn'
    <3>1. \A x \in issued : owner'[x] # Unborn
      BY <1>1, <2>3 DEF KeysOwn, TypeOK
    <3>2. \A x \in Sessions : Live(x) => owner'[x] # Unborn /\ sess[x].supi = owner'[x]
      BY <1>1, <2>3 DEF KeysOwn, TypeOK
    <3>3. \A k \in Supis : \A x \in index[k] : owner'[x] = k
      BY <1>1, <2>3 DEF KeysOwn, TypeOK
    <3>4. QED BY <2>1, <3>1, <3>2, <3>3 DEF KeysOwn, redis, Live
  <2>7. IndexCoversLive'
    BY <2>1, <2>2, CoverKept
  <2>8. QED BY <2>4, <2>5, <2>6, <2>7 DEF IInv
<1>3. \A s \in issued : s \in Sessions /\ owner[s] # Unborn
  BY <1>1 DEF TypeOK, KeysOwn
<1>4. ASSUME NEW s \in Sessions, NEW u \in Supis \cup {NoSupi}, CreateSession(w, s, u)
      PROVE  IInv'
  <2>1. /\ owner'[s] = u
        /\ u # Unborn
        /\ owner' \in [Sessions -> Supis \cup {NoSupi, Unborn}]
        /\ \A x \in Sessions : owner[x] # Unborn => owner'[x] = owner[x]
    BY <1>1, <1>4 DEF CreateSession, TypeOK
  <2>2. QED BY <1>2, <1>4, <2>1 DEF CreateSession, Ops, Status
<1>5. ASSUME NEW s \in Sessions, NEW op \in {"get", "update", "delete"}, NEW status \in Status,
             s \in issued, Begin(w, op, s, NoSupi, status, "get"), owner' = owner
      PROVE  IInv'
  <2>1. /\ op \in Ops
        /\ op # "bySupi"
        /\ owner'[s] # Unborn
        /\ owner' \in [Sessions -> Supis \cup {NoSupi, Unborn}]
        /\ \A x \in Sessions : owner'[x] = owner[x]
    BY <1>1, <1>3, <1>5 DEF Ops, TypeOK
  <2>2. QED BY <1>2, <1>5, <2>1
<1>6. "INIT" \in Status /\ \A p \in UpdateStatuses : MapPbSessionStatus(p) \in Status
  BY DEF MapPbSessionStatus, Status
<1>7. ASSUME NEW s \in Sessions,
             \/ GetSession(w, s) \/ DeleteSession(w, s)
             \/ \E p \in UpdateStatuses : UpdateSessionStatus(w, s, p)
      PROVE  IInv'
  BY <1>5, <1>6, <1>7 DEF GetSession, DeleteSession, UpdateSessionStatus, Addressable
<1>8. ASSUME NEW u \in Supis, GetSessionBySupi(w, u)
      PROVE  IInv'
  <2>1. /\ Begin(w, "bySupi", NoSession, u, "INIT", "smembers")
        /\ owner' \in [Sessions -> Supis \cup {NoSupi, Unborn}]
        /\ \A x \in Sessions : owner'[x] = owner[x]
        /\ "bySupi" \in Ops
    BY <1>1, <1>8 DEF GetSessionBySupi, Ops, TypeOK
  <2>2. QED BY <1>2, <1>6, <2>1
<1>9. QED BY <1>4, <1>7, <1>8 DEF Request

LEMMA TickInv ==
    ASSUME IInv, Tick
    PROVE  IInv'
<1>1. TypeOK /\ CallsOwn /\ KeysOwn /\ IndexCoversLive
  BY DEF IInv
<1>2. Blank \in Value
  BY DEF Blank, Value, Status
<1>3. TypeOK'
  <2>1. sess' \in [Sessions -> Value] /\ index' \in [Supis -> SUBSET Sessions]
    BY <1>1, <1>2 DEF Tick, TypeOK
  <2>2. sessTtl' \in [Sessions -> 0 .. TTL] /\ indexTtl' \in [Supis -> 0 .. Forever]
    BY <1>1 DEF Tick, TypeOK, Left, Forever
  <2>3. QED BY <1>1, <2>1, <2>2 DEF Tick, TypeOK, history
<1>4. CallsOwn'
  BY <1>1 DEF Tick, CallsOwn, CallOwns, history
<1>5. \A x \in Sessions : Live(x)' => /\ Live(x)
                                      /\ sess'[x] = sess[x]
                                      /\ sessTtl[x] > 1
                                      /\ sessTtl'[x] = sessTtl[x] - 1
  BY <1>1 DEF Tick, TypeOK, Live, Left, Forever
<1>6. KeysOwn'
  <2>1. \A u \in Supis : \A x \in index'[u] : owner[x] = u
    BY <1>1 DEF Tick, KeysOwn
  <2>2. QED BY <1>1, <1>5, <2>1 DEF Tick, KeysOwn, history
<1>7. IndexCoversLive'
  <2> SUFFICES ASSUME NEW x \in Sessions,
                      Live(x)', (sess[x].supi # NoSupi)', x \notin torn'
               PROVE  Pending(x)' \/ Indexed(x)'
    BY DEF IndexCoversLive
  <2>1. Pending(x) \/ Indexed(x)
    BY <1>1, <1>5 DEF IndexCoversLive, Tick, history
  <2>2. CASE Pending(x)
    BY <2>2 DEF Pending, Tick
  <2>3. CASE Indexed(x)
    <3> DEFINE u == sess[x].supi
    <3>1. u \in Supis
      BY <1>1, <1>5 DEF TypeOK, Value
    <3>2. /\ x \in index[u]
          /\ indexTtl[u] >= sessTtl[x]
          /\ indexTtl[u] \in 0 .. Forever
          /\ sessTtl[x] \in 0 .. TTL
      BY <1>1, <2>3, <3>1 DEF TypeOK, Indexed, SupiIndexKey
    <3>3. x \in index'[u] /\ indexTtl'[u] >= sessTtl'[x]
      BY <1>5, <3>1, <3>2 DEF Tick, Left, Forever
    <3>4. QED BY <1>5, <3>3 DEF Indexed, SupiIndexKey
  <2>4. QED BY <2>1, <2>2, <2>3
<1>8. QED BY <1>3, <1>4, <1>6, <1>7 DEF IInv

-----------------------------------------------------------------------------
(* The theorems.                                                           *)

LEMMA InitInv == Init => IInv
<1> SUFFICES ASSUME Init
             PROVE  IInv
  OBVIOUS
<1>1. TypeOK
  BY DEF Init, TypeOK, Forever, Value, Blank, Status, Call, Ops, Steps, Results
<1>2. CallsOwn
  BY DEF Init, CallsOwn, CallOwns
<1>3. KeysOwn /\ IndexCoversLive
  BY DEF Init, KeysOwn, IndexCoversLive, Live
<1>4. QED BY <1>1, <1>2, <1>3 DEF IInv

LEMMA NextInv == IInv /\ [Next]_vars => IInv'
<1> SUFFICES ASSUME IInv, [Next]_vars
             PROVE  IInv'
  OBVIOUS
<1>1. CASE Tick
  BY <1>1, TickInv
<1>2. ASSUME NEW w \in Workers, Request(w)
      PROVE  IInv'
  BY <1>2, RequestInv
<1>3. ASSUME NEW w \in Workers, RoundTrip(w)
      PROVE  IInv'
  BY <1>3, ReadFoundInv, ReadFailedInv, WriteSessionInv, WriteSessionErrorInv,
     WriteIndexInv, WriteIndexErrorInv, RemoveFromIndexInv, DeleteInv, ReadMembersInv
  DEF RoundTrip
<1>4. CASE UNCHANGED vars
  <2>1. TypeOK' /\ CallsOwn' /\ KeysOwn'
    BY <1>4 DEF IInv, vars, redis, history, TypeOK, CallsOwn, CallOwns, KeysOwn, Live
  <2>2. IndexCoversLive'
    BY <1>4 DEF IInv, vars, redis, history, IndexCoversLive, Live, Pending, Indexed
  <2>3. QED BY <2>1, <2>2 DEF IInv
<1>5. QED BY <1>1, <1>2, <1>3, <1>4 DEF Next

\* Round trips keep ids fresh: a handler keeps its operation and, but for a lookup,
\* its session, and only its own success issues or deletes it.
LEMMA FreshStep ==
    ASSUME IInv, FreshCreates, NEW w \in Workers, call[w].pc # "idle",
           \A v \in Workers \ {w} : call'[v] = call[v],
           call'[w].op = call[w].op,
           call[w].op # "bySupi" => call'[w].sid = call[w].sid,
           \/ UNCHANGED <<issued, deleted>>
           \/ /\ call'[w].pc = "idle"
              /\ issued' = IF call[w].op = "create" THEN issued \cup {call[w].sid} ELSE issued
              /\ deleted' = IF call[w].op = "delete" THEN deleted \cup {call[w].sid} ELSE deleted
    PROVE  FreshCreates'
<1>1. deleted' \subseteq issued'
  BY DEF FreshCreates
<1>2. ASSUME NEW v \in Workers, (call[v].op = "delete")', (call[v].pc # "idle")'
      PROVE  (call[v].sid \in issued)'
  BY <1>2 DEF FreshCreates
<1>3. ASSUME NEW v \in Workers, Creates(v)'
      PROVE  /\ (call[v].sid \notin issued)'
             /\ \A u \in Workers \ {v} : Creates(u)' => call'[u].sid # call'[v].sid
  <2>1. \A u \in Workers : Creates(u)' => Creates(u) /\ call'[u].sid = call[u].sid
    BY DEF Creates
  <2>2. call[v].sid \notin issued
    BY <1>3, <2>1 DEF FreshCreates
  <2>3. \A u \in Workers \ {v} : Creates(u) => call[u].sid # call[v].sid
    BY <1>3, <2>1 DEF FreshCreates
  <2>4. issued' = issued \/ (Creates(w) /\ issued' = issued \cup {call[w].sid} /\ v # w)
    BY <1>3 DEF Creates
  <2>5. call'[v].sid \notin issued'
    BY <1>3, <2>1, <2>2, <2>3, <2>4
  <2>6. QED BY <1>3, <2>1, <2>3, <2>5
<1>4. QED BY <1>1, <1>2, <1>3 DEF FreshCreates

LEMMA FreshReply ==
    ASSUME IInv, FreshCreates, NEW w \in Workers, NEW res \in Results, Reply(w, res),
           call[w].pc # "idle"
    PROVE  FreshCreates'
<1>1. call \in [Workers -> Call]
  BY DEF IInv, TypeOK
<1>2. /\ \A v \in Workers \ {w} : call'[v] = call[v]
      /\ call'[w].op = call[w].op
      /\ call'[w].sid = call[w].sid
      /\ call'[w].pc = "idle"
  BY <1>1 DEF Reply, Call
<1>3. \/ UNCHANGED <<issued, deleted>>
      \/ /\ issued' = IF call[w].op = "create" THEN issued \cup {call[w].sid} ELSE issued
         /\ deleted' = IF call[w].op = "delete" THEN deleted \cup {call[w].sid} ELSE deleted
  BY DEF Reply, Succeeds
<1>4. QED BY <1>2, <1>3, FreshStep

LEMMA FreshGoto ==
    ASSUME IInv, FreshCreates, NEW w \in Workers, NEW pc \in Steps, Goto(w, pc),
           call[w].pc # "idle"
    PROVE  FreshCreates'
<1>1. call \in [Workers -> Call]
  BY DEF IInv, TypeOK
<1>2. /\ \A v \in Workers \ {w} : call'[v] = call[v]
      /\ call'[w].op = call[w].op
      /\ call'[w].sid = call[w].sid
      /\ UNCHANGED <<issued, deleted>>
  BY <1>1 DEF Goto, Call
<1>3. QED BY <1>2, FreshStep

LEMMA FreshRead ==
    ASSUME IInv, FreshCreates, NEW w \in Workers, ReadFound(w) \/ ReadMembers(w)
    PROVE  FreshCreates'
<1>1. call \in [Workers -> Call] /\ CallOwns(call[w])
  BY DEF IInv, TypeOK, CallsOwn
<1>2. "ok" \in Results /\ "notFound" \in Results /\ "internal" \in Results
  BY DEF Results
<1>3. call[w].pc # "idle"
  BY DEF ReadFound, ReadMembers
<1>4. CASE ReadFound(w) /\ call[w].op = "update"
  <2>1. /\ call' = [call EXCEPT ![w] = [@ EXCEPT !.pc = "set", !.supi = sess[call[w].sid].supi]]
        /\ UNCHANGED <<issued, deleted>>
    BY <1>4 DEF ReadFound
  <2>2. /\ \A v \in Workers \ {w} : call'[v] = call[v]
        /\ call'[w].op = call[w].op
        /\ call'[w].sid = call[w].sid
    BY <1>1, <2>1 DEF Call
  <2>3. QED BY <1>3, <2>1, <2>2, FreshStep
<1>5. CASE ReadFound(w) /\ call[w].op = "delete"
  <2> DEFINE supi == sess[call[w].sid].supi
  <2>1. /\ call' = [call EXCEPT ![w] = [@ EXCEPT !.pc = IF supi = NoSupi THEN "del" ELSE "srem",
                                                 !.supi = supi]]
        /\ UNCHANGED <<issued, deleted>>
    BY <1>5 DEF ReadFound
  <2>2. /\ \A v \in Workers \ {w} : call'[v] = call[v]
        /\ call'[w].op = call[w].op
        /\ call'[w].sid = call[w].sid
    BY <1>1, <2>1 DEF Call
  <2>3. QED BY <1>3, <2>1, <2>2, FreshStep
<1>6. CASE ReadFound(w) /\ call[w].op \notin {"update", "delete"}
  <2>1. Reply(w, "ok")
    BY <1>6 DEF ReadFound
  <2>2. QED BY <1>2, <1>3, <2>1, FreshReply
<1>7. CASE ReadMembers(w)
  <2>1. CASE Reply(w, "notFound") \/ Reply(w, "internal")
    BY <1>2, <1>3, <2>1, FreshReply
  <2>2. ASSUME NEW s \in index[SupiIndexKey(call[w].supi)],
               call' = [call EXCEPT ![w] = [@ EXCEPT !.pc = "get", !.sid = s]],
               UNCHANGED <<issued, deleted>>
        PROVE  FreshCreates'
    <3>1. /\ \A v \in Workers \ {w} : call'[v] = call[v]
          /\ call'[w].op = call[w].op
      BY <1>1, <2>2 DEF Call
    <3>2. call[w].op = "bySupi"
      BY <1>1, <1>7 DEF ReadMembers, CallOwns
    <3>3. QED BY <1>3, <2>2, <3>1, <3>2, FreshStep
  <2>3. QED BY <1>7, <2>1, <2>2 DEF ReadMembers
<1>8. QED BY <1>4, <1>5, <1>6, <1>7

LEMMA FreshRequest ==
    ASSUME IInv, FreshCreates, NEW w \in Workers, Request(w)
    PROVE  FreshCreates'
<1>1. call \in [Workers -> Call] /\ CallsOwn /\ KeysOwn
  BY DEF IInv, TypeOK
<1>2. call[w].pc = "idle" /\ UNCHANGED <<issued, deleted>>
  BY DEF Request, CreateSession, GetSession, UpdateSessionStatus, DeleteSession,
     GetSessionBySupi, Begin
<1>3. PICK op \in Ops, pc \in Steps, s \in Sessions \cup {NoSession}, u \in Supis \cup {NoSupi},
           status \in {"INIT"} \cup Status :
        /\ call' = [call EXCEPT ![w] = [op |-> op, pc |-> pc, sid |-> s, supi |-> u,
                                        status |-> status, res |-> "none"]]
        /\ op = "create" => owner[s] = Unborn
        /\ op = "delete" => s \in issued
  BY DEF Request, CreateSession, GetSession, UpdateSessionStatus, DeleteSession,
     GetSessionBySupi, Begin, Addressable, Ops, Steps, MapPbSessionStatus, Status
<1>4. /\ \A v \in Workers \ {w} : call'[v] = call[v]
      /\ call'[w].op = op
      /\ call'[w].sid = s
  BY <1>1, <1>3
<1>5. ASSUME NEW v \in Workers, Creates(v)
      PROVE  owner[call[v].sid] # Unborn
  BY <1>1, <1>5 DEF Creates, CallsOwn, CallOwns, IInv, TypeOK, Call, Steps
<1>6. ASSUME op = "create"
      PROVE  s \notin issued /\ \A v \in Workers : Creates(v) => call[v].sid # s
  BY <1>1, <1>3, <1>5, <1>6 DEF KeysOwn
<1>7. \A v \in Workers \ {w} : Creates(v)' = Creates(v)
  BY <1>4 DEF Creates
<1>8. Creates(w)' => op = "create"
  BY <1>4 DEF Creates
<1>9. ASSUME NEW v \in Workers
      PROVE  /\ (call[v].op = "delete" /\ call[v].pc # "idle" => call[v].sid \in issued)'
             /\ Creates(v)' => /\ (call[v].sid \notin issued)'
                               /\ \A x \in Workers \ {v} : Creates(x)' => call'[x].sid # call'[v].sid
  <2>1. CASE v = w
    BY <1>2, <1>3, <1>4, <1>6, <1>7, <1>8, <2>1
  <2>2. CASE v # w
    BY <1>2, <1>4, <1>6, <1>7, <1>8, <2>2 DEF FreshCreates
  <2>3. QED BY <2>1, <2>2
<1>10. QED BY <1>2, <1>9 DEF FreshCreates

LEMMA FreshInv == IInv /\ FreshCreates /\ [Next]_vars => FreshCreates'
<1> SUFFICES ASSUME IInv, FreshCreates, [Next]_vars
             PROVE  FreshCreates'
  OBVIOUS
<1>1. CASE Tick \/ UNCHANGED vars
  BY <1>1 DEF Tick, vars, history, FreshCreates, Creates
<1>2. ASSUME NEW w \in Workers, RoundTrip(w)
      PROVE  FreshCreates'
  <2>1. /\ "ok" \in Results /\ "notFound" \in Results /\ "internal" \in Results
        /\ "del" \in Steps /\ "sadd" \in Steps
    BY DEF Results, Steps
  <2>2. CASE ReadFound(w) \/ ReadMembers(w)
    BY <2>2, FreshRead
  <2>3. CASE ReadMissing(w) \/ ReadError(w)
    BY <2>1, <2>3, FreshReply, FreshGoto DEF ReadMissing, ReadError, ReadFailed
  <2>4. CASE WriteSession(w) \/ WriteSessionError(w)
    BY <2>1, <2>4, FreshReply, FreshGoto DEF WriteSession, WriteSessionError
  <2>5. CASE WriteIndex(w) \/ WriteIndexError(w) \/ RemoveFromIndex(w)
    BY <2>1, <2>5, FreshReply, FreshGoto DEF WriteIndex, WriteIndexError, RemoveFromIndex
  <2>6. CASE DeleteKey(w) \/ DeleteKeyError(w)
    BY <2>1, <2>6, FreshReply DEF DeleteKey, DeleteKeyError
  <2>7. QED BY <1>2, <2>2, <2>3, <2>4, <2>5, <2>6 DEF RoundTrip
<1>3. QED BY <1>1, <1>2, FreshRequest DEF Next

\* A step that leaves a session alive and reported deleted did not report it, and
\* if the session was dead before, an update that had read it wrote it.
LEMMA DeletedStep ==
    ASSUME IInv, FreshCreates, [Next]_vars, NEW s \in Sessions, s \in deleted', Live(s)'
    PROVE  /\ s \in deleted
           /\ Live(s) \/ \E w \in Workers :
                  call[w].op = "update" /\ call[w].pc = "set" /\ call[w].sid = s
<1>1. TypeOK /\ CallsOwn /\ KeysOwn
  BY DEF IInv
<1>2. CASE Tick \/ UNCHANGED vars
  BY <1>1, <1>2 DEF Tick, vars, redis, history, TypeOK, Live, Left, Forever
<1>3. ASSUME NEW w \in Workers, Request(w)
      PROVE  s \in deleted /\ Live(s)
  BY <1>3 DEF Request, CreateSession, GetSession, UpdateSessionStatus, DeleteSession,
     GetSessionBySupi, Begin, redis, Live
<1>4. ASSUME NEW w \in Workers, ReadFound(w) \/ ReadMissing(w) \/ ReadError(w) \/ ReadMembers(w)
      PROVE  s \in deleted /\ Live(s)
  <2>1. UNCHANGED redis
    BY <1>4 DEF ReadFound, ReadMissing, ReadError, ReadFailed, ReadMembers
  <2>2. deleted' = deleted
    BY <1>4 DEF ReadFound, ReadMissing, ReadError, ReadFailed, ReadMembers, Reply, Goto, Succeeds
  <2>3. QED BY <2>1, <2>2 DEF redis, Live
<1>5. ASSUME NEW w \in Workers, WriteSession(w) \/ WriteSessionError(w)
      PROVE  s \in deleted /\ (Live(s) \/ (call[w].op = "update" /\ call[w].pc = "set" /\ call[w].sid = s))
  <2>1. call[w].pc = "set" /\ CallOwns(call[w]) /\ call[w].op \in {"create", "update"}
    BY <1>1, <1>5 DEF WriteSession, WriteSessionError, CallsOwn, CallOwns
  <2>2. deleted' = deleted
    BY <1>5, <2>1 DEF WriteSession, WriteSessionError, Reply, Goto, Succeeds
  <2>3. Live(s) \/ call[w].sid = s
    BY <1>1, <1>5 DEF WriteSession, WriteSessionError, SetJSON, TypeOK, Live, redis
  <2>4. CASE call[w].op = "create" /\ call[w].sid = s
    BY <2>1, <2>2, <2>4 DEF FreshCreates, Creates
  <2>5. QED BY <2>1, <2>2, <2>3, <2>4
<1>6. ASSUME NEW w \in Workers, WriteIndex(w) \/ WriteIndexError(w) \/ RemoveFromIndex(w)
      PROVE  s \in deleted /\ Live(s)
  <2>1. UNCHANGED <<sess, sessTtl>>
    BY <1>6 DEF WriteIndex, WriteIndexError, RemoveFromIndex
  <2>2. deleted' = deleted
    BY <1>1, <1>6 DEF WriteIndex, WriteIndexError, RemoveFromIndex, Reply, Goto, Succeeds,
       CallsOwn, CallOwns
  <2>3. QED BY <2>1, <2>2 DEF Live
<1>7. ASSUME NEW w \in Workers, DeleteKey(w) \/ DeleteKeyError(w)
      PROVE  s \in deleted /\ Live(s)
  <2>1. deleted' \subseteq deleted \cup {call[w].sid} /\ (DeleteKeyError(w) => deleted' = deleted)
    BY <1>7 DEF DeleteKey, DeleteKeyError, Reply, Succeeds
  <2>2. CASE DeleteKey(w)
    BY <1>1, <2>1, <2>2 DEF DeleteKey, Delete, TypeOK, Live
  <2>3. CASE DeleteKeyError(w)
    BY <1>1, <2>1, <2>3 DEF DeleteKeyError, Delete, TypeOK, Live
  <2>4. QED BY <1>7, <2>2, <2>3
<1>8. QED BY <1>2, <1>3, <1>4, <1>5, <1>6, <1>7 DEF Next, RoundTrip

\* Every reachable state satisfies the inductive invariant.
THEOREM Invariance == Spec => []IInv
BY InitInv, NextInv, PTL DEF Spec

\* Type correctness of the session manager.
THEOREM TypeCorrect == Spec => []TypeOK
<1>1. IInv => TypeOK
  BY DEF IInv
<1>2. QED BY <1>1, Invariance, PTL

\* A lookup by SUPI never answers with another subscriber's session.
THEOREM LookupStaysHome == Spec => []NoForeignSession
<1>1. IInv => NoForeignSession
  BY DEF IInv, CallsOwn, CallOwns, NoForeignSession
<1>2. QED BY <1>1, Invariance, PTL

\* A live session is reachable through its SUPI, up to races in progress and
\* failed commands, and its index entry does not expire first.
THEOREM IndexCovers == Spec => []IndexCoversLive
<1>1. IInv => IndexCoversLive
  BY DEF IInv
<1>2. QED BY <1>1, Invariance, PTL

\* A session reported deleted is dead at that moment, and only an update that had
\* read it before brings it back.
THEOREM DeletionLasts == Spec => DeletedUnlessUpdated
<1>1. IInv /\ FreshCreates /\ IInv' /\ [Next]_vars =>
          [\A s \in deleted' : (Live(s))' =>
             /\ s \in deleted
             /\ Live(s) \/ \E w \in Workers :
                  call[w].op = "update" /\ call[w].pc = "set" /\ call[w].sid = s]_vars
  BY DeletedStep DEF IInv, TypeOK
<1>2. Init => FreshCreates
  BY DEF Init, FreshCreates, Creates
<1>3. QED BY <1>1, <1>2, FreshInv, Invariance, PTL DEF Spec, DeletedUnlessUpdated
=============================================================================
