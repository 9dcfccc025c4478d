-------------------------- MODULE BufferPoolProofs --------------------------
(***************************************************************************)
(* Proofs about BufferPool for every number of threads, references,        *)
(* buffers and data: nothing is used after it was freed, everything is     *)
(* freed in the end, and references are as good as copies.                 *)
(***************************************************************************)
EXTENDS BufferPool, FiniteSetTheorems, TLAPS

RefsOf(b) == {r \in Refs : ref[r] # None /\ BufferOf(r) = b}

\* b is the copy that t has made and has not put in place yet.
Fresh(t, b) == At(t, "replace") /\ call[t].buf = b

(* A call has its reference for itself, and nobody else frees or fills its  *)
(* buffer.  What was decided when it began still holds: a buffer found      *)
(* writable has one reference.                                              *)
CallInv ==
    /\ \A t \in Threads : call[t].at \in OnRef => Has(t, call[t].ref)
    /\ \A t \in Threads : call[t].at \in OnBuf => call[t].buf \in Live
    /\ \A t, u \in Threads :
          call[t].at \in OnBuf /\ call[u].at \in OnBuf /\ call[t].buf = call[u].buf => t = u
    /\ \A t \in Threads : call[t].at \in {"write", "realloc", "get"}
                             => buf[BufferOf(call[t].ref)].refcount = 1
    /\ \A t \in Threads : At(t, "realloc") => ~buf[BufferOf(call[t].ref)].pooled
    /\ \A t \in Threads : At(t, "get") => buf[BufferOf(call[t].ref)].pooled

(* The buffer of a reference is not freed.                                  *)
RefsLive == \A r \in Refs : ref[r] # None => BufferOf(r) \in Live

(* The counter of a buffer is the number of its references, unless it is a  *)
(* copy that is not in place yet, which has the one to come.                *)
Counted == \A b \in Live : (\A t \in Threads : ~Fresh(t, b))
                              => buf[b].refcount = Cardinality(RefsOf(b))

FreshInv == \A t \in Threads, b \in Live : Fresh(t, b) =>
                /\ buf[b].refcount = 1 /\ RefsOf(b) = {} /\ ~buf[b].pooled
                /\ content[buf[b].data] = content[DataOf(call[t].ref)]

(* A buffer without references is being freed by somebody.                  *)
FreeInv ==
    /\ \A t \in Threads : At(t, "free") => buf[call[t].buf].refcount = 0
    /\ \A b \in Live : buf[b].refcount = 0 => \E t \in Threads : At(t, "free") /\ call[t].buf = b

(* Data belongs to one buffer or to the list.                               *)
DataInv ==
    /\ \A b \in Live : content[buf[b].data] # None /\ buf[b].data \notin free
    /\ \A b, c \in Live : buf[b].data = buf[c].data => b = c
    /\ \A b \in Live : buf[b].pooled => buf[b].flag = "none"
    /\ \A d \in free : content[d] # None
    \* what is not freed is known to somebody
    /\ \A d \in Data : content[d] # None => d \in free \/ \E b \in Live : buf[b].data = d

Getting(b) == \E t \in Threads : At(t, "get") /\ BufferOf(call[t].ref) = b

(* What the pool's counter counts: the owner, the buffers that are out, and *)
(* those who have returned one and have not said so.                        *)
Out      == {b \in Live : buf[b].pooled /\ ~Getting(b)}
Late     == {t \in Threads : At(t, "uncount")}
PoolRefs == Cardinality(Out) + Cardinality(Late) + (IF owned THEN 1 ELSE 0)

PoolInv ==
    /\ poolRefcount = PoolRefs
    /\ \A t \in Threads : At(t, "get") => owned
    /\ \A t \in Threads : At(t, "freepool") => poolRefcount = 0 /\ poolAlive
    /\ \A t, u \in Threads : At(t, "freepool") /\ At(u, "freepool") => t = u
    /\ poolRefcount # 0 => poolAlive
    /\ poolRefcount = 0 /\ poolAlive => \E t \in Threads : At(t, "freepool")
    /\ ~poolAlive => free = {}

IInv == /\ TypeOK /\ CallInv /\ RefsLive /\ Counted /\ FreshInv /\ FreeInv
        /\ DataInv /\ PoolInv

-----------------------------------------------------------------------------
(* What the invariant says of one reference and of one call                *)

LEMMA RefsOfFinite ==
    ASSUME NEW b PROVE IsFiniteSet(RefsOf(b)) /\ Cardinality(RefsOf(b)) \in Nat
<1>1. RefsOf(b) \subseteq Refs
  BY DEF RefsOf
<1> QED BY <1>1, BufferPoolAssumption, FS_Subset, FS_CardinalityType

(* The buffer of a reference is there and counts it; with a count of one    *)
(* there is no other; and nobody is about to free it or has just made it.   *)
LEMMA Held ==
    ASSUME IInv, NEW r \in Refs, ref[r] # None
    PROVE  /\ ref[r] \in BufferRef
           /\ BufferOf(r) \in Live /\ buf[BufferOf(r)] \in Buffer
           /\ buf[BufferOf(r)].refcount = Cardinality(RefsOf(BufferOf(r)))
           /\ buf[BufferOf(r)].refcount > 0
           /\ buf[BufferOf(r)].refcount = 1 => RefsOf(BufferOf(r)) = {r}
           /\ \A t \in Threads : call[t].at \in OnBuf => call[t].buf # BufferOf(r)
<1> DEFINE b == BufferOf(r)
<1>1. ref[r] \in BufferRef /\ b \in Live /\ buf[b] \in Buffer
  BY DEF IInv, TypeOK, RefsLive, Live
<1>2. r \in RefsOf(b)
  BY DEF RefsOf
<1>3. \A t \in Threads : ~Fresh(t, b)
  BY <1>1, <1>2 DEF IInv, FreshInv
<1>4. buf[b].refcount = Cardinality(RefsOf(b))
  BY <1>1, <1>3 DEF IInv, Counted
<1>5. Cardinality(RefsOf(b)) # 0
  BY <1>2, RefsOfFinite, FS_EmptySet
<1>6. Cardinality(RefsOf(b)) = 1 => RefsOf(b) = {r}
  BY <1>2, RefsOfFinite, FS_Singleton
<1>7. buf[b].refcount > 0
  BY <1>4, <1>5, RefsOfFinite
<1>8. \A t \in Threads : call[t].at \in OnBuf => call[t].buf # b
  BY <1>1, <1>3, <1>7 DEF IInv, FreeInv, OnBuf, At, Fresh
<1> QED BY <1>1, <1>4, <1>6, <1>7, <1>8

(* No other call has the reference of an idle thread.                       *)
LEMMA NotInUse ==
    ASSUME IInv, NEW t \in Threads, At(t, "idle"), NEW r \in Refs, Has(t, r), NEW u \in Threads,
           call[u].at \in OnRef
    PROVE  call[u].ref # r /\ u # t
BY DEF IInv, CallInv, Has, At, OnRef

(* A buffer that an idle thread has a reference to is not one that some     *)
(* other call has found writable or is getting.                             *)
LEMMA NotExclusive ==
    ASSUME IInv, NEW t \in Threads, At(t, "idle"), NEW r \in Refs, Has(t, r), NEW u \in Threads,
           call[u].at \in {"write", "realloc", "get"}
    PROVE  BufferOf(call[u].ref) # BufferOf(r)
<1>1. call[u].ref \in Refs /\ Has(u, call[u].ref) /\ buf[BufferOf(call[u].ref)].refcount = 1
  BY DEF IInv, TypeOK, CallInv, OnRef
<1>2. RefsOf(BufferOf(call[u].ref)) = {call[u].ref}
  BY <1>1, Held DEF Has
<1>3. call[u].ref # r
  BY NotInUse DEF OnRef
<1> QED BY <1>2, <1>3 DEF RefsOf, Has

LEMMA PoolRefsSame ==
    ASSUME Out' = Out, Late' = Late, owned' = owned
    PROVE  PoolRefs' = PoolRefs
BY DEF PoolRefs

-----------------------------------------------------------------------------
(* Each action keeps the invariant                                         *)

LEMMA RefKeeps ==
    ASSUME IInv, NEW t \in Threads, NEW u \in Threads, NEW r \in Refs, NEW q \in Refs,
           Ref(t, u, r, q)
    PROVE  IInv'
<1>0. PICK b : b = BufferOf(r)
  OBVIOUS
<1>1. /\ At(t, "idle") /\ Has(t, r) /\ ref[q] = None
      /\ ref' = [ref EXCEPT ![q] = [buffer |-> b, holder |-> u]]
      /\ buf' = [buf EXCEPT ![b].refcount = @ + 1]
      /\ UNCHANGED <<content, pool, call>>
  BY <1>0 DEF Ref, NewRef
<1>2. TypeOK
  BY DEF IInv
<1>3. /\ b \in Live /\ buf[b] \in Buffer /\ buf[b].refcount = Cardinality(RefsOf(b))
      /\ buf[b].refcount > 0
      /\ \A v \in Threads : call[v].at \in OnBuf => call[v].buf # b
  BY <1>0, <1>1, Held DEF Has
<1>4. /\ b \in Buffers /\ buf'[b] \in Buffer /\ buf'[b].refcount = buf[b].refcount + 1
      /\ buf'[b].data = buf[b].data /\ buf'[b].pooled = buf[b].pooled
      /\ buf'[b].flag = buf[b].flag
      /\ \A c \in Buffers : c # b => buf'[c] = buf[c]
  BY <1>1, <1>2, <1>3 DEF TypeOK, Live, Buffer
<1>5. /\ \A p \in Refs : p # q => ref'[p] = ref[p]
      /\ ref'[q] \in BufferRef /\ ref'[q].buffer = b /\ ref'[q] # None
  BY <1>1, <1>2, <1>4, BufferPoolAssumption DEF TypeOK, BufferRef
<1>6. TypeOK'
  BY <1>1, <1>2, <1>4, <1>5 DEF TypeOK, pool
<1>7. Live' = Live
  BY <1>3, <1>4, BufferPoolAssumption DEF Live
<1>8. RefsOf(b)' = RefsOf(b) \union {q} /\ q \notin RefsOf(b)
      /\ \A c \in Buffers : c # b => RefsOf(c)' = RefsOf(c)
  BY <1>1, <1>5 DEF RefsOf, BufferOf
<1>9. \A v \in Threads : call[v].at \in OnRef =>
         /\ call[v].ref \in Refs /\ call[v].ref # q
         /\ BufferOf(call[v].ref)' = BufferOf(call[v].ref)
         /\ BufferOf(call[v].ref) \in Live
  BY <1>1, <1>2, <1>5, Held DEF IInv, CallInv, TypeOK, Has, BufferOf
<1>10. CallInv'
  <2>1. \A v \in Threads : call[v].at \in {"write", "realloc", "get"}
            => BufferOf(call[v].ref) # b
    BY <1>0, <1>1, NotExclusive
  <2> QED BY <1>1, <1>4, <1>5, <1>7, <1>9, <2>1 DEF IInv, CallInv, Has, At, Live, OnRef
<1>11. RefsLive'
  BY <1>3, <1>5, <1>7 DEF IInv, RefsLive, BufferOf
<1>12. Counted'
  <2> SUFFICES ASSUME NEW c \in Live, \A v \in Threads : ~Fresh(v, c)'
               PROVE  buf'[c].refcount = Cardinality(RefsOf(c)')
    BY <1>7 DEF Counted
  <2>1. CASE c = b
    <3>1. Cardinality(RefsOf(b)') = Cardinality(RefsOf(b)) + 1
      BY <1>8, RefsOfFinite, FS_AddElement
    <3> QED BY <2>1, <3>1, <1>3, <1>4
  <2>2. CASE c # b
    <3>1. buf'[c] = buf[c] /\ RefsOf(c)' = RefsOf(c)
      BY <2>2, <1>4, <1>8 DEF Live
    <3>2. \A v \in Threads : ~Fresh(v, c)
      BY <1>1 DEF Fresh, At
    <3> QED BY <3>1, <3>2 DEF IInv, Counted
  <2> QED BY <2>1, <2>2
<1>13. FreshInv'
  <2> SUFFICES ASSUME NEW v \in Threads, NEW c \in Live, Fresh(v, c)'
               PROVE  /\ buf'[c].refcount = 1 /\ RefsOf(c)' = {} /\ ~buf'[c].pooled
                      /\ content'[buf'[c].data] = content'[DataOf(call[v].ref)']
    BY <1>7 DEF FreshInv
  <2>1. Fresh(v, c)
    BY <1>1 DEF Fresh, At
  <2>2. c # b /\ buf'[c] = buf[c] /\ RefsOf(c)' = RefsOf(c)
    BY <2>1, <1>3, <1>4, <1>8 DEF Fresh, At, OnBuf, Live
  <2>3. content'[DataOf(call[v].ref)'] = content[DataOf(call[v].ref)]
    BY <2>1, <1>1, <1>4, <1>9 DEF Fresh, At, OnRef, DataOf, Live, BufferOf, pool
  <2> QED BY <2>1, <2>2, <2>3, <1>1 DEF IInv, FreshInv
<1>14. FreeInv'
  <2>1. \A v \in Threads : At(v, "free") => call[v].buf # b /\ call[v].buf \in Live
    BY <1>3 DEF IInv, CallInv, OnBuf, At
  <2>2. \A c \in Live : buf'[c].refcount = 0 => c # b /\ buf[c].refcount = 0
    BY <1>3, <1>4 DEF Live, Buffer
  <2> QED BY <1>1, <1>4, <1>7, <2>1, <2>2 DEF IInv, FreeInv, At, Live
<1>15. DataInv'
  BY <1>1, <1>4, <1>7 DEF IInv, DataInv, Live, pool
<1>16. PoolInv'
  <2>1. Out' = Out
    BY <1>1, <1>4, <1>7, <1>9 DEF Out, Getting, At, OnRef, Live
  <2>2. Late' = Late /\ owned' = owned
    BY <1>1 DEF Late, At, pool
  <2> QED BY <1>1, <2>1, <2>2, PoolRefsSame DEF IInv, PoolInv, At, pool
<1> QED BY <1>6, <1>10, <1>11, <1>12, <1>13, <1>14, <1>15, <1>16 DEF IInv

(* What a call that has, or takes, neither a buffer nor a part in the pool  *)
(* leaves alone.                                                            *)
Quiet == {"idle", "write", "copy", "recopy", "realloc"}

LEMMA QuietCallKeeps ==
    ASSUME IInv, NEW t \in Threads, NEW p \in Quiet, NEW r,
           call[t].at \in Quiet, Goes(t, p, r, None), UNCHANGED <<ref, buf, content, pool>>
    PROVE  RefsLive' /\ Counted' /\ FreshInv' /\ FreeInv' /\ DataInv' /\ PoolInv'
<1>1. /\ call'[t] = [at |-> p, ref |-> r, buf |-> None]
      /\ \A v \in Threads : v # t => call'[v] = call[v]
  BY DEF IInv, TypeOK, Goes
<1>2. Live' = Live /\ \A c \in Live : RefsOf(c)' = RefsOf(c)
  BY DEF Live, RefsOf, BufferOf
<1>3. \A v \in Threads, q \in {"free", "replace", "get", "uncount", "freepool"} :
         At(v, q)' <=> (At(v, q) /\ v # t)
  BY <1>1 DEF At, Quiet
<1>4. \A v \in Threads, q \in {"free", "replace", "get", "uncount", "freepool"} :
         At(v, q) => v # t
  BY <1>1 DEF At, Quiet
<1>5. \A v \in Threads, c \in Live : Fresh(v, c)' <=> Fresh(v, c)
  BY <1>1, <1>3, <1>4 DEF Fresh
<1>6. RefsLive'
  BY <1>2 DEF IInv, RefsLive, BufferOf
<1>7. Counted'
  BY <1>2, <1>5 DEF IInv, Counted
<1>8. FreshInv'
  <2> SUFFICES ASSUME NEW v \in Threads, NEW c \in Live, Fresh(v, c)'
               PROVE  /\ buf'[c].refcount = 1 /\ RefsOf(c)' = {} /\ ~buf'[c].pooled
                      /\ content'[buf'[c].data] = content'[DataOf(call[v].ref)']
    BY <1>2 DEF FreshInv
  <2>1. Fresh(v, c) /\ call'[v] = call[v]
    BY <1>1, <1>4, <1>5 DEF Fresh
  <2>2. DataOf(call[v].ref)' = DataOf(call[v].ref)
    BY <2>1 DEF DataOf, BufferOf
  <2> QED BY <2>1, <2>2, <1>2 DEF IInv, FreshInv
<1>9. FreeInv'
  BY <1>1, <1>2, <1>3, <1>4 DEF IInv, FreeInv
<1>10. DataInv'
  BY <1>2 DEF IInv, DataInv, pool
<1>11. PoolInv'
  <2>1. Out' = Out
    BY <1>1, <1>2, <1>3, <1>4 DEF Out, Getting, BufferOf
  <2>2. Late' = Late /\ owned' = owned
    BY <1>3, <1>4 DEF Late, pool
  <2> QED BY <1>3, <1>4, <2>1, <2>2, PoolRefsSame DEF IInv, PoolInv, pool
<1> QED BY <1>6, <1>7, <1>8, <1>9, <1>10, <1>11

LEMMA WritableKeeps ==
    ASSUME IInv, NEW t \in Threads, NEW r \in Refs, MakeWritable(t, r) \/ Realloc(t, r)
    PROVE  IInv'
<1>1. PICK p \in {"write", "copy", "recopy", "realloc"} :
        /\ Goes(t, p, r, None)
        /\ p \in {"write", "realloc"} => Writable(BufferOf(r))
        /\ p = "realloc" => buf[BufferOf(r)].flag = "reallocatable"
  BY DEF MakeWritable, Realloc
<1>2. At(t, "idle") /\ Has(t, r) /\ UNCHANGED <<ref, buf, content, pool>>
  BY DEF MakeWritable, Realloc
<1>3. /\ call'[t] = [at |-> p, ref |-> r, buf |-> None]
      /\ \A v \in Threads : v # t => call'[v] = call[v]
  BY <1>1 DEF IInv, TypeOK, Goes
<1>4. BufferOf(r) \in Live
  BY <1>2, Held DEF Has
<1>5. TypeOK'
  BY <1>1, <1>2, BufferPoolAssumption DEF IInv, TypeOK, Goes, OnRef, OnBuf, Places, pool
<1>6. CallInv'
  <2>1. p = "realloc" => ~buf[BufferOf(r)].pooled
    BY <1>1, <1>4 DEF IInv, DataInv
  <2> QED BY <1>1, <1>2, <1>3, <2>1
          DEF IInv, CallInv, OnRef, OnBuf, At, Has, BufferOf, Live, Writable
<1>7. call[t].at \in Quiet /\ p \in Quiet
  BY <1>2 DEF At, Quiet
<1> QED BY <1>1, <1>2, <1>5, <1>6, <1>7, QuietCallKeeps DEF IInv

LEMMA NoMemoryKeeps ==
    ASSUME IInv, NEW t \in Threads, NoMemory(t)
    PROVE  IInv'
<1>1. /\ call[t].at \in Quiet /\ Goes(t, "idle", None, None)
      /\ UNCHANGED <<ref, buf, content, pool>>
  BY DEF NoMemory, Returns, Goes, Idle, Quiet
<1>2. /\ call'[t] = Idle
      /\ \A v \in Threads : v # t => call'[v] = call[v]
  BY <1>1 DEF IInv, TypeOK, Goes, Idle
<1>3. TypeOK'
  BY <1>1, BufferPoolAssumption DEF IInv, TypeOK, Goes, OnRef, OnBuf, Places, pool
<1>4. CallInv'
  BY <1>1, <1>2 DEF IInv, CallInv, OnRef, OnBuf, At, Has, BufferOf, Live, Idle
<1>5. "idle" \in Quiet
  BY DEF Quiet
<1> QED BY <1>1, <1>3, <1>4, <1>5, QuietCallKeeps DEF IInv

(* A buffer found writable, or one that is got, is that of no other call.   *)
LEMMA OthersApart ==
    ASSUME IInv, NEW t \in Threads, NEW u \in Threads, u # t,
           call[t].at \in {"write", "realloc", "get"}, call[u].at \in OnRef
    PROVE  BufferOf(call[u].ref) # BufferOf(call[t].ref)
<1>1. /\ call[t].ref \in Refs /\ Has(t, call[t].ref)
      /\ call[u].ref \in Refs /\ Has(u, call[u].ref)
      /\ buf[BufferOf(call[t].ref)].refcount = 1
  BY DEF IInv, TypeOK, CallInv, OnRef
<1>2. RefsOf(BufferOf(call[t].ref)) = {call[t].ref}
  BY <1>1, Held DEF Has
<1> QED BY <1>1, <1>2 DEF RefsOf, Has

LEMMA WriteKeeps ==
    ASSUME IInv, NEW t \in Threads, Write(t)
    PROVE  IInv'
<1>0. PICK r, b, d : r = call[t].ref /\ b = BufferOf(r) /\ d = buf[b].data
  OBVIOUS
<1>1. PICK v \in Values :
        /\ r = call[t].ref /\ b = BufferOf(r) /\ d = buf[b].data
        /\ content' = [content EXCEPT ![d] = v]
  BY <1>0 DEF Write, DataOf
<1>2. At(t, "write") /\ call' = [call EXCEPT ![t] = Idle] /\ UNCHANGED <<ref, buf, pool>>
  BY DEF Write, Returns
<1>3. r \in Refs /\ Has(t, r) /\ b \in Live /\ d \in Data
  BY <1>1, <1>2, Held DEF IInv, TypeOK, CallInv, OnRef, At, Has, Buffer
<1>4. /\ call'[t] = Idle /\ \A u \in Threads : u # t => call'[u] = call[u]
      /\ content'[d] = v /\ v # None /\ \A e \in Data : e # d => content'[e] = content[e]
  BY <1>1, <1>2, <1>3, BufferPoolAssumption DEF IInv, TypeOK
<1>5. TypeOK'
  BY <1>1, <1>2, <1>3, <1>4 DEF IInv, TypeOK, Idle, OnRef, OnBuf, Places, pool
<1>6. CallInv'
  BY <1>2, <1>4 DEF IInv, CallInv, OnRef, OnBuf, At, Has, BufferOf, Live, Idle
<1>7. Live' = Live /\ \A c \in Live : RefsOf(c)' = RefsOf(c)
  BY <1>2 DEF Live, RefsOf, BufferOf
<1>8. \A u \in Threads, q \in Places \ {"idle", "write"} : At(u, q)' <=> (At(u, q) /\ u # t)
  BY <1>2, <1>4 DEF At, Idle, Places, OnRef
<1>9. \A u \in Threads, c \in Live : (Fresh(u, c) => u # t) /\ (Fresh(u, c)' <=> Fresh(u, c))
  BY <1>2, <1>4 DEF Fresh, At, Idle
<1>10. RefsLive' /\ Counted'
  BY <1>2, <1>7, <1>9 DEF IInv, RefsLive, Counted, BufferOf
<1>11. FreshInv'
  <2> SUFFICES ASSUME NEW u \in Threads, NEW c \in Live, Fresh(u, c)'
               PROVE  /\ buf'[c].refcount = 1 /\ RefsOf(c)' = {} /\ ~buf'[c].pooled
                      /\ content'[buf'[c].data] = content'[DataOf(call[u].ref)']
    BY <1>7 DEF FreshInv
  <2>1. Fresh(u, c) /\ call'[u] = call[u] /\ u # t
    BY <1>4, <1>9
  <2>2. PICK a : a = BufferOf(call[u].ref)
    OBVIOUS
  <2>3. a # b /\ a \in Live
    <3>1. call[u].at \in OnRef /\ call[t].at = "write"
      BY <2>1, <1>2 DEF Fresh, At, OnRef
    <3>2. call[u].ref \in Refs /\ ref[call[u].ref] # None
      BY <3>1 DEF IInv, TypeOK, CallInv, Has
    <3> QED BY <1>1, <2>1, <2>2, <3>1, <3>2, OthersApart, Held
  <2>4. c # b
    BY <1>3, <1>1, <2>1 DEF IInv, FreshInv, RefsOf, Has
  <2>5. /\ buf[a].data # d /\ buf[c].data # d /\ buf[a].data \in Data /\ buf[c].data \in Data
    BY <1>1, <1>3, <2>3, <2>4 DEF IInv, DataInv, TypeOK, Live, Buffer
  <2>6. DataOf(call[u].ref)' = buf[a].data /\ DataOf(call[u].ref) = buf[a].data
    BY <1>2, <2>1, <2>2 DEF DataOf, BufferOf
  <2> QED BY <1>2, <1>4, <1>7, <2>1, <2>5, <2>6 DEF IInv, FreshInv
<1>12. FreeInv'
  BY <1>2, <1>4, <1>7 DEF IInv, FreeInv, At, Idle
<1>13. DataInv'
  BY <1>1, <1>2, <1>3, <1>4, <1>7 DEF IInv, DataInv, pool
<1>14. PoolInv'
  <2>1. Out' = Out /\ Late' = Late
    BY <1>2, <1>4, <1>7 DEF Out, Getting, BufferOf, Late, At, Idle
  <2> QED BY <1>2, <1>4, <2>1, PoolRefsSame DEF IInv, PoolInv, pool, At, Idle
<1> QED BY <1>5, <1>6, <1>10, <1>11, <1>12, <1>13, <1>14 DEF IInv

(* A new buffer with the data d and one reference r: what it changes for    *)
(* all but the thread t that gets it.                                       *)
LEMMA NewKeeps ==
    ASSUME IInv, NEW t \in Threads, NEW r \in Refs, NEW b \in Buffers, NEW d \in Data,
           NEW isPooled \in BOOLEAN, NEW flag \in Flags,
           At(t, "idle"), call'[t].at \in {"idle", "get"},
           \A u \in Threads : u # t => call'[u] = call[u],
           NewRef(t, r, b), NewBuffer(b, d, isPooled, flag),
           \A e \in Data : e # d => content'[e] = content[e],
           \A c \in Live : buf[c].data # d
    PROVE  /\ Live' = Live \union {b} /\ b \notin Live
           /\ ref'[r] = [buffer |-> b, holder |-> t] /\ \A q \in Refs : q # r => ref'[q] = ref[q]
           /\ buf'[b] = [refcount |-> 1, data |-> d, pooled |-> isPooled, flag |-> flag]
           /\ \A c \in Buffers : c # b => buf'[c] = buf[c]
           /\ \A u \in Threads : call[u].at \in OnRef =>
                 /\ call[u].ref \in Refs \ {r} /\ ref[call[u].ref] # None
                 /\ BufferOf(call[u].ref) \in Live
           /\ RefsLive' /\ Counted' /\ FreshInv' /\ FreeInv'
<1>1. /\ ref'[r] = [buffer |-> b, holder |-> t] /\ \A q \in Refs : q # r => ref'[q] = ref[q]
      /\ buf'[b] = [refcount |-> 1, data |-> d, pooled |-> isPooled, flag |-> flag]
      /\ \A c \in Buffers : c # b => buf'[c] = buf[c]
      /\ ref[r] = None /\ buf[b] = None
  BY DEF IInv, TypeOK, NewRef, NewBuffer
<1>2. buf'[b] \in Buffer /\ ref'[r] \in BufferRef
  BY <1>1 DEF Buffer, BufferRef
<1>3. Live' = Live \union {b} /\ b \notin Live
  BY <1>1, <1>2, BufferPoolAssumption DEF Live
<1>4. ref'[r] # None /\ ref'[r].buffer = b
  BY <1>1, <1>2, BufferPoolAssumption
<1>5. RefsOf(b)' = {r} /\ \A c \in Live : RefsOf(c)' = RefsOf(c)
  BY <1>1, <1>3, <1>4 DEF RefsOf, BufferOf, IInv, RefsLive
<1>6. \A u \in Threads : call[u].at \in OnRef =>
         /\ call[u].ref \in Refs \ {r} /\ ref[call[u].ref] # None
         /\ BufferOf(call[u].ref) \in Live
  BY <1>1 DEF IInv, TypeOK, CallInv, RefsLive, Has
<1>7. \A u \in Threads, c \in Buffers :
         (Fresh(u, c)' <=> Fresh(u, c)) /\ (Fresh(u, c) => u # t /\ c \in Live)
  BY DEF Fresh, At, IInv, CallInv, OnBuf
<1>8. RefsLive'
  BY <1>1, <1>3, <1>4 DEF IInv, RefsLive, BufferOf
<1>9. Counted'
  <2> SUFFICES ASSUME NEW c \in Live', \A u \in Threads : ~Fresh(u, c)'
               PROVE  buf'[c].refcount = Cardinality(RefsOf(c)')
    BY DEF Counted
  <2>1. CASE c = b
    <3>1. Cardinality({r}) = 1
      BY FS_Singleton
    <3> QED BY <2>1, <3>1, <1>1, <1>5
  <2>2. CASE c # b
    <3>1. c \in Live /\ buf'[c] = buf[c] /\ RefsOf(c)' = RefsOf(c)
      BY <2>2, <1>1, <1>3, <1>5 DEF Live
    <3>2. \A u \in Threads : ~Fresh(u, c)
      BY <1>7, <3>1 DEF Live
    <3> QED BY <3>1, <3>2 DEF IInv, Counted
  <2> QED BY <2>1, <2>2
<1>10. FreshInv'
  <2> SUFFICES ASSUME NEW u \in Threads, NEW c \in Live', Fresh(u, c)'
               PROVE  /\ buf'[c].refcount = 1 /\ RefsOf(c)' = {} /\ ~buf'[c].pooled
                      /\ content'[buf'[c].data] = content'[DataOf(call[u].ref)']
    BY DEF FreshInv
  <2>1. Fresh(u, c) /\ call'[u] = call[u] /\ c \in Live /\ c # b
    BY <1>3, <1>7 DEF Live
  <2>2. buf'[c] = buf[c] /\ RefsOf(c)' = RefsOf(c)
    BY <2>1, <1>1, <1>5 DEF Live
  <2>3. PICK q : q = call[u].ref
    OBVIOUS
  <2>4. q \in Refs /\ q # r /\ BufferOf(q) \in Live
    BY <2>1, <2>3, <1>6 DEF Fresh, At, OnRef
  <2>5. DataOf(q)' = DataOf(q) /\ DataOf(q) \in Data /\ DataOf(q) # d
    BY <2>4, <1>1, <1>3 DEF DataOf, BufferOf, Live, IInv, TypeOK, Buffer
  <2>6. buf[c].data \in Data /\ buf[c].data # d
    BY <2>1 DEF Live, IInv, TypeOK, Buffer
  <2>7. DataOf(call[u].ref)' = DataOf(q)'
    BY <2>1, <2>3 DEF DataOf, BufferOf
  <2> QED BY <2>1, <2>2, <2>3, <2>5, <2>6, <2>7 DEF IInv, FreshInv
<1>11. FreeInv'
  <2>1. \A u \in Threads : (At(u, "free")' <=> At(u, "free")) /\ (At(u, "free") => u # t)
    BY DEF At
  <2>2. \A u \in Threads : At(u, "free") => call[u].buf \in Live
    BY DEF At, IInv, CallInv, OnBuf
  <2> QED BY <1>1, <1>3, <2>1, <2>2 DEF IInv, FreeInv, Live
<1> QED BY <1>1, <1>3, <1>6, <1>8, <1>9, <1>10, <1>11

LEMMA CreateKeeps ==
    ASSUME IInv, NEW t \in Threads, NEW r \in Refs, Create(t, r)
    PROVE  IInv'
<1>1. PICK b \in Buffers, d \in Data, v \in Values, flag \in Flags :
        NewRef(t, r, b) /\ NewData(d, v) /\ NewBuffer(b, d, FALSE, flag)
  BY DEF Create
<1>2. At(t, "idle") /\ UNCHANGED <<pool, call>>
  BY DEF Create
<1>3. /\ content[d] = None /\ content'[d] = v /\ v # None
      /\ \A e \in Data : e # d => content'[e] = content[e]
  BY <1>1, BufferPoolAssumption DEF NewData, IInv, TypeOK
<1>4. (\A c \in Live : buf[c].data # d) /\ d \notin free
  BY <1>3 DEF IInv, DataInv
<1>5. /\ Live' = Live \union {b} /\ b \notin Live
      /\ ref'[r] = [buffer |-> b, holder |-> t] /\ \A q \in Refs : q # r => ref'[q] = ref[q]
      /\ buf'[b] = [refcount |-> 1, data |-> d, pooled |-> FALSE, flag |-> flag]
      /\ \A c \in Buffers : c # b => buf'[c] = buf[c]
      /\ \A u \in Threads : call[u].at \in OnRef =>
            /\ call[u].ref \in Refs \ {r} /\ ref[call[u].ref] # None
            /\ BufferOf(call[u].ref) \in Live
      /\ RefsLive' /\ Counted' /\ FreshInv' /\ FreeInv'
  <2>1. call'[t].at \in {"idle", "get"} /\ \A u \in Threads : u # t => call'[u] = call[u]
    BY <1>2 DEF At
  <2> QED BY <1>1, <1>2, <1>3, <1>4, <2>1, NewKeeps
<1>6. TypeOK'
  BY <1>1, <1>2, <1>3 DEF IInv, TypeOK, NewRef, NewData, NewBuffer, Buffer, BufferRef, pool
<1>7. CallInv'
  BY <1>2, <1>5 DEF IInv, CallInv, OnRef, At, Has, BufferOf, Live
<1>8. DataInv'
  BY <1>2, <1>3, <1>4, <1>5 DEF IInv, DataInv, Live, TypeOK, Buffer, pool
<1>9. PoolInv'
  <2>1. Out' = Out
    BY <1>2, <1>5 DEF Out, Getting, At, BufferOf, OnRef, Live
  <2>2. Late' = Late
    BY <1>2 DEF Late, At
  <2> QED BY <1>2, <2>1, <2>2, PoolRefsSame DEF IInv, PoolInv, At, pool
<1> QED BY <1>5, <1>6, <1>7, <1>8, <1>9 DEF IInv

LEMMA PoolGetKeeps ==
    ASSUME IInv, NEW t \in Threads, NEW r \in Refs, PoolGet(t, r)
    PROVE  IInv'
<1>1. PICK b \in Buffers, d \in Data :
        /\ NewRef(t, r, b) /\ NewBuffer(b, d, TRUE, "none")
        /\ \/ d \in free /\ free' = free \ {d} /\ UNCHANGED content
           \/ free = {} /\ (\E v \in Values : NewData(d, v)) /\ UNCHANGED free
  BY DEF PoolGet
<1>2. /\ At(t, "idle") /\ owned /\ Goes(t, "get", r, None)
      /\ UNCHANGED <<poolRefcount, poolAlive, owned>>
  BY DEF PoolGet
<1>3. /\ call'[t] = [at |-> "get", ref |-> r, buf |-> None]
      /\ \A u \in Threads : u # t => call'[u] = call[u]
  BY <1>2 DEF Goes, IInv, TypeOK
<1>4. /\ content'[d] # None /\ \A e \in Data : e # d => content'[e] = content[e]
      /\ content' \in [Data -> Values \union {None}]
      /\ free' = free \ {d}
  BY <1>1, BufferPoolAssumption DEF NewData, IInv, TypeOK, DataInv
<1>5. \A c \in Live : buf[c].data # d
  BY <1>1 DEF IInv, DataInv, NewData
<1>6. /\ Live' = Live \union {b} /\ b \notin Live
      /\ ref'[r] = [buffer |-> b, holder |-> t] /\ \A q \in Refs : q # r => ref'[q] = ref[q]
      /\ buf'[b] = [refcount |-> 1, data |-> d, pooled |-> TRUE, flag |-> "none"]
      /\ \A c \in Buffers : c # b => buf'[c] = buf[c]
      /\ \A u \in Threads : call[u].at \in OnRef =>
            /\ call[u].ref \in Refs \ {r} /\ ref[call[u].ref] # None
            /\ BufferOf(call[u].ref) \in Live
      /\ RefsLive' /\ Counted' /\ FreshInv' /\ FreeInv'
  <2>1. "none" \in Flags /\ TRUE \in BOOLEAN /\ call'[t].at \in {"idle", "get"}
    BY <1>3 DEF Flags
  <2> QED BY <1>1, <1>2, <1>3, <1>4, <1>5, <2>1, NewKeeps
<1>7. TypeOK'
  <2>1. ref' \in [Refs -> BufferRef \union {None}] /\ buf' \in [Buffers -> Buffer \union {None}]
    BY <1>1 DEF IInv, TypeOK, NewRef, NewBuffer, Buffer, BufferRef, Flags
  <2>2. call' \in [Threads -> [at : Places, ref : Refs \union {None}, buf : Buffers \union {None}]]
    BY <1>2 DEF IInv, TypeOK, Goes, Places, OnRef
  <2>3. \A u \in Threads : /\ call'[u].at \in OnRef <=> call'[u].ref # None
                           /\ call'[u].at \in OnBuf <=> call'[u].buf # None
    BY <1>3, BufferPoolAssumption DEF IInv, TypeOK, OnRef, OnBuf
  <2>4. free' \subseteq Data
    BY <1>4 DEF IInv, TypeOK
  <2> QED BY <1>2, <1>4, <2>1, <2>2, <2>3, <2>4 DEF IInv, TypeOK
<1>8. CallInv'
  <2>1. Has(t, r)' /\ BufferOf(r)' = b
    BY <1>6, BufferPoolAssumption DEF Has, BufferOf, BufferRef
  <2>2. \A u \in Threads : call[u].at \in OnRef => u # t /\ BufferOf(call[u].ref) # b
    BY <1>2, <1>6 DEF At, OnRef
  <2>3. \A u \in Threads : call[u].at \in OnBuf => u # t /\ call[u].buf \in Live
    BY <1>2 DEF IInv, CallInv, At, OnBuf
  <2>4. \A u \in Threads : call'[u].at \in OnRef => Has(u, call[u].ref)'
    <3> SUFFICES ASSUME NEW u \in Threads, call'[u].at \in OnRef PROVE Has(u, call[u].ref)'
      OBVIOUS
    <3>1. CASE u = t
      BY <1>3, <2>1, <3>1 DEF Has
    <3>2. CASE u # t
      <4>1. PICK q : q = call[u].ref
        OBVIOUS
      <4>2. call'[u].ref = q /\ Has(u, q) /\ q \in Refs \ {r}
        BY <1>3, <1>6, <3>2, <4>1 DEF IInv, CallInv
      <4> QED BY <1>6, <4>2 DEF Has
    <3> QED BY <3>1, <3>2
  <2>5. \A u \in Threads : call'[u].at \in OnBuf =>
           u # t /\ call'[u] = call[u] /\ call'[u].buf \in Live'
    BY <1>3, <1>6, <2>3 DEF OnBuf
  <2>6. \A u, v \in Threads :
          call'[u].at \in OnBuf /\ call'[v].at \in OnBuf /\ call'[u].buf = call'[v].buf => u = v
    BY <2>5 DEF IInv, CallInv
  <2>7. ASSUME NEW u \in Threads, call'[u].at \in {"write", "realloc", "get"}
        PROVE  /\ buf'[BufferOf(call[u].ref)'].refcount = 1
               /\ call'[u].at = "realloc" => ~buf'[BufferOf(call[u].ref)'].pooled
               /\ call'[u].at = "get" => buf'[BufferOf(call[u].ref)'].pooled
    <3>1. CASE u = t
      <4>1. call'[u].at = "get" /\ BufferOf(call[u].ref)' = b
        BY <1>3, <2>1, <3>1 DEF BufferOf
      <4> QED BY <1>6, <4>1
    <3>2. CASE u # t
      <4>1. call'[u] = call[u] /\ call[u].at \in OnRef
        BY <1>3, <2>7, <3>2 DEF OnRef
      <4>2. BufferOf(call[u].ref)' = BufferOf(call[u].ref)
        BY <1>6, <4>1 DEF BufferOf
      <4>3. buf'[BufferOf(call[u].ref)'] = buf[BufferOf(call[u].ref)]
        BY <1>6, <2>2, <4>1, <4>2 DEF Live
      <4> QED BY <2>7, <4>1, <4>3 DEF IInv, CallInv, At
    <3> QED BY <3>1, <3>2
  <2>8. \A u \in Threads : call'[u].at \in {"write", "realloc", "get"} =>
           buf'[BufferOf(call[u].ref)'].refcount = 1
    BY <2>7
  <2>9. /\ \A u \in Threads : At(u, "realloc")' => ~buf'[BufferOf(call[u].ref)'].pooled
        /\ \A u \in Threads : At(u, "get")' => buf'[BufferOf(call[u].ref)'].pooled
    BY <2>7 DEF At
  <2>10. \A u \in Threads : call'[u].at \in OnBuf => call'[u].buf \in Live'
    BY <2>5
  <2> QED BY ONLY <2>4, <2>6, <2>8, <2>9, <2>10 DEF CallInv
<1>9. DataInv'
  BY <1>4, <1>5, <1>6 DEF IInv, DataInv, Live, TypeOK, Buffer
<1>10. PoolInv'
  <2>1. Out' = Out
    <3>1. Getting(b)'
      BY <1>3, <1>6 DEF Getting, At, BufferOf
    <3>2. \A c \in Live : c # b /\ (Getting(c)' <=> Getting(c))
      BY <1>2, <1>3, <1>6 DEF Getting, At, BufferOf, OnRef
    <3> QED BY <1>6, <3>1, <3>2 DEF Out, Live
  <2>2. Late' = Late
    BY <1>2, <1>3 DEF Late, At
  <2>3. \A u \in Threads, p \in {"freepool"} : At(u, p)' <=> At(u, p)
    BY <1>2, <1>3 DEF At
  <2>4. ~poolAlive => free = {} /\ free' = {}
    BY <1>4 DEF IInv, PoolInv
  <2> QED BY <1>2, <2>1, <2>2, <2>3, <2>4, PoolRefsSame DEF IInv, PoolInv
<1> QED BY <1>6, <1>7, <1>8, <1>9, <1>10 DEF IInv

(* How what the pool's counter counts changes.                              *)
LEMMA PoolRefsFinite ==
    /\ IsFiniteSet(Out) /\ IsFiniteSet(Late)
    /\ Cardinality(Out) \in Nat /\ Cardinality(Late) \in Nat
<1>1. Out \subseteq Buffers /\ Late \subseteq Threads
  BY DEF Out, Live, Late
<1> QED BY <1>1, BufferPoolAssumption, FS_Subset, FS_CardinalityType

LEMMA PoolRefsAdds ==
    ASSUME NEW b, b \notin Out, Out' = Out \union {b}, Late' = Late, owned' = owned
    PROVE  PoolRefs' = PoolRefs + 1
<1>1. Cardinality(Out') = Cardinality(Out) + 1
  BY PoolRefsFinite, FS_AddElement
<1> QED BY <1>1, PoolRefsFinite DEF PoolRefs

LEMMA PoolRefsLoses ==
    ASSUME NEW t \in Late, Late' = Late \ {t}, Out' = Out, owned' = owned
    PROVE  PoolRefs' = PoolRefs - 1
<1>1. Cardinality(Late') = Cardinality(Late) - 1
  BY PoolRefsFinite, FS_RemoveElement
<1> QED BY <1>1, PoolRefsFinite DEF PoolRefs

LEMMA PoolRefsHandsOver ==
    ASSUME NEW t, t \notin Late, Late' = Late \union {t},
           \/ Out' = Out /\ owned = TRUE /\ owned' = FALSE
           \/ owned' = owned /\ \E b \in Out : Out' = Out \ {b}
    PROVE  PoolRefs' = PoolRefs
<1>1. Cardinality(Late') = Cardinality(Late) + 1
  BY PoolRefsFinite, FS_AddElement
<1>2. CASE Out' = Out /\ owned = TRUE /\ owned' = FALSE
  BY <1>1, <1>2, PoolRefsFinite DEF PoolRefs
<1>3. CASE owned' = owned /\ \E b \in Out : Out' = Out \ {b}
  <2>1. Cardinality(Out') = Cardinality(Out) - 1
    BY <1>3, PoolRefsFinite, FS_RemoveElement
  <2> QED BY <1>1, <1>3, <2>1, PoolRefsFinite DEF PoolRefs
<1> QED BY <1>2, <1>3

LEMMA PoolGetCountsKeeps ==
    ASSUME IInv, NEW t \in Threads, PoolGetCounts(t)
    PROVE  IInv'
<1>1. /\ At(t, "get") /\ call' = [call EXCEPT ![t] = Idle] /\ poolRefcount' = poolRefcount + 1
      /\ UNCHANGED <<ref, buf, content, free, poolAlive, owned>>
  BY DEF PoolGetCounts, Returns
<1>2. call'[t] = Idle /\ \A u \in Threads : u # t => call'[u] = call[u]
  BY <1>1 DEF IInv, TypeOK
<1>3. PICK r, b : r = call[t].ref /\ b = BufferOf(r)
  OBVIOUS
<1>4. r \in Refs /\ Has(t, r) /\ b \in Live /\ buf[b].pooled
  BY <1>1, <1>3, Held DEF IInv, TypeOK, CallInv, OnRef, At, Has
<1>5. TypeOK'
  BY <1>1, BufferPoolAssumption DEF IInv, TypeOK, Idle, OnRef, OnBuf, Places
<1>6. CallInv'
  BY <1>1, <1>2 DEF IInv, CallInv, OnRef, OnBuf, At, Has, BufferOf, Live, Idle
<1>7. Live' = Live /\ \A c \in Live : RefsOf(c)' = RefsOf(c)
  BY <1>1 DEF Live, RefsOf, BufferOf
<1>8. \A u \in Threads, c \in Live : (Fresh(u, c) => u # t) /\ (Fresh(u, c)' <=> Fresh(u, c))
  BY <1>1, <1>2 DEF Fresh, At, Idle
<1>9. RefsLive' /\ Counted'
  BY <1>1, <1>7, <1>8 DEF IInv, RefsLive, Counted, BufferOf
<1>10. FreshInv'
  BY <1>1, <1>2, <1>7, <1>8 DEF IInv, FreshInv, DataOf, BufferOf
<1>11. FreeInv'
  BY <1>1, <1>2, <1>7 DEF IInv, FreeInv, At, Idle
<1>12. DataInv'
  BY <1>1, <1>7 DEF IInv, DataInv
<1>13. PoolInv'
  <2>1. Out' = Out \union {b} /\ b \notin Out
    <3>1. Getting(b)
      BY <1>1, <1>3 DEF Getting
    <3>2. \A u \in Threads : u # t /\ At(u, "get") => BufferOf(call[u].ref) # b
      BY <1>1, <1>3, OthersApart DEF At, OnRef
    <3>3. ~Getting(b)'
      BY <1>1, <1>2, <3>2 DEF Getting, At, Idle, BufferOf
    <3>4. \A c \in Live : c # b => (Getting(c)' <=> Getting(c))
      BY <1>1, <1>2, <1>3 DEF Getting, At, Idle, BufferOf
    <3> QED BY <1>1, <1>4, <1>7, <3>1, <3>3, <3>4 DEF Out
  <2>2. Late' = Late
    BY <1>1, <1>2 DEF Late, At, Idle
  <2>3. poolRefcount' = PoolRefs'
    BY <1>1, <2>1, <2>2, PoolRefsAdds DEF IInv, PoolInv
  <2>4. poolRefcount # 0 /\ poolRefcount \in Nat
    <3>1. owned /\ poolRefcount = PoolRefs
      BY <1>1 DEF IInv, PoolInv
    <3> QED BY <3>1, PoolRefsFinite DEF PoolRefs
  <2> QED BY <1>1, <1>2, <2>3, <2>4 DEF IInv, PoolInv, At, Idle
<1> QED BY <1>5, <1>6, <1>9, <1>10, <1>11, <1>12, <1>13 DEF IInv

(* A step of the pool's owner, or of who has returned data to the pool.     *)
AtPool == {"idle", "uncount", "freepool"}

LEMMA PoolStepKeeps ==
    ASSUME IInv, NEW t \in Threads, NEW p \in AtPool,
           call[t].at \in AtPool, Goes(t, p, None, None), UNCHANGED <<ref, buf>>,
           content' \in [Data -> Values \union {None}],
           \A d \in Data : d \notin free => content'[d] = content[d],
           free' \subseteq Data, poolRefcount' \in Nat, poolAlive' \in BOOLEAN,
           owned' \in BOOLEAN
    PROVE  /\ TypeOK' /\ CallInv' /\ RefsLive' /\ Counted' /\ FreshInv' /\ FreeInv'
           /\ Live' = Live /\ Out' = Out
<1>1. /\ call'[t] = [at |-> p, ref |-> None, buf |-> None]
      /\ \A v \in Threads : v # t => call'[v] = call[v]
  BY DEF IInv, TypeOK, Goes
<1>2. TypeOK'
  <2>1. call' \in [Threads -> [at : Places, ref : Refs \union {None}, buf : Buffers \union {None}]]
    BY DEF IInv, TypeOK, Goes, AtPool, Places
  <2>2. \A u \in Threads : /\ call'[u].at \in OnRef <=> call'[u].ref # None
                           /\ call'[u].at \in OnBuf <=> call'[u].buf # None
    BY <1>1 DEF IInv, TypeOK, OnRef, OnBuf, AtPool
  <2> QED BY <2>1, <2>2 DEF IInv, TypeOK
<1>3. Live' = Live /\ \A c \in Live : RefsOf(c)' = RefsOf(c)
  BY DEF Live, RefsOf, BufferOf
<1>4. \A v \in Threads, q \in {"free", "get"} \union OnRef :
         /\ At(v, q) => v # t
         /\ At(v, q)' <=> (At(v, q) /\ v # t)
  BY <1>1 DEF At, AtPool, OnRef
<1>5. \A v \in Threads, c \in Live : (Fresh(v, c) => v # t) /\ (Fresh(v, c)' <=> Fresh(v, c))
  BY <1>1, <1>4 DEF Fresh, OnRef
<1>6. CallInv'
  BY <1>1, <1>3 DEF IInv, CallInv, OnRef, OnBuf, AtPool, At, Has, BufferOf
<1>7. RefsLive' /\ Counted'
  BY <1>3, <1>5 DEF IInv, RefsLive, Counted, BufferOf
<1>8. FreshInv'
  <2> SUFFICES ASSUME NEW v \in Threads, NEW c \in Live, Fresh(v, c)'
               PROVE  /\ buf'[c].refcount = 1 /\ RefsOf(c)' = {} /\ ~buf'[c].pooled
                      /\ content'[buf'[c].data] = content'[DataOf(call[v].ref)']
    BY <1>3 DEF FreshInv
  <2>1. Fresh(v, c) /\ call'[v] = call[v]
    BY <1>1, <1>5
  <2>2. PICK q, a : q = call[v].ref /\ a = BufferOf(q)
    OBVIOUS
  <2>3. a \in Live /\ DataOf(q) = buf[a].data /\ DataOf(call[v].ref)' = buf[a].data
    <3>1. q \in Refs /\ ref[q] # None
      BY <2>1, <2>2 DEF IInv, TypeOK, CallInv, Fresh, At, OnRef, Has
    <3> QED BY <2>1, <2>2, <3>1, Held DEF DataOf, BufferOf
  <2>4. /\ buf[a].data \in Data /\ buf[a].data \notin free
        /\ buf[c].data \in Data /\ buf[c].data \notin free
    BY <2>3 DEF IInv, DataInv, TypeOK, Live, Buffer
  <2>5. content'[buf[c].data] = content'[buf[a].data]
    BY <2>1, <2>2, <2>3, <2>4 DEF IInv, FreshInv, DataOf
  <2> QED BY <2>1, <2>3, <2>5, <1>3 DEF IInv, FreshInv
<1>9. FreeInv'
  BY <1>1, <1>3, <1>4 DEF IInv, FreeInv
<1>10. Out' = Out
  BY <1>1, <1>3, <1>4 DEF Out, Getting, BufferOf
<1> QED BY <1>2, <1>3, <1>6, <1>7, <1>8, <1>9, <1>10

LEMMA PoolUninitKeeps ==
    ASSUME IInv, NEW t \in Threads, PoolUninit(t)
    PROVE  IInv'
<1>1. /\ At(t, "idle") /\ owned /\ (\A u \in Threads : ~At(u, "get")) /\ owned' = FALSE
      /\ Goes(t, "uncount", None, None)
      /\ UNCHANGED <<ref, buf, content, free, poolRefcount, poolAlive>>
  BY DEF PoolUninit
<1>2. /\ TypeOK' /\ CallInv' /\ RefsLive' /\ Counted' /\ FreshInv' /\ FreeInv'
      /\ Live' = Live /\ Out' = Out
  BY <1>1, PoolStepKeeps DEF IInv, TypeOK, At, AtPool
<1>3. DataInv'
  BY <1>1, <1>2 DEF IInv, DataInv
<1>4. PoolInv'
  <2>1. /\ call'[t].at = "uncount" /\ \A v \in Threads : v # t => call'[v] = call[v]
        /\ owned = TRUE
    BY <1>1 DEF IInv, TypeOK, Goes
  <2>2. t \notin Late /\ Late' = Late \union {t}
    BY <1>1, <2>1 DEF Late, At
  <2>3. PoolRefs' = PoolRefs
    BY <1>1, <1>2, <2>1, <2>2, PoolRefsHandsOver
  <2>4. \A u \in Threads : ~At(u, "get")' /\ (At(u, "freepool")' <=> At(u, "freepool"))
    BY <1>1, <2>1 DEF At
  <2> QED BY <1>1, <2>3, <2>4 DEF IInv, PoolInv
<1> QED BY <1>2, <1>3, <1>4 DEF IInv

LEMMA PoolUncountsKeeps ==
    ASSUME IInv, NEW t \in Threads, PoolUncounts(t)
    PROVE  IInv'
<1>1. PICK p \in {"freepool", "idle"} :
        /\ At(t, "uncount") /\ poolRefcount' = poolRefcount - 1
        /\ Goes(t, p, None, None) /\ (p = "freepool" <=> poolRefcount = 1)
        /\ UNCHANGED <<ref, buf, content, free, poolAlive, owned>>
  BY DEF PoolUncounts, Returns, Goes, Idle
<1>2. /\ call'[t].at = p /\ \A v \in Threads : v # t => call'[v] = call[v]
  BY <1>1 DEF IInv, TypeOK, Goes
<1>3. poolRefcount = PoolRefs /\ poolRefcount \in Nat /\ poolRefcount > 0
  <2>1. t \in Late
    BY <1>1 DEF Late
  <2>2. Cardinality(Late) # 0
    BY <2>1, PoolRefsFinite, FS_EmptySet
  <2>3. poolRefcount \in Nat /\ poolRefcount = PoolRefs
    BY DEF IInv, PoolInv, TypeOK
  <2> QED BY <2>2, <2>3, PoolRefsFinite DEF PoolRefs
<1>4. /\ TypeOK' /\ CallInv' /\ RefsLive' /\ Counted' /\ FreshInv' /\ FreeInv'
      /\ Live' = Live /\ Out' = Out
  BY <1>1, <1>3, PoolStepKeeps DEF IInv, TypeOK, At, AtPool
<1>5. DataInv'
  BY <1>1, <1>4 DEF IInv, DataInv
<1>6. PoolInv'
  <2>1. t \in Late /\ Late' = Late \ {t}
    BY <1>1, <1>2 DEF Late, At
  <2>2. poolRefcount' = PoolRefs'
    BY <1>1, <1>3, <1>4, <2>1, PoolRefsLoses
  <2>3. \A u \in Threads : /\ At(u, "get")' => At(u, "get")
                           /\ ~At(u, "freepool")
                           /\ At(u, "freepool")' <=> u = t /\ p = "freepool"
    BY <1>1, <1>2, <1>3 DEF At, IInv, PoolInv
  <2>4. poolAlive /\ poolAlive'
    BY <1>1, <1>3 DEF IInv, PoolInv
  <2>5. poolRefcount' = 0 <=> p = "freepool"
    BY <1>1, <1>3
  <2> QED BY <1>1, <2>2, <2>3, <2>4, <2>5 DEF IInv, PoolInv
<1> QED BY <1>4, <1>5, <1>6 DEF IInv

LEMMA PoolFreeKeeps ==
    ASSUME IInv, NEW t \in Threads, PoolFree(t)
    PROVE  IInv'
<1>1. /\ At(t, "freepool") /\ Goes(t, "idle", None, None)
      /\ content' = [d \in Data |-> IF d \in free THEN None ELSE content[d]]
      /\ free' = {} /\ poolAlive' = FALSE /\ UNCHANGED <<ref, buf, poolRefcount, owned>>
  BY DEF PoolFree, Returns, Goes, Idle
<1>2. /\ call'[t].at = "idle" /\ \A v \in Threads : v # t => call'[v] = call[v]
  BY <1>1 DEF IInv, TypeOK, Goes
<1>3. /\ content' \in [Data -> Values \union {None}]
      /\ \A d \in Data : d \notin free => content'[d] = content[d]
      /\ \A d \in Data : d \in free => content'[d] = None
  BY <1>1 DEF IInv, TypeOK
<1>4. /\ TypeOK' /\ CallInv' /\ RefsLive' /\ Counted' /\ FreshInv' /\ FreeInv'
      /\ Live' = Live /\ Out' = Out
  BY <1>1, <1>3, PoolStepKeeps DEF IInv, TypeOK, At, AtPool
<1>5. DataInv'
  <2>1. \A b \in Live : buf[b].data \in Data
    BY DEF IInv, TypeOK, Live, Buffer
  <2> QED BY <1>1, <1>3, <1>4, <2>1 DEF IInv, DataInv
<1>6. PoolInv'
  <2>1. Late' = Late
    BY <1>1, <1>2 DEF Late, At
  <2>2. PoolRefs' = PoolRefs
    BY <1>1, <1>4, <2>1, PoolRefsSame
  <2>3. \A u \in Threads : (At(u, "get")' => At(u, "get")) /\ ~At(u, "freepool")'
    BY <1>1, <1>2 DEF At, IInv, PoolInv
  <2>4. poolRefcount = 0
    BY <1>1 DEF IInv, PoolInv
  <2> QED BY <1>1, <2>2, <2>3, <2>4 DEF IInv, PoolInv
<1> QED BY <1>4, <1>5, <1>6 DEF IInv

(* The thread frees the buffer, and its data or not, and goes on at p.          *)
Disposes(t, p, b, d) ==
    /\ At(t, "free") /\ b = call[t].buf /\ d = buf[b].data
    /\ buf' = [buf EXCEPT ![b] = None] /\ Goes(t, p, None, None) /\ UNCHANGED ref
    /\ content' = content \/ content' = [content EXCEPT ![d] = None]
    /\ free' \subseteq Data /\ UNCHANGED <<poolRefcount, poolAlive, owned>>

(* Freeing a buffer without references                                      *)
LEMMA DisposeKeeps ==
    ASSUME IInv, NEW t \in Threads, NEW p \in {"idle", "uncount"}, NEW b, NEW d,
           Disposes(t, p, b, d)
    PROVE  /\ TypeOK' /\ CallInv' /\ RefsLive' /\ Counted' /\ FreshInv' /\ FreeInv'
           /\ b \in Live /\ Live' = Live \ {b} /\ d \in Data
           /\ \A c \in Live' : buf'[c] = buf[c] /\ buf[c].data \in Data /\ buf[c].data # d
           /\ \A c \in Live' : Getting(c)' <=> Getting(c)
           /\ ~Getting(b)
<1>. USE DEF Disposes
<1>0. /\ content' \in [Data -> Values \union {None}]
      /\ \A e \in Data : e # d => content'[e] = content[e]
  BY DEF IInv, TypeOK
<1>1. /\ call'[t] = [at |-> p, ref |-> None, buf |-> None]
      /\ \A v \in Threads : v # t => call'[v] = call[v]
  BY DEF IInv, TypeOK, Goes
<1>2. /\ b \in Live /\ buf[b] \in Buffer /\ d \in Data /\ buf[b].refcount = 0
      /\ \A v \in Threads : v # t /\ call[v].at \in OnBuf => call[v].buf # b
  BY DEF IInv, TypeOK, CallInv, FreeInv, OnBuf, At, Live, Buffer
<1>3. /\ Live' = Live \ {b} /\ \A c \in Live' : c \in Live /\ c # b /\ buf'[c] = buf[c]
  BY <1>2 DEF Live, IInv, TypeOK
<1>4. \A c \in Live' : buf[c].data \in Data /\ buf[c].data # d
  BY <1>2, <1>3 DEF IInv, DataInv, TypeOK, Live, Buffer
<1>5. \A c \in Live : RefsOf(c)' = RefsOf(c)
  BY DEF RefsOf, BufferOf
<1>6. \A r \in Refs : ref[r] # None => BufferOf(r) \in Live' /\ BufferOf(r)' = BufferOf(r)
  <2> SUFFICES ASSUME NEW r \in Refs, ref[r] # None
               PROVE  BufferOf(r) \in Live' /\ BufferOf(r)' = BufferOf(r)
    OBVIOUS
  <2>1. BufferOf(r) \in Live /\ buf[BufferOf(r)].refcount # 0
    BY Held
  <2> QED BY <2>1, <1>2, <1>3 DEF BufferOf
<1>7. \A v \in Threads, q \in {"free", "replace"} \union OnRef :
         At(v, q)' <=> (At(v, q) /\ v # t)
  BY <1>1 DEF At, OnRef
<1>8. \A v \in Threads, c \in Live : (Fresh(v, c) => v # t) /\ (Fresh(v, c)' <=> Fresh(v, c))
  BY <1>1 DEF Fresh, At
<1>9. TypeOK'
  <2>1. call' \in [Threads -> [at : Places, ref : Refs \union {None}, buf : Buffers \union {None}]]
    BY DEF IInv, TypeOK, Goes, Places
  <2>2. \A u \in Threads : /\ call'[u].at \in OnRef <=> call'[u].ref # None
                           /\ call'[u].at \in OnBuf <=> call'[u].buf # None
    BY <1>1 DEF IInv, TypeOK, OnRef, OnBuf
  <2>3. buf' \in [Buffers -> Buffer \union {None}]
    BY DEF IInv, TypeOK
  <2> QED BY <1>0, <2>1, <2>2, <2>3 DEF IInv, TypeOK
<1>10. CallInv'
  <2>1. ASSUME NEW v \in Threads
        PROVE  /\ call'[v].at \in OnRef => Has(v, call[v].ref)' /\ call'[v] = call[v]
               /\ call'[v].at \in OnBuf => call'[v].buf \in Live' /\ call'[v] = call[v]
               /\ call'[v].at \in {"write", "realloc", "get"}
                    => buf'[BufferOf(call[v].ref)'] = buf[BufferOf(call[v].ref)]
    <3>1. call'[v].at \in OnRef \union OnBuf => v # t /\ call'[v] = call[v]
      BY <1>1 DEF OnRef, OnBuf
    <3>2. call'[v].at \in OnRef => Has(v, call[v].ref)' /\ call'[v] = call[v]
      BY <3>1 DEF IInv, CallInv, Has
    <3>3. call'[v].at \in OnBuf => call'[v].buf \in Live' /\ call'[v] = call[v]
      BY <3>1, <1>2, <1>3 DEF IInv, CallInv
    <3>4. call'[v].at \in {"write", "realloc", "get"}
                      => /\ buf'[BufferOf(call[v].ref)'] = buf[BufferOf(call[v].ref)]
      <4> SUFFICES ASSUME call'[v].at \in {"write", "realloc", "get"}
                   PROVE  buf'[BufferOf(call[v].ref)'] = buf[BufferOf(call[v].ref)]
        OBVIOUS
      <4>1. call[v].at \in OnRef /\ call'[v] = call[v]
        BY <3>1 DEF OnRef
      <4>2. PICK q : q = call[v].ref
        OBVIOUS
      <4>3. q \in Refs /\ ref[q] # None
        BY <4>1, <4>2 DEF IInv, TypeOK, CallInv, Has
      <4>4. BufferOf(q)' = BufferOf(q) /\ BufferOf(call[v].ref)' = BufferOf(q)'
        BY <4>1, <4>2, <4>3 DEF BufferOf
      <4> QED BY <4>2, <4>3, <4>4, <1>3, <1>6
    <3> QED BY <3>2, <3>3, <3>4
  <2>2. \A v \in Threads : call'[v].at \in OnRef => Has(v, call[v].ref)' /\ call'[v] = call[v]
    BY <2>1
  <2>3. \A v \in Threads : call'[v].at \in OnBuf => call'[v].buf \in Live' /\ call'[v] = call[v]
    BY <2>1
  <2>4. \A v \in Threads : call'[v].at \in {"write", "realloc", "get"}
           => call'[v] = call[v] /\ buf'[BufferOf(call[v].ref)'] = buf[BufferOf(call[v].ref)]
    BY <2>1, <2>2 DEF OnRef
  <2>5. \A v, u \in Threads :
           call'[v].at \in OnBuf /\ call'[u].at \in OnBuf /\ call'[v].buf = call'[u].buf => v = u
    BY <2>3 DEF IInv, CallInv
  <2>6. /\ \A v \in Threads : call'[v].at \in {"write", "realloc", "get"}
              => buf'[BufferOf(call[v].ref)'].refcount = 1
        /\ \A v \in Threads : call'[v].at = "realloc" => ~buf'[BufferOf(call[v].ref)'].pooled
        /\ \A v \in Threads : call'[v].at = "get" => buf'[BufferOf(call[v].ref)'].pooled
    <3> SUFFICES ASSUME NEW v \in Threads, call'[v].at \in {"write", "realloc", "get"}
                 PROVE  /\ buf'[BufferOf(call[v].ref)'].refcount = 1
                        /\ call'[v].at = "realloc" => ~buf'[BufferOf(call[v].ref)'].pooled
                        /\ call'[v].at = "get" => buf'[BufferOf(call[v].ref)'].pooled
      OBVIOUS
    <3>1. call'[v] = call[v] /\ buf'[BufferOf(call[v].ref)'] = buf[BufferOf(call[v].ref)]
      BY <2>4
    <3>2. /\ call[v].at \in {"write", "realloc", "get"} => buf[BufferOf(call[v].ref)].refcount = 1
          /\ call[v].at = "realloc" => ~buf[BufferOf(call[v].ref)].pooled
          /\ call[v].at = "get" => buf[BufferOf(call[v].ref)].pooled
      BY DEF IInv, CallInv, At
    <3> QED BY ONLY <3>1, <3>2, call'[v].at \in {"write", "realloc", "get"}
  <2> QED BY <2>2, <2>3, <2>5, <2>6 DEF CallInv, At
<1>11. RefsLive'
  BY <1>6 DEF RefsLive
<1>12. Counted'
  BY <1>3, <1>5, <1>8 DEF IInv, Counted
<1>13. FreshInv'
  <2> SUFFICES ASSUME NEW v \in Threads, NEW c \in Live', Fresh(v, c)'
               PROVE  /\ buf'[c].refcount = 1 /\ RefsOf(c)' = {} /\ ~buf'[c].pooled
                      /\ content'[buf'[c].data] = content'[DataOf(call[v].ref)']
    BY DEF FreshInv
  <2>1. Fresh(v, c) /\ call'[v] = call[v] /\ c \in Live
    BY <1>1, <1>3, <1>8
  <2>2. PICK q, a : q = call[v].ref /\ a = BufferOf(q)
    OBVIOUS
  <2>3. a \in Live' /\ DataOf(q) = buf[a].data /\ DataOf(call[v].ref)' = buf[a].data
    <3>1. q \in Refs /\ ref[q] # None
      BY <2>1, <2>2 DEF IInv, TypeOK, CallInv, Fresh, At, OnRef, Has
    <3>2. a \in Live' /\ BufferOf(call[v].ref)' = a
      BY <2>1, <2>2, <3>1, <1>6 DEF BufferOf
    <3> QED BY <2>2, <3>2, <1>3 DEF DataOf
  <2>5. content'[buf[c].data] = content'[buf[a].data]
    BY <2>1, <2>2, <2>3, <1>0, <1>3, <1>4 DEF IInv, FreshInv, DataOf
  <2> QED BY <2>1, <2>3, <2>5, <1>3, <1>5 DEF IInv, FreshInv
<1>14. FreeInv'
  <2>1. \A v \in Threads : At(v, "free")' => buf'[call'[v].buf] = buf[call[v].buf] /\ At(v, "free")
    BY <1>1, <1>2, <1>3, <1>7 DEF IInv, CallInv, OnBuf, At
  <2>2. \A c \in Live' : buf'[c].refcount = 0 => \E v \in Threads : At(v, "free")' /\ call'[v].buf = c
    <3> SUFFICES ASSUME NEW c \in Live', buf'[c].refcount = 0
                 PROVE  \E v \in Threads : At(v, "free")' /\ call'[v].buf = c
      OBVIOUS
    <3>1. PICK v \in Threads : At(v, "free") /\ call[v].buf = c
      BY <1>3 DEF IInv, FreeInv
    <3>2. v # t
      BY <1>3, <3>1
    <3> QED BY <1>1, <1>7, <3>1, <3>2
  <2>3. \A v \in Threads : At(v, "free")' => call'[v] = call[v]
    BY <1>1, <1>7
  <2> QED BY <2>1, <2>2, <2>3 DEF IInv, FreeInv
<1>15. \A c \in Live' : Getting(c)' <=> Getting(c)
  <2>1. \A v \in Threads : (At(v, "get")' <=> At(v, "get")) /\ (At(v, "get") => call'[v] = call[v])
    BY <1>1 DEF At
  <2> QED BY <2>1 DEF Getting, BufferOf
<1>16. ~Getting(b)
  <2> SUFFICES ASSUME NEW v \in Threads, At(v, "get"), BufferOf(call[v].ref) = b PROVE FALSE
    BY DEF Getting
  <2>1. call[v].ref \in Refs /\ ref[call[v].ref] # None
    BY DEF IInv, TypeOK, CallInv, Has, OnRef, At
  <2> QED BY <2>1, <1>2, <1>6, <1>3
<1> QED BY <1>2, <1>3, <1>4, <1>9, <1>10, <1>11, <1>12, <1>13, <1>14, <1>15, <1>16

LEMMA FreeDataKeeps ==
    ASSUME IInv, NEW t \in Threads, FreeData(t)
    PROVE  IInv'
<1>1. PICK b, d : b = call[t].buf /\ d = buf[b].data
  OBVIOUS
<1>2. /\ At(t, "free") /\ ~buf[b].pooled /\ content' = [content EXCEPT ![d] = None]
      /\ buf' = [buf EXCEPT ![b] = None] /\ Goes(t, "idle", None, None)
      /\ UNCHANGED <<ref, free, poolRefcount, poolAlive, owned>>
  BY <1>1 DEF FreeData, Returns, Goes, Idle, pool
<1>3. /\ content' \in [Data -> Values \union {None}]
      /\ \A e \in Data : e # d => content'[e] = content[e]
  BY <1>2 DEF IInv, TypeOK
<1>4. /\ TypeOK' /\ CallInv' /\ RefsLive' /\ Counted' /\ FreshInv' /\ FreeInv'
      /\ b \in Live /\ Live' = Live \ {b} /\ d \in Data
      /\ \A c \in Live' : buf'[c] = buf[c] /\ buf[c].data \in Data /\ buf[c].data # d
      /\ \A c \in Live' : Getting(c)' <=> Getting(c)
      /\ ~Getting(b)
  <2>1. free' \subseteq Data
    BY <1>2 DEF IInv, TypeOK
  <2>2. Disposes(t, "idle", b, d)
    BY <1>1, <1>2, <2>1 DEF Disposes
  <2> QED BY <2>2, DisposeKeeps
<1>5. content'[d] = None /\ d \notin free
  BY <1>1, <1>2, <1>4 DEF IInv, TypeOK, DataInv
<1>6. DataInv'
  BY <1>1, <1>2, <1>3, <1>4, <1>5 DEF IInv, DataInv, TypeOK
<1>7. PoolInv'
  <2>1. Out' = Out
    BY <1>2, <1>4 DEF Out
  <2>2. Late' = Late /\ \A u \in Threads, q \in {"get", "freepool"} : At(u, q)' <=> At(u, q)
    BY <1>2 DEF Late, At, Goes, IInv, TypeOK
  <2> QED BY <1>2, <2>1, <2>2, PoolRefsSame DEF IInv, PoolInv
<1> QED BY <1>4, <1>6, <1>7 DEF IInv

LEMMA PoolReleaseKeeps ==
    ASSUME IInv, NEW t \in Threads, PoolRelease(t)
    PROVE  IInv'
<1>1. PICK b, d : b = call[t].buf /\ d = buf[b].data
  OBVIOUS
<1>2. /\ At(t, "free") /\ buf[b].pooled /\ free' = free \union {d}
      /\ buf' = [buf EXCEPT ![b] = None] /\ Goes(t, "uncount", None, None)
      /\ UNCHANGED <<ref, content, poolRefcount, poolAlive, owned>>
  BY <1>1 DEF PoolRelease
<1>3. d \in Data
  BY <1>1, <1>2 DEF IInv, TypeOK, CallInv, At, OnBuf, Live, Buffer
<1>4. /\ TypeOK' /\ CallInv' /\ RefsLive' /\ Counted' /\ FreshInv' /\ FreeInv'
      /\ b \in Live /\ Live' = Live \ {b} /\ d \in Data
      /\ \A c \in Live' : buf'[c] = buf[c] /\ buf[c].data \in Data /\ buf[c].data # d
      /\ \A c \in Live' : Getting(c)' <=> Getting(c)
      /\ ~Getting(b)
  <2>1. free' \subseteq Data
    BY <1>2, <1>3 DEF IInv, TypeOK
  <2>2. Disposes(t, "uncount", b, d)
    BY <1>1, <1>2, <2>1 DEF Disposes
  <2> QED BY <2>2, DisposeKeeps
<1>5. DataInv'
  BY <1>1, <1>2, <1>3, <1>4 DEF IInv, DataInv
<1>6. PoolInv'
  <2>1. b \in Out /\ Out' = Out \ {b}
    BY <1>2, <1>4 DEF Out
  <2>2. /\ t \notin Late /\ Late' = Late \union {t}
        /\ \A u \in Threads, q \in {"get", "freepool"} : At(u, q)' <=> At(u, q)
    BY <1>2 DEF Late, At, Goes, IInv, TypeOK
  <2>3. PoolRefs' = PoolRefs
    BY <1>2, <2>1, <2>2, PoolRefsHandsOver
  <2>4. poolRefcount > 0 /\ poolAlive
    <3>1. Cardinality(Out) # 0
      BY <2>1, PoolRefsFinite, FS_EmptySet
    <3>2. PoolRefs > 0
      BY <3>1, PoolRefsFinite DEF PoolRefs
    <3> QED BY <3>2 DEF IInv, PoolInv
  <2> QED BY <1>2, <2>2, <2>3, <2>4 DEF IInv, PoolInv
<1> QED BY <1>4, <1>5, <1>6 DEF IInv

LEMMA UnrefKeeps ==
    ASSUME IInv, NEW t \in Threads, NEW r \in Refs, Unref(t, r)
    PROVE  IInv'
<1>0. PICK b : b = BufferOf(r)
  OBVIOUS
<1>1. /\ At(t, "idle") /\ Has(t, r) /\ ref' = [ref EXCEPT ![r] = None]
      /\ buf' = [buf EXCEPT ![b].refcount = @ - 1]
      /\ IF buf[b].refcount = 1 THEN Goes(t, "free", None, b) ELSE Goes(t, "idle", None, None)
      /\ UNCHANGED <<content, pool>>
  BY <1>0 DEF Unref, Uncounts, Returns, Goes, Idle
<1>2. /\ b \in Live /\ buf[b] \in Buffer /\ buf[b].refcount = Cardinality(RefsOf(b))
      /\ buf[b].refcount > 0 /\ buf[b].refcount \in Nat
      /\ \A v \in Threads : call[v].at \in OnBuf => call[v].buf # b
  BY <1>0, <1>1, Held DEF Has, Buffer
<1>3. /\ b \in Buffers /\ buf'[b] \in Buffer /\ buf'[b].refcount = buf[b].refcount - 1
      /\ buf'[b].data = buf[b].data /\ buf'[b].pooled = buf[b].pooled
      /\ buf'[b].flag = buf[b].flag
      /\ \A c \in Buffers : c # b => buf'[c] = buf[c]
  BY <1>1, <1>2 DEF IInv, TypeOK, Live, Buffer
<1>4. /\ ref'[r] = None /\ \A q \in Refs : q # r => ref'[q] = ref[q]
  BY <1>1 DEF IInv, TypeOK
<1>5. /\ \A v \in Threads : v # t => call'[v] = call[v]
      /\ \/ buf[b].refcount = 1 /\ call'[t] = [at |-> "free", ref |-> None, buf |-> b]
         \/ buf[b].refcount # 1 /\ call'[t] = [at |-> "idle", ref |-> None, buf |-> None]
  BY <1>1 DEF Goes, IInv, TypeOK
<1>6. Live' = Live
  BY <1>2, <1>3, BufferPoolAssumption DEF Live
<1>7. /\ RefsOf(b)' = RefsOf(b) \ {r} /\ r \in RefsOf(b)
      /\ \A c \in Buffers : c # b => RefsOf(c)' = RefsOf(c)
  BY <1>0, <1>1, <1>4 DEF RefsOf, BufferOf, Has
<1>8. \A v \in Threads : call[v].at \in OnRef =>
         /\ call[v].ref \in Refs /\ call[v].ref # r /\ v # t
         /\ BufferOf(call[v].ref)' = BufferOf(call[v].ref)
         /\ BufferOf(call[v].ref) \in Live
  <2> SUFFICES ASSUME NEW v \in Threads, call[v].at \in OnRef
               PROVE  /\ call[v].ref \in Refs /\ call[v].ref # r /\ v # t
                      /\ BufferOf(call[v].ref)' = BufferOf(call[v].ref)
                      /\ BufferOf(call[v].ref) \in Live
    OBVIOUS
  <2>1. v # t /\ call[v].ref # r
    BY <1>1, NotInUse
  <2>2. PICK q : q = call[v].ref
    OBVIOUS
  <2>3. q \in Refs /\ ref[q] # None /\ BufferOf(q) \in Live
    BY <2>2, Held DEF IInv, TypeOK, CallInv, Has
  <2>4. ref'[q] = ref[q] /\ BufferOf(call[v].ref)' = BufferOf(q)'
    BY <2>1, <2>2, <2>3, <1>4, <1>5 DEF BufferOf
  <2> QED BY <2>1, <2>2, <2>3, <2>4 DEF BufferOf
<1>9. TypeOK'
  <2>1. call' \in [Threads -> [at : Places, ref : Refs \union {None}, buf : Buffers \union {None}]]
    <3>1. call'[t] \in [at : Places, ref : Refs \union {None}, buf : Buffers \union {None}]
      BY <1>3, <1>5 DEF Places
    <3>2. call' = [call EXCEPT ![t] = call'[t]]
      BY <1>1 DEF Goes, IInv, TypeOK
    <3> QED BY <3>1, <3>2 DEF IInv, TypeOK
  <2>2. \A v \in Threads : /\ call'[v].at \in OnRef <=> call'[v].ref # None
                           /\ call'[v].at \in OnBuf <=> call'[v].buf # None
    BY <1>3, <1>5, BufferPoolAssumption DEF IInv, TypeOK, OnRef, OnBuf
  <2>3. ref' \in [Refs -> BufferRef \union {None}] /\ buf' \in [Buffers -> Buffer \union {None}]
    BY <1>1, <1>3 DEF IInv, TypeOK
  <2> QED BY <1>1, <2>1, <2>2, <2>3 DEF IInv, TypeOK, pool
<1>10. CallInv'
  <2>1. \A v \in Threads : call[v].at \in {"write", "realloc", "get"}
            => BufferOf(call[v].ref) # b
    BY <1>0, <1>1, NotExclusive
  <2>2. \A v \in Threads : call'[v].at \in OnRef => call[v].at \in OnRef /\ call'[v] = call[v]
    BY <1>5 DEF OnRef
  <2>3. \A v \in Threads : call[v].at \in OnRef => Has(v, call[v].ref)'
    BY <1>4, <1>5, <1>8 DEF IInv, CallInv, Has
  <2>4. \A v \in Threads : call[v].at \in {"write", "realloc", "get"}
            => buf'[BufferOf(call[v].ref)'] = buf[BufferOf(call[v].ref)]
    BY <2>1, <1>3, <1>8 DEF Live, OnRef
  <2>5. \A v \in Threads : call'[v].at \in OnBuf => call'[v].buf \in Live
    BY <1>2, <1>5 DEF IInv, CallInv, OnBuf
  <2>6. \A u, v \in Threads :
          call'[u].at \in OnBuf /\ call'[v].at \in OnBuf /\ call'[u].buf = call'[v].buf => u = v
    BY <1>2, <1>5 DEF IInv, CallInv, OnBuf
  <2>7. \A v \in Threads : call'[v].at \in {"write", "realloc", "get"}
            => /\ v # t /\ call'[v] = call[v] /\ call[v].at \in {"write", "realloc", "get"}
               /\ BufferOf(call[v].ref)' = BufferOf(call[v].ref)
    BY <1>5, <1>8 DEF OnRef
  <2>8. \A v \in Threads : call'[v].at \in OnRef => Has(v, call[v].ref)'
    BY <2>2, <2>3
  <2> QED BY <1>6, <2>2, <2>8, <2>4, <2>5, <2>6, <2>7 DEF IInv, CallInv, At
<1>11. RefsLive'
  BY <1>4, <1>6 DEF IInv, RefsLive, BufferOf
<1>12. \A v \in Threads, c \in Live : (Fresh(v, c) => v # t /\ c # b) /\ (Fresh(v, c)' <=> Fresh(v, c))
  BY <1>1, <1>2, <1>5 DEF Fresh, At, OnBuf
<1>13. Counted'
  <2> SUFFICES ASSUME NEW c \in Live, \A v \in Threads : ~Fresh(v, c)'
               PROVE  buf'[c].refcount = Cardinality(RefsOf(c)')
    BY <1>6 DEF Counted
  <2>1. CASE c = b
    <3>1. Cardinality(RefsOf(b)') = Cardinality(RefsOf(b)) - 1
      BY <1>7, RefsOfFinite, FS_RemoveElement
    <3> QED BY <2>1, <3>1, <1>2, <1>3
  <2>2. CASE c # b
    BY <2>2, <1>3, <1>7, <1>12 DEF IInv, Counted, Live
  <2> QED BY <2>1, <2>2
<1>14. FreshInv'
  <2> SUFFICES ASSUME NEW v \in Threads, NEW c \in Live, Fresh(v, c)'
               PROVE  /\ buf'[c].refcount = 1 /\ RefsOf(c)' = {} /\ ~buf'[c].pooled
                      /\ content'[buf'[c].data] = content'[DataOf(call[v].ref)']
    BY <1>6 DEF FreshInv
  <2>1. Fresh(v, c) /\ v # t /\ c # b
    BY <1>12
  <2>2. buf'[c] = buf[c] /\ RefsOf(c)' = RefsOf(c)
    BY <2>1, <1>3, <1>7 DEF Live
  <2>3. content'[DataOf(call[v].ref)'] = content[DataOf(call[v].ref)]
    BY <2>1, <1>1, <1>3, <1>5, <1>8 DEF Fresh, At, OnRef, DataOf, Live, BufferOf, pool
  <2> QED BY <2>1, <2>2, <2>3, <1>1 DEF IInv, FreshInv
<1>15. FreeInv'
  <2>1. \A v \in Threads : At(v, "free") => call[v].buf # b /\ call[v].buf \in Live /\ v # t
    BY <1>1, <1>2 DEF IInv, CallInv, OnBuf, At
  <2>2. \A v \in Threads : At(v, "free")' => buf'[call'[v].buf].refcount = 0
    BY <1>2, <1>3, <1>5, <2>1 DEF IInv, FreeInv, At, Live
  <2>3. \A c \in Live : buf'[c].refcount = 0 => \E v \in Threads : At(v, "free")' /\ call'[v].buf = c
    <3> SUFFICES ASSUME NEW c \in Live, buf'[c].refcount = 0
                 PROVE  \E v \in Threads : At(v, "free")' /\ call'[v].buf = c
      OBVIOUS
    <3>1. CASE c = b
      <4>1. buf[b].refcount = 1
        BY <3>1, <1>2, <1>3
      <4> QED BY <3>1, <4>1, <1>5 DEF At
    <3>2. CASE c # b
      <4>1. PICK v \in Threads : At(v, "free") /\ call[v].buf = c
        BY <3>2, <1>3 DEF IInv, FreeInv, Live
      <4> QED BY <4>1, <2>1, <1>5 DEF At
    <3> QED BY <3>1, <3>2
  <2> QED BY <1>6, <2>2, <2>3 DEF FreeInv
<1>16. DataInv'
  BY <1>1, <1>3, <1>6 DEF IInv, DataInv, Live, pool
<1>17. PoolInv'
  <2>1. Out' = Out
    <3>1. \A c \in Live : Getting(c)' <=> Getting(c)
      BY <1>5, <1>8 DEF Getting, At, OnRef
    <3>2. \A c \in Live : buf'[c].pooled = buf[c].pooled
      BY <1>3 DEF Live
    <3> QED BY <1>6, <3>1, <3>2 DEF Out
  <2>2. /\ Late' = Late /\ owned' = owned
        /\ \A v \in Threads, q \in {"get", "freepool"} : At(v, q)' <=> At(v, q)
    BY <1>1, <1>5 DEF Late, At, pool
  <2> QED BY <1>1, <2>1, <2>2, PoolRefsSame DEF IInv, PoolInv, pool
<1> QED BY <1>9, <1>10, <1>11, <1>13, <1>14, <1>15, <1>16, <1>17 DEF IInv

(* The copy n takes the place of the buffer b.                              *)
LEMMA ReplaceKeeps ==
    ASSUME IInv, NEW t \in Threads, Replace(t)
    PROVE  IInv'
<1>0. PICK r, b, n : r = call[t].ref /\ b = BufferOf(r) /\ n = call[t].buf
  OBVIOUS
<1>1. /\ At(t, "replace") /\ ref' = [ref EXCEPT ![r].buffer = n]
      /\ buf' = [buf EXCEPT ![b].refcount = @ - 1]
      /\ IF buf[b].refcount = 1 THEN Goes(t, "free", None, b) ELSE Goes(t, "idle", None, None)
      /\ UNCHANGED <<content, pool>>
  BY <1>0 DEF Replace, Uncounts, Returns, Goes, Idle
<1>a. r \in Refs /\ Has(t, r) /\ n \in Live /\ Fresh(t, n) /\ n \in Buffers
  BY <1>0, <1>1 DEF IInv, TypeOK, CallInv, OnRef, OnBuf, At, Fresh, Live
<1>2. /\ b \in Live /\ buf[b] \in Buffer /\ buf[b].refcount = Cardinality(RefsOf(b))
      /\ buf[b].refcount > 0 /\ buf[b].refcount \in Nat
      /\ \A v \in Threads : call[v].at \in OnBuf => call[v].buf # b
      /\ buf[b].refcount = 1 => RefsOf(b) = {r}
  BY <1>0, <1>a, Held DEF Has, Buffer
<1>b. /\ n # b /\ buf[n].refcount = 1 /\ RefsOf(n) = {} /\ ~buf[n].pooled
      /\ \A v \in Threads : v # t /\ call[v].at \in OnBuf => call[v].buf # n
  BY <1>0, <1>1, <1>2, <1>a DEF IInv, CallInv, FreshInv, OnBuf, At
<1>3. /\ b \in Buffers /\ buf'[b] \in Buffer /\ buf'[b].refcount = buf[b].refcount - 1
      /\ buf'[b].data = buf[b].data /\ buf'[b].pooled = buf[b].pooled
      /\ buf'[b].flag = buf[b].flag
      /\ \A c \in Buffers : c # b => buf'[c] = buf[c]
  BY <1>1, <1>2 DEF IInv, TypeOK, Live, Buffer
<1>4. /\ ref'[r] = [buffer |-> n, holder |-> t] /\ ref'[r] \in BufferRef /\ ref'[r] # None
      /\ \A q \in Refs : q # r => ref'[q] = ref[q]
      /\ \A q \in Refs : ref'[q] # None <=> ref[q] # None
  <2>1. ref[r] \in BufferRef /\ ref[r].holder = t
    BY <1>a DEF IInv, TypeOK, Has
  <2>2. ref'[r] = [ref[r] EXCEPT !.buffer = n] /\ \A q \in Refs : q # r => ref'[q] = ref[q]
    BY <1>1, <1>a DEF IInv, TypeOK
  <2>3. ref'[r] = [buffer |-> n, holder |-> t] /\ ref'[r] \in BufferRef
    BY <2>1, <2>2, <1>a DEF BufferRef
  <2> QED BY <2>1, <2>2, <2>3, <1>a, BufferPoolAssumption DEF Has
<1>5. /\ \A v \in Threads : v # t => call'[v] = call[v]
      /\ \/ buf[b].refcount = 1 /\ call'[t] = [at |-> "free", ref |-> None, buf |-> b]
         \/ buf[b].refcount # 1 /\ call'[t] = [at |-> "idle", ref |-> None, buf |-> None]
  BY <1>1 DEF Goes, IInv, TypeOK
<1>6. Live' = Live
  BY <1>2, <1>3, BufferPoolAssumption DEF Live
<1>7. /\ RefsOf(b)' = RefsOf(b) \ {r} /\ r \in RefsOf(b) /\ RefsOf(n)' = {r}
      /\ \A c \in Buffers : c # b /\ c # n => RefsOf(c)' = RefsOf(c)
  BY <1>0, <1>a, <1>b, <1>4 DEF RefsOf, BufferOf, Has
<1>8. \A v \in Threads : call[v].at \in OnRef /\ v # t =>
         /\ call[v].ref \in Refs /\ call[v].ref # r /\ Has(v, call[v].ref)'
         /\ BufferOf(call[v].ref)' = BufferOf(call[v].ref)
         /\ BufferOf(call[v].ref) \in Live
  <2> SUFFICES ASSUME NEW v \in Threads, call[v].at \in OnRef, v # t
               PROVE  /\ call[v].ref \in Refs /\ call[v].ref # r /\ Has(v, call[v].ref)'
                      /\ BufferOf(call[v].ref)' = BufferOf(call[v].ref)
                      /\ BufferOf(call[v].ref) \in Live
    OBVIOUS
  <2>2. PICK q : q = call[v].ref
    OBVIOUS
  <2>3. q \in Refs /\ Has(v, q) /\ ref[q] # None /\ BufferOf(q) \in Live
    BY <2>2, Held DEF IInv, TypeOK, CallInv, Has
  <2>1. q # r
    BY <2>3, <1>a DEF Has
  <2>4. ref'[q] = ref[q] /\ BufferOf(call[v].ref)' = BufferOf(q)' /\ Has(v, call[v].ref)' = Has(v, q)'
    BY <2>1, <2>2, <2>3, <1>4, <1>5 DEF BufferOf, Has
  <2> QED BY <2>1, <2>2, <2>3, <2>4 DEF BufferOf, Has
<1>9. TypeOK'
  <2>1. call' \in [Threads -> [at : Places, ref : Refs \union {None}, buf : Buffers \union {None}]]
    <3>1. call'[t] \in [at : Places, ref : Refs \union {None}, buf : Buffers \union {None}]
      BY <1>3, <1>5 DEF Places
    <3>2. call' = [call EXCEPT ![t] = call'[t]]
      BY <1>1 DEF Goes, IInv, TypeOK
    <3> QED BY <3>1, <3>2 DEF IInv, TypeOK
  <2>2. \A v \in Threads : /\ call'[v].at \in OnRef <=> call'[v].ref # None
                           /\ call'[v].at \in OnBuf <=> call'[v].buf # None
    BY <1>3, <1>5, BufferPoolAssumption DEF IInv, TypeOK, OnRef, OnBuf
  <2>3. ref' \in [Refs -> BufferRef \union {None}] /\ buf' \in [Buffers -> Buffer \union {None}]
    BY <1>1, <1>3, <1>4 DEF IInv, TypeOK
  <2> QED BY <1>1, <2>1, <2>2, <2>3 DEF IInv, TypeOK, pool
<1>10. CallInv'
  <2>1. \A v \in Threads : v # t /\ call[v].at \in {"write", "realloc", "get"}
            => BufferOf(call[v].ref) # b
    <3> SUFFICES ASSUME NEW v \in Threads, v # t, call[v].at \in {"write", "realloc", "get"}
                 PROVE  BufferOf(call[v].ref) # b
      OBVIOUS
    <3>1. call[t].at \in OnRef
      BY <1>1 DEF At, OnRef
    <3> QED BY <1>0, <3>1, OthersApart
  <2>2. \A v \in Threads : call'[v].at \in OnRef => v # t /\ call[v].at \in OnRef /\ call'[v] = call[v]
    BY <1>5 DEF OnRef
  <2>4. \A v \in Threads : v # t /\ call[v].at \in {"write", "realloc", "get"}
            => buf'[BufferOf(call[v].ref)'] = buf[BufferOf(call[v].ref)]
    BY <2>1, <1>3, <1>8 DEF Live, OnRef
  <2>5. \A v \in Threads : call'[v].at \in OnBuf => call'[v].buf \in Live
    BY <1>2, <1>5 DEF IInv, CallInv, OnBuf
  <2>6. \A u, v \in Threads :
          call'[u].at \in OnBuf /\ call'[v].at \in OnBuf /\ call'[u].buf = call'[v].buf => u = v
    BY <1>2, <1>5 DEF IInv, CallInv, OnBuf
  <2>7. \A v \in Threads : call'[v].at \in {"write", "realloc", "get"}
            => /\ v # t /\ call'[v] = call[v] /\ call[v].at \in {"write", "realloc", "get"}
               /\ BufferOf(call[v].ref)' = BufferOf(call[v].ref)
    BY <1>5, <1>8 DEF OnRef
  <2>8. \A v \in Threads : call'[v].at \in OnRef => Has(v, call[v].ref)'
    BY <2>2, <1>8
  <2> QED BY <1>6, <2>2, <2>8, <2>4, <2>5, <2>6, <2>7 DEF IInv, CallInv, At
<1>11. RefsLive'
  BY <1>4, <1>6, <1>a DEF IInv, RefsLive, BufferOf
<1>12. \A v \in Threads, c \in Live :
          (Fresh(v, c)' => v # t /\ c # b /\ c # n) /\ (v # t => (Fresh(v, c)' <=> Fresh(v, c)))
  BY <1>1, <1>2, <1>b, <1>5 DEF Fresh, At, OnBuf
<1>13. Counted'
  <2> SUFFICES ASSUME NEW c \in Live, \A v \in Threads : ~Fresh(v, c)'
               PROVE  buf'[c].refcount = Cardinality(RefsOf(c)')
    BY <1>6 DEF Counted
  <2>1. CASE c = b
    <3>1. Cardinality(RefsOf(b)') = Cardinality(RefsOf(b)) - 1
      BY <1>7, RefsOfFinite, FS_RemoveElement
    <3> QED BY <2>1, <3>1, <1>2, <1>3
  <2>2. CASE c = n
    <3>1. Cardinality({r}) = 1
      BY FS_Singleton
    <3> QED BY <2>2, <3>1, <1>a, <1>b, <1>3, <1>7
  <2>3. CASE c # b /\ c # n
    <3>1. \A v \in Threads : ~Fresh(v, c)
      <4>1. ~Fresh(t, c)
        BY <1>0, <2>3 DEF Fresh
      <4> QED BY <4>1, <1>12
    <3> QED BY <2>3, <3>1, <1>3, <1>7 DEF IInv, Counted, Live
  <2> QED BY <2>1, <2>2, <2>3
<1>14. FreshInv'
  <2> SUFFICES ASSUME NEW v \in Threads, NEW c \in Live, Fresh(v, c)'
               PROVE  /\ buf'[c].refcount = 1 /\ RefsOf(c)' = {} /\ ~buf'[c].pooled
                      /\ content'[buf'[c].data] = content'[DataOf(call[v].ref)']
    BY <1>6 DEF FreshInv
  <2>1. Fresh(v, c) /\ v # t /\ c # b /\ c # n
    BY <1>12
  <2>2. buf'[c] = buf[c] /\ RefsOf(c)' = RefsOf(c)
    BY <2>1, <1>3, <1>7 DEF Live
  <2>3. content'[DataOf(call[v].ref)'] = content[DataOf(call[v].ref)]
    BY <2>1, <1>1, <1>3, <1>5, <1>8 DEF Fresh, At, OnRef, DataOf, Live, BufferOf, pool
  <2> QED BY <2>1, <2>2, <2>3, <1>1 DEF IInv, FreshInv
<1>15. FreeInv'
  <2>1. \A v \in Threads : At(v, "free") => call[v].buf # b /\ call[v].buf \in Live /\ v # t
    BY <1>1, <1>2 DEF IInv, CallInv, OnBuf, At
  <2>2. \A v \in Threads : At(v, "free")' => buf'[call'[v].buf].refcount = 0
    BY <1>2, <1>3, <1>5, <2>1 DEF IInv, FreeInv, At, Live
  <2>3. \A c \in Live : buf'[c].refcount = 0 => \E v \in Threads : At(v, "free")' /\ call'[v].buf = c
    <3> SUFFICES ASSUME NEW c \in Live, buf'[c].refcount = 0
                 PROVE  \E v \in Threads : At(v, "free")' /\ call'[v].buf = c
      OBVIOUS
    <3>1. CASE c = b
      <4>1. buf[b].refcount = 1
        BY <3>1, <1>2, <1>3
      <4> QED BY <3>1, <4>1, <1>5 DEF At
    <3>2. CASE c # b
      <4>1. PICK v \in Threads : At(v, "free") /\ call[v].buf = c
        BY <3>2, <1>3 DEF IInv, FreeInv, Live
      <4> QED BY <4>1, <2>1, <1>5 DEF At
    <3> QED BY <3>1, <3>2
  <2> QED BY <1>6, <2>2, <2>3 DEF FreeInv
<1>16. DataInv'
  BY <1>1, <1>3, <1>6 DEF IInv, DataInv, Live, pool
<1>17. PoolInv'
  <2>1. Out' = Out
    <3>1. \A c \in Live : Getting(c)' <=> Getting(c)
      <4>1. \A v \in Threads : At(v, "get")' <=> At(v, "get")
        BY <1>1, <1>5 DEF At
      <4>2. \A v \in Threads : At(v, "get") => BufferOf(call[v].ref)' = BufferOf(call[v].ref)
        BY <1>1, <1>8 DEF At, OnRef
      <4> QED BY <4>1, <4>2 DEF Getting
    <3>2. \A c \in Live : buf'[c].pooled = buf[c].pooled
      BY <1>3 DEF Live
    <3> QED BY <1>6, <3>1, <3>2 DEF Out
  <2>2. /\ Late' = Late /\ owned' = owned
        /\ \A v \in Threads, q \in {"get", "freepool"} : At(v, q)' <=> At(v, q)
    BY <1>1, <1>5 DEF Late, At, pool
  <2> QED BY <1>1, <2>1, <2>2, PoolRefsSame DEF IInv, PoolInv, pool
<1> QED BY <1>9, <1>10, <1>11, <1>13, <1>14, <1>15, <1>16, <1>17 DEF IInv

LEMMA CopyKeeps ==
    ASSUME IInv, NEW t \in Threads, Copy(t)
    PROVE  IInv'
<1>0. PICK r, e : r = call[t].ref /\ e = DataOf(r)
  OBVIOUS
<1>1. PICK b \in Buffers, d \in Data, flag \in Flags :
        /\ content[d] = None /\ content' = [content EXCEPT ![d] = content[e]]
        /\ NewBuffer(b, d, FALSE, flag) /\ Goes(t, "replace", r, b)
  <2>1. "none" \in Flags /\ "reallocatable" \in Flags
    BY DEF Flags
  <2> QED BY <1>0, <2>1 DEF Copy, NewData
<1>2. call[t].at \in {"copy", "recopy"} /\ UNCHANGED <<ref, pool>>
  BY DEF Copy
<1>3. r \in Refs /\ Has(t, r) /\ ref[r] # None /\ BufferOf(r) \in Live /\ e \in Data
  <2>1. r \in Refs /\ Has(t, r)
    BY <1>0, <1>2 DEF IInv, TypeOK, CallInv, OnRef
  <2>2. ref[r] # None /\ BufferOf(r) \in Live /\ buf[BufferOf(r)] \in Buffer
    BY <2>1, Held DEF Has
  <2> QED BY <1>0, <2>1, <2>2 DEF DataOf, Buffer
<1>4. content[e] # None /\ content[e] \in Values /\ e # d
  BY <1>0, <1>1, <1>3 DEF IInv, TypeOK, DataInv, DataOf
<1>5. /\ content'[d] = content[e] /\ content'[e] = content[e]
      /\ \A x \in Data : x # d => content'[x] = content[x]
      /\ content' \in [Data -> Values \union {None}]
  BY <1>1, <1>3, <1>4 DEF IInv, TypeOK
<1>6. /\ buf'[b] = [refcount |-> 1, data |-> d, pooled |-> FALSE, flag |-> flag]
      /\ buf'[b] \in Buffer /\ buf[b] = None
      /\ \A c \in Buffers : c # b => buf'[c] = buf[c]
      /\ buf' \in [Buffers -> Buffer \union {None}]
  BY <1>1 DEF NewBuffer, Buffer, IInv, TypeOK
<1>7. Live' = Live \union {b} /\ b \notin Live
  BY <1>6, BufferPoolAssumption DEF Live
<1>8. /\ call'[t] = [at |-> "replace", ref |-> r, buf |-> b]
      /\ \A v \in Threads : v # t => call'[v] = call[v]
  BY <1>1 DEF Goes, IInv, TypeOK
<1>9. (\A c \in Live : buf[c].data # d /\ buf[c].data \in Data) /\ d \notin free
  BY <1>1 DEF IInv, DataInv, TypeOK, Live, Buffer
<1>10. /\ RefsOf(b)' = {} /\ \A c \in Live : RefsOf(c)' = RefsOf(c)
       /\ \A q \in Refs : ref[q] # None => BufferOf(q)' = BufferOf(q) /\ BufferOf(q) \in Live
  BY <1>2, <1>7 DEF RefsOf, BufferOf, IInv, RefsLive
<1>11. \A v \in Threads : call[v].at \in OnRef =>
          /\ call[v].ref \in Refs /\ Has(v, call[v].ref) /\ ref[call[v].ref] # None
          /\ BufferOf(call[v].ref) \in Live
  BY <1>10 DEF IInv, TypeOK, CallInv, Has
<1>12. TypeOK'
  <2>1. call' \in [Threads -> [at : Places, ref : Refs \union {None}, buf : Buffers \union {None}]]
    BY <1>1, <1>3 DEF IInv, TypeOK, Goes, Places, OnRef
  <2>2. \A v \in Threads : /\ call'[v].at \in OnRef <=> call'[v].ref # None
                           /\ call'[v].at \in OnBuf <=> call'[v].buf # None
    BY <1>3, <1>8, BufferPoolAssumption DEF IInv, TypeOK, OnRef, OnBuf
  <2> QED BY <1>2, <1>5, <1>6, <2>1, <2>2 DEF IInv, TypeOK, pool
<1>13. CallInv'
  <2>1. \A v \in Threads : call'[v].at \in OnRef => Has(v, call[v].ref)'
    BY <1>2, <1>3, <1>8 DEF IInv, CallInv, Has
  <2>2. \A v \in Threads : call'[v].at \in OnBuf => call'[v].buf \in Live'
    BY <1>7, <1>8 DEF IInv, CallInv
  <2>3. \A u, v \in Threads :
          call'[u].at \in OnBuf /\ call'[v].at \in OnBuf /\ call'[u].buf = call'[v].buf => u = v
    BY <1>7, <1>8 DEF IInv, CallInv
  <2>4. \A v \in Threads : call'[v].at \in {"write", "realloc", "get"} =>
            v # t /\ call'[v] = call[v] /\ call[v].at \in OnRef
    BY <1>8 DEF OnRef
  <2>5. \A v \in Threads : v # t /\ call[v].at \in OnRef =>
            buf'[BufferOf(call[v].ref)'] = buf[BufferOf(call[v].ref)]
    BY <1>2, <1>6, <1>7, <1>8, <1>11 DEF BufferOf, Live
  <2> QED BY <2>1, <2>2, <2>3, <2>4, <2>5 DEF IInv, CallInv, At, BufferOf
<1>14. RefsLive'
  BY <1>2, <1>7, <1>10 DEF RefsLive
<1>15. \A v \in Threads, c \in Live : (Fresh(v, c)' <=> Fresh(v, c)) /\ (Fresh(v, c) => v # t)
  BY <1>2, <1>7, <1>8 DEF Fresh, At
<1>16. Counted'
  <2>1. Fresh(t, b)'
    BY <1>8 DEF Fresh, At
  <2> SUFFICES ASSUME NEW c \in Live, \A v \in Threads : ~Fresh(v, c)'
               PROVE  buf'[c].refcount = Cardinality(RefsOf(c)')
    BY <1>7, <2>1 DEF Counted
  <2> QED BY <1>6, <1>7, <1>10, <1>15 DEF IInv, Counted, Live
<1>17. FreshInv'
  <2> SUFFICES ASSUME NEW v \in Threads, NEW c \in Live', Fresh(v, c)'
               PROVE  /\ buf'[c].refcount = 1 /\ RefsOf(c)' = {} /\ ~buf'[c].pooled
                      /\ content'[buf'[c].data] = content'[DataOf(call[v].ref)']
    BY DEF FreshInv
  <2>1. CASE c = b
    <3>1. v = t
      <4>1. SUFFICES ASSUME v # t PROVE FALSE
        OBVIOUS
      <4>2. call[v].at \in OnBuf /\ call[v].buf = b
        BY <1>8, <2>1, <4>1 DEF Fresh, At, OnBuf
      <4> QED BY <1>7, <4>2 DEF IInv, CallInv
    <3>2. BufferOf(r)' = BufferOf(r) /\ DataOf(r)' = e
      BY <1>0, <1>3, <1>6, <1>7, <1>10 DEF DataOf, Live
    <3>3. DataOf(call[v].ref)' = e
      BY <1>8, <3>1, <3>2 DEF DataOf, BufferOf
    <3> QED BY <2>1, <3>3, <1>5, <1>6, <1>10
  <2>2. CASE c # b
    <3>1. c \in Live /\ Fresh(v, c) /\ v # t /\ call'[v] = call[v]
      BY <2>2, <1>7, <1>8, <1>15
    <3>2. PICK q : q = call[v].ref
      OBVIOUS
    <3>3. /\ q \in Refs /\ BufferOf(q)' = BufferOf(q) /\ BufferOf(q) \in Live
          /\ DataOf(q) \in Data /\ DataOf(q) # d
      BY <3>1, <3>2, <1>9, <1>10, <1>11 DEF Fresh, At, OnRef, DataOf
    <3>4. DataOf(call[v].ref)' = DataOf(q)
      BY <3>1, <3>2, <3>3, <1>6, <1>7 DEF DataOf, BufferOf, Live
    <3>5. content'[DataOf(q)] = content[DataOf(q)] /\ content'[buf[c].data] = content[buf[c].data]
      BY <3>1, <3>3, <1>5, <1>9
    <3>6. buf'[c] = buf[c] /\ RefsOf(c)' = RefsOf(c)
      BY <2>2, <3>1, <1>6, <1>10 DEF Live
    <3> QED BY <3>1, <3>2, <3>4, <3>5, <3>6 DEF IInv, FreshInv
  <2> QED BY <2>1, <2>2
<1>18. FreeInv'
  <2>1. \A v \in Threads : (At(v, "free")' <=> At(v, "free")) /\ (At(v, "free") => call'[v] = call[v])
    BY <1>2, <1>8 DEF At
  <2>2. \A v \in Threads : At(v, "free") => call[v].buf \in Live
    BY DEF At, IInv, CallInv, OnBuf
  <2> QED BY <1>6, <1>7, <2>1, <2>2 DEF IInv, FreeInv, Live
<1>19. DataInv'
  <2>1. \A x \in Data : content'[x] # None => x = d \/ content[x] # None
    BY <1>5
  <2>2. free' = free /\ d \notin free /\ content'[d] # None
    BY <1>2, <1>4, <1>5, <1>9 DEF pool
  <2>3. /\ buf'[b].data = d /\ buf'[b].pooled = FALSE
        /\ \A c \in Live : buf'[c] = buf[c] /\ buf[c].data # d /\ buf[c].data \in Data
    BY <1>6, <1>7, <1>9 DEF Live
  <2>4. \A c \in Live' : content'[buf'[c].data] # None /\ buf'[c].data \notin free'
    BY <1>5, <1>7, <2>2, <2>3 DEF IInv, DataInv
  <2>5. \A c, c2 \in Live' : buf'[c].data = buf'[c2].data => c = c2
    BY <1>7, <2>3 DEF IInv, DataInv
  <2>6. \A c \in Live' : buf'[c].pooled => buf'[c].flag = "none"
    BY <1>7, <2>3 DEF IInv, DataInv
  <2>7. \A x \in free' : content'[x] # None
    BY <1>5, <2>2 DEF IInv, TypeOK, DataInv
  <2>8. \A x \in Data : content'[x] # None => x \in free' \/ \E c \in Live' : buf'[c].data = x
    BY <1>7, <2>1, <2>2, <2>3 DEF IInv, DataInv
  <2> QED BY <2>4, <2>5, <2>6, <2>7, <2>8 DEF DataInv
<1>20. PoolInv'
  <2>1. Out' = Out
    <3>1. \A v \in Threads : /\ At(v, "get")' <=> At(v, "get")
                             /\ At(v, "get") => BufferOf(call[v].ref)' = BufferOf(call[v].ref)
      BY <1>2, <1>8 DEF At, BufferOf
    <3> QED BY <1>6, <1>7, <3>1 DEF Out, Getting, Live
  <2>2. /\ Late' = Late /\ owned' = owned
        /\ \A v \in Threads, q \in {"get", "freepool"} : At(v, q)' <=> At(v, q)
    BY <1>2, <1>8 DEF Late, At, pool
  <2> QED BY <1>2, <2>1, <2>2, PoolRefsSame DEF IInv, PoolInv, pool
<1> QED BY <1>12, <1>13, <1>14, <1>16, <1>17, <1>18, <1>19, <1>20 DEF IInv

LEMMA ReallocInPlaceKeeps ==
    ASSUME IInv, NEW t \in Threads, ReallocInPlace(t)
    PROVE  IInv'
<1>0. PICK r, b, e : r = call[t].ref /\ b = BufferOf(r) /\ e = buf[b].data
  OBVIOUS
<1>1. PICK d \in Data :
        /\ content[d] = None
        /\ content' = [content EXCEPT ![d] = content[e], ![e] = None]
        /\ buf' = [buf EXCEPT ![b].data = d]
  BY <1>0 DEF ReallocInPlace, DataOf
<1>2. At(t, "realloc") /\ call' = [call EXCEPT ![t] = Idle] /\ UNCHANGED <<ref, pool>>
  BY DEF ReallocInPlace, Returns
<1>3. /\ r \in Refs /\ Has(t, r) /\ b \in Live /\ e \in Data /\ ~buf[b].pooled
      /\ buf[b] \in Buffer /\ RefsOf(b) = {r}
      /\ \A v \in Threads : call[v].at \in OnBuf => call[v].buf # b
  <2>1. r \in Refs /\ Has(t, r) /\ ref[r] # None /\ buf[b].refcount = 1 /\ ~buf[b].pooled
    BY <1>0, <1>2 DEF IInv, TypeOK, CallInv, OnRef, At, Has
  <2> QED BY <1>0, <2>1, Held DEF Buffer
<1>4. /\ content[e] # None /\ content[e] \in Values /\ e # d /\ e \notin free /\ d \notin free
      /\ \A c \in Live : buf[c].data \in Data /\ buf[c].data # d /\ (c # b => buf[c].data # e)
  BY <1>0, <1>1, <1>3 DEF IInv, TypeOK, DataInv, Live, Buffer
<1>5. /\ content'[d] = content[e] /\ content'[e] = None
      /\ \A x \in Data : x # d /\ x # e => content'[x] = content[x]
      /\ content' \in [Data -> Values \union {None}]
  BY <1>1, <1>3, <1>4 DEF IInv, TypeOK
<1>6. /\ b \in Buffers /\ buf'[b] \in Buffer /\ buf'[b].refcount = buf[b].refcount
      /\ buf'[b].data = d /\ buf'[b].pooled = buf[b].pooled /\ buf'[b].flag = buf[b].flag
      /\ \A c \in Buffers : c # b => buf'[c] = buf[c]
      /\ buf' \in [Buffers -> Buffer \union {None}]
  BY <1>1, <1>3 DEF IInv, TypeOK, Live, Buffer
<1>7. Live' = Live /\ \A c \in Live : RefsOf(c)' = RefsOf(c)
  BY <1>2, <1>3, <1>6, BufferPoolAssumption DEF Live, RefsOf, BufferOf
<1>8. call'[t] = Idle /\ \A v \in Threads : v # t => call'[v] = call[v]
  BY <1>2 DEF IInv, TypeOK
<1>9. \A v \in Threads : v # t /\ call[v].at \in OnRef =>
         /\ BufferOf(call[v].ref) # b /\ BufferOf(call[v].ref) \in Live
         /\ BufferOf(call[v].ref)' = BufferOf(call[v].ref)
  <2> SUFFICES ASSUME NEW v \in Threads, v # t, call[v].at \in OnRef
               PROVE  /\ BufferOf(call[v].ref) # b /\ BufferOf(call[v].ref) \in Live
                      /\ BufferOf(call[v].ref)' = BufferOf(call[v].ref)
    OBVIOUS
  <2>1. call[t].at = "realloc" /\ BufferOf(call[v].ref) # b
    BY <1>0, <1>2, OthersApart DEF At
  <2>2. call[v].ref \in Refs /\ ref[call[v].ref] # None
    BY DEF IInv, TypeOK, CallInv, Has
  <2> QED BY <2>1, <2>2, <1>2, <1>8, Held DEF BufferOf
<1>10. \A v \in Threads, c \in Live :
          (Fresh(v, c)' <=> Fresh(v, c)) /\ (Fresh(v, c) => v # t /\ c # b)
  BY <1>2, <1>3, <1>8 DEF Fresh, At, Idle, OnBuf
<1>11. TypeOK'
  <2>1. call' \in [Threads -> [at : Places, ref : Refs \union {None}, buf : Buffers \union {None}]]
    BY <1>2 DEF IInv, TypeOK, Idle, Places
  <2>2. \A v \in Threads : /\ call'[v].at \in OnRef <=> call'[v].ref # None
                           /\ call'[v].at \in OnBuf <=> call'[v].buf # None
    BY <1>8 DEF IInv, TypeOK, OnRef, OnBuf, Idle
  <2> QED BY <1>2, <1>5, <1>6, <2>1, <2>2 DEF IInv, TypeOK, pool
<1>12. CallInv'
  <2>1. \A v \in Threads : call'[v].at \in OnRef => v # t /\ call'[v] = call[v] /\ call[v].at \in OnRef
    BY <1>8 DEF OnRef, Idle
  <2>2. \A v \in Threads : call'[v].at \in OnBuf => v # t /\ call'[v] = call[v] /\ call[v].at \in OnBuf
    BY <1>8 DEF OnBuf, Idle
  <2>3. \A v \in Threads : v # t /\ call[v].at \in OnRef =>
            buf'[BufferOf(call[v].ref)'] = buf[BufferOf(call[v].ref)]
    BY <1>6, <1>9 DEF Live
  <2>4. \A v \in Threads : call'[v].at \in OnRef => Has(v, call[v].ref)'
    BY <2>1, <1>2 DEF IInv, CallInv, Has
  <2>5. \A v \in Threads : call'[v].at \in {"write", "realloc", "get"} => call'[v].at \in OnRef
    BY DEF OnRef
  <2> QED BY <1>7, <2>1, <2>2, <2>3, <2>4, <2>5 DEF IInv, CallInv, At, BufferOf
<1>13. RefsLive'
  BY <1>2, <1>7 DEF IInv, RefsLive, BufferOf
<1>14. Counted'
  BY <1>6, <1>7, <1>10 DEF IInv, Counted, Live
<1>15. FreshInv'
  <2> SUFFICES ASSUME NEW v \in Threads, NEW c \in Live, Fresh(v, c)'
               PROVE  /\ buf'[c].refcount = 1 /\ RefsOf(c)' = {} /\ ~buf'[c].pooled
                      /\ content'[buf'[c].data] = content'[DataOf(call[v].ref)']
    BY <1>7 DEF FreshInv
  <2>1. Fresh(v, c) /\ v # t /\ c # b /\ call'[v] = call[v]
    BY <1>8, <1>10
  <2>2. PICK a : a = BufferOf(call[v].ref)
    OBVIOUS
  <2>3. a # b /\ a \in Live /\ BufferOf(call[v].ref)' = a
    BY <2>1, <2>2, <1>9 DEF Fresh, At, OnRef
  <2>4. DataOf(call[v].ref)' = buf[a].data /\ DataOf(call[v].ref) = buf[a].data
    BY <2>1, <2>2, <2>3, <1>6 DEF DataOf, BufferOf, Live
  <2>5. content'[buf[a].data] = content[buf[a].data] /\ content'[buf[c].data] = content[buf[c].data]
    BY <2>1, <2>3, <1>4, <1>5
  <2> QED BY <2>1, <2>4, <2>5, <1>6, <1>7 DEF IInv, FreshInv, Live
<1>16. FreeInv'
  <2>1. \A v \in Threads : (At(v, "free")' <=> At(v, "free")) /\ (At(v, "free") => call'[v] = call[v])
    BY <1>2, <1>8 DEF At, Idle
  <2>2. \A c \in Live : buf'[c].refcount = buf[c].refcount
    BY <1>6 DEF Live
  <2>3. \A v \in Threads : At(v, "free") => call[v].buf \in Live
    BY DEF At, IInv, CallInv, OnBuf
  <2> QED BY <1>7, <2>1, <2>2, <2>3 DEF IInv, FreeInv
<1>17. DataInv'
  <2>1. \A x \in Data : content'[x] # None => x = d \/ (x # e /\ content[x] # None)
    BY <1>5
  <2>2. \A x \in free : x \in Data /\ content'[x] = content[x]
    BY <1>4, <1>5 DEF IInv, TypeOK
  <2>3. \A c \in Live : content'[buf'[c].data] # None /\ buf'[c].data \notin free'
    BY <1>2, <1>3, <1>4, <1>5, <1>6, BufferPoolAssumption DEF IInv, DataInv, Live, pool
  <2>4. \A a, c \in Live : buf'[a].data = buf'[c].data => a = c
    BY <1>3, <1>4, <1>6 DEF IInv, DataInv, Live
  <2>5. \A c \in Live : buf'[c].pooled => buf'[c].flag = "none"
    BY <1>6 DEF IInv, DataInv, Live
  <2>6. \A x \in Data : content'[x] # None => x \in free \/ \E c \in Live : buf'[c].data = x
    <3> SUFFICES ASSUME NEW x \in Data, content'[x] # None, x \notin free
                 PROVE  \E c \in Live : buf'[c].data = x
      OBVIOUS
    <3>1. CASE x = d
      BY <3>1, <1>3, <1>6
    <3>2. CASE x # e /\ content[x] # None
      <4>1. PICK c \in Live : buf[c].data = x
        BY <3>2 DEF IInv, DataInv
      <4>2. c # b
        BY <3>2, <4>1, <1>0
      <4> QED BY <4>1, <4>2, <1>6 DEF Live
    <3> QED BY <3>1, <3>2, <2>1
  <2> QED BY <1>2, <1>7, <2>2, <2>3, <2>4, <2>5, <2>6 DEF IInv, DataInv, pool
<1>18. PoolInv'
  <2>1. Out' = Out
    <3>1. \A v \in Threads : /\ At(v, "get")' <=> At(v, "get")
                             /\ At(v, "get") => BufferOf(call[v].ref)' = BufferOf(call[v].ref)
      BY <1>2, <1>8 DEF At, Idle, BufferOf
    <3> QED BY <1>6, <1>7, <3>1 DEF Out, Getting, Live
  <2>2. /\ Late' = Late /\ owned' = owned
        /\ \A v \in Threads, q \in {"get", "freepool"} : At(v, q)' <=> At(v, q)
    BY <1>2, <1>8 DEF Late, At, pool, Idle
  <2> QED BY <1>2, <2>1, <2>2, PoolRefsSame DEF IInv, PoolInv, pool
<1> QED BY <1>11, <1>12, <1>13, <1>14, <1>15, <1>16, <1>17, <1>18 DEF IInv

-----------------------------------------------------------------------------
(* The theorems                                                            *)

LEMMA Initially == Init => IInv
<1> SUFFICES ASSUME Init PROVE IInv
  OBVIOUS
<1>1. Live = {} /\ \A t \in Threads : call[t] = Idle
  BY DEF Init, Live
<1>2. TypeOK
  BY <1>1, BufferPoolAssumption DEF Init, TypeOK, Idle, Places, OnRef, OnBuf
<1>3. CallInv /\ RefsLive /\ Counted /\ FreshInv /\ FreeInv /\ DataInv
  BY <1>1 DEF Init, CallInv, RefsLive, Counted, FreshInv, FreeInv, DataInv, At, Idle, OnRef, OnBuf
<1>4. PoolInv
  <2>1. Out = {} /\ Late = {}
    BY <1>1 DEF Out, Late, At, Idle
  <2>2. PoolRefs = 1
    BY <2>1, FS_EmptySet DEF PoolRefs, Init
  <2> QED BY <1>1, <2>2 DEF Init, PoolInv, At, Idle
<1> QED BY <1>2, <1>3, <1>4 DEF IInv

LEMMA Inductive == IInv /\ [Next]_vars => IInv'
<1> SUFFICES ASSUME IInv, [Next]_vars PROVE IInv'
  OBVIOUS
<1>1. CASE UNCHANGED vars
  <2>1. UNCHANGED <<ref, buf, content, free, poolRefcount, poolAlive, owned, call>>
    BY <1>1 DEF vars, pool
  <2>2. TypeOK' /\ CallInv' /\ RefsLive'
    BY <2>1 DEF IInv, TypeOK, CallInv, RefsLive, Live, At, Has, BufferOf
  <2>3. Counted' /\ FreshInv'
    BY <2>1 DEF IInv, Counted, FreshInv, RefsOf, Fresh, Live, At, BufferOf, DataOf
  <2>4. FreeInv' /\ DataInv'
    BY <2>1 DEF IInv, FreeInv, DataInv, Live, At
  <2>5. PoolRefs' = PoolRefs
    BY <2>1, PoolRefsSame DEF Out, Late, Getting, Live, At, BufferOf
  <2> QED BY <2>1, <2>2, <2>3, <2>4, <2>5 DEF IInv, PoolInv, At
<1>2. CASE \E t \in Threads : Steps(t)
  <2>1. PICK t \in Threads : Steps(t)
    BY <1>2
  <2> QED BY <2>1, PoolGetCountsKeeps, FreeDataKeeps, PoolReleaseKeeps, PoolUninitKeeps,
             PoolUncountsKeeps, PoolFreeKeeps, WriteKeeps, ReallocInPlaceKeeps, CopyKeeps,
             NoMemoryKeeps, ReplaceKeeps DEF Steps
<1>3. CASE \E t \in Threads, r \in Refs : Calls(t, r)
  <2>1. PICK t \in Threads, r \in Refs : Calls(t, r)
    BY <1>3
  <2> QED BY <2>1, CreateKeeps, PoolGetKeeps, UnrefKeeps, WritableKeeps, RefKeeps DEF Calls
<1> QED BY <1>1, <1>2, <1>3 DEF Next

(* The invariant holds always, so all state is of its type: counters do not *)
(* become negative (buffer.c).                                              *)
THEOREM Invariant == Spec => []IInv
BY Initially, Inductive, PTL DEF Spec

THEOREM Typing == Spec => []TypeOK
<1>1. IInv => TypeOK
  BY DEF IInv
<1> QED BY <1>1, Invariant, PTL

(* No reference, and no call of buffer.c, gets to a buffer, to data or to a *)
(* pool that has been freed, whatever threads do in whatever order.         *)
THEOREM UsesAreSafe == Spec => []NoUseAfterFree
<1>1. IInv => NoUseAfterFree
  <2> SUFFICES ASSUME IInv PROVE NoUseAfterFree
    OBVIOUS
  <2>1. \A t \in Threads : At(t, "free") => call[t].buf \in Live /\ buf[call[t].buf].refcount = 0
    BY DEF IInv, CallInv, FreeInv, At, OnBuf
  <2>2. poolRefcount = PoolRefs /\ (PoolRefs # 0 => poolAlive)
    BY DEF IInv, PoolInv
  <2>3. owned => poolAlive
    BY <2>2, PoolRefsFinite DEF PoolRefs
  <2>4. ASSUME NEW t \in Threads, At(t, "uncount") PROVE poolAlive
    <3>1. Cardinality(Late) # 0
      BY <2>4, PoolRefsFinite, FS_EmptySet DEF Late
    <3> QED BY <2>2, <3>1, PoolRefsFinite DEF PoolRefs
  <2>5. ASSUME NEW t \in Threads, At(t, "free"), buf[call[t].buf].pooled PROVE poolAlive
    <3>1. PICK b : b = call[t].buf
      OBVIOUS
    <3>2. b \in Live /\ buf[b].refcount = 0
      BY <2>1, <2>5, <3>1
    <3>3. ~Getting(b)
      BY <3>2 DEF Getting, IInv, CallInv, At
    <3>4. b \in Out
      BY <2>5, <3>1, <3>2, <3>3 DEF Out
    <3>5. Cardinality(Out) # 0
      BY <3>4, PoolRefsFinite, FS_EmptySet
    <3> QED BY <2>2, <3>5, PoolRefsFinite DEF PoolRefs
  <2>6. \A t \in Threads : At(t, "get") \/ At(t, "freepool") => poolAlive
    BY <2>3 DEF IInv, PoolInv
  <2>7. \A t \in Threads :
          owned \/ call[t].at \in {"get", "uncount", "freepool"}
                \/ (At(t, "free") /\ buf[call[t].buf].pooled) => poolAlive
    BY <2>3, <2>4, <2>5, <2>6 DEF At
  <2> QED BY <2>1, <2>7 DEF IInv, NoUseAfterFree, RefsLive, DataInv
<1> QED BY <1>1, Invariant, PTL

(* When everything has been given up and returned, nothing is left.         *)
THEOREM AllIsFreed == Spec => []NothingLeaks
<1>1. IInv => NothingLeaks
  <2> SUFFICES ASSUME IInv, \A r \in Refs : ref[r] = None, \A t \in Threads : At(t, "idle")
               PROVE  /\ Live = {}
                      /\ ~owned => ~poolAlive /\ \A d \in Data : content[d] = None
    BY DEF NothingLeaks
  <2>1. \A t \in Threads : ~At(t, "free") /\ ~At(t, "freepool") /\ ~At(t, "uncount") /\ ~At(t, "replace")
    BY DEF At
  <2>2. Live = {}
    <3> SUFFICES ASSUME NEW b \in Live PROVE FALSE
      OBVIOUS
    <3>1. RefsOf(b) = {} /\ \A t \in Threads : ~Fresh(t, b)
      BY <2>1 DEF RefsOf, Fresh
    <3>2. buf[b].refcount = 0
      BY <3>1, FS_EmptySet DEF IInv, Counted
    <3> QED BY <2>1, <3>2 DEF IInv, FreeInv
  <2>3. ASSUME ~owned PROVE ~poolAlive /\ \A d \in Data : content[d] = None
    <3>1. Out = {} /\ Late = {}
      BY <2>1, <2>2 DEF Out, Late
    <3>2. PoolRefs = 0
      BY <2>3, <3>1, FS_EmptySet DEF PoolRefs
    <3>3. ~poolAlive /\ free = {}
      BY <2>1, <3>2 DEF IInv, PoolInv
    <3> QED BY <2>2, <3>3 DEF IInv, DataInv
  <2> QED BY <2>2, <2>3
<1> QED BY <1>1, Invariant, PTL

-----------------------------------------------------------------------------
(***************************************************************************)
(* BufferPool implements CopiedData for every number of threads,           *)
(* references, buffers and data.                                           *)
(***************************************************************************)

(* What is seen through a reference is allocated data.                      *)
LEMMA Seen ==
    ASSUME IInv, NEW r \in Refs, ref[r] # None
    PROVE  /\ View[r] = [holder |-> ref[r].holder, value |-> content[DataOf(r)]]
           /\ View[r] \in Copied!Views /\ DataOf(r) \in Data /\ DataOf(r) \notin free
<1>1. /\ ref[r] \in BufferRef /\ BufferOf(r) \in Live /\ buf[BufferOf(r)] \in Buffer
  BY Held
<1>2. DataOf(r) \in Data /\ content[DataOf(r)] \in Values /\ DataOf(r) \notin free
  BY <1>1 DEF DataOf, Buffer, IInv, DataInv, TypeOK
<1>3. View[r] = [holder |-> ref[r].holder, value |-> content[DataOf(r)]]
  BY DEF View
<1> QED BY <1>1, <1>2, <1>3 DEF Copied!Views, BufferRef

(* Nothing is seen to change if references stay, and what they lead to.     *)
LEMMA SeenSame ==
    ASSUME \A r \in Refs : ref'[r] = None <=> ref[r] = None,
           \A r \in Refs : ref[r] # None =>
               ref'[r].holder = ref[r].holder /\ content'[DataOf(r)'] = content[DataOf(r)]
    PROVE  View' = View
BY DEF View

LEMMA SeenSameData ==
    ASSUME IInv, UNCHANGED <<ref, buf>>,
           \A r \in Refs : ref[r] # None => content'[DataOf(r)] = content[DataOf(r)]
    PROVE  View' = View
BY SeenSame DEF DataOf, BufferOf

(* A new reference to a new buffer.                                         *)
LEMMA NewObtains ==
    ASSUME IInv, IInv', NEW t \in Threads, NEW r \in Refs, NEW b \in Buffers, NEW d \in Data,
           NEW isPooled, NEW flag,
           NewRef(t, r, b), NewBuffer(b, d, isPooled, flag),
           \A e \in Data : e # d => content'[e] = content[e],
           \A c \in Live : buf[c].data # d
    PROVE  Copied!Next
<1>1. /\ ref[r] = None /\ ref'[r] = [buffer |-> b, holder |-> t]
      /\ \A q \in Refs : q # r => ref'[q] = ref[q]
      /\ buf[b] = None /\ buf'[b].data = d /\ \A c \in Buffers : c # b => buf'[c] = buf[c]
  BY DEF NewRef, NewBuffer, IInv, TypeOK
<1>2. ref'[r] \in BufferRef /\ ref'[r] # None
  BY <1>1, BufferPoolAssumption DEF BufferRef
<1>3. View'[r] = [holder |-> t, value |-> content'[d]] /\ content'[d] \in Values
  <2>1. DataOf(r)' = d
    BY <1>1 DEF DataOf, BufferOf
  <2>2. b \in Live'
    BY <1>1, <1>2 DEF IInv, RefsLive, BufferOf
  <2>3. content'[d] \in Values
    BY <1>1, <2>2 DEF IInv, TypeOK, DataInv
  <2> QED BY <1>1, <1>2, <2>1, <2>3 DEF View
<1>4. \A q \in Refs : q # r => View'[q] = View[q]
  <2> SUFFICES ASSUME NEW q \in Refs, q # r, ref[q] # None PROVE View'[q] = View[q]
    BY <1>1 DEF View
  <2>1. BufferOf(q) \in Live /\ BufferOf(q) # b /\ BufferOf(q)' = BufferOf(q)
    BY <1>1, Held DEF Live, BufferOf
  <2>2. DataOf(q)' = DataOf(q) /\ DataOf(q) # d /\ DataOf(q) \in Data
    BY <1>1, <2>1, Seen DEF DataOf, Live
  <2> QED BY <1>1, <2>2 DEF View
<1>5. View' = [View EXCEPT ![r] = [holder |-> t, value |-> content'[d]]]
  <2>1. /\ View = [q \in Refs |-> View[q]] /\ View' = [q \in Refs |-> View'[q]]
    BY DEF View
  <2> QED BY ONLY <1>3, <1>4, <2>1
<1>6. View[r] = None
  BY <1>1 DEF View
<1>7. Copied!Obtain(t, r, content'[d])
  BY <1>5, <1>6 DEF Copied!Obtain
<1> QED BY <1>3, <1>7 DEF Copied!Next

LEMMA RefShares ==
    ASSUME IInv, NEW t \in Threads, NEW u \in Threads, NEW r \in Refs, NEW q \in Refs,
           Ref(t, u, r, q)
    PROVE  Copied!Next
<1>0. PICK b : b = BufferOf(r)
  OBVIOUS
<1>1. /\ Has(t, r) /\ ref[r] # None /\ ref[q] = None
      /\ ref'[q] = [buffer |-> b, holder |-> u] /\ ref'[q] # None
      /\ \A p \in Refs : p # q => ref'[p] = ref[p]
      /\ buf' = [buf EXCEPT ![b].refcount = @ + 1] /\ UNCHANGED content
  <2>1. b \in Buffers
    BY <1>0, Held DEF Ref, Has, Live
  <2>2. [buffer |-> b, holder |-> u] \in BufferRef
    BY <2>1 DEF BufferRef
  <2> QED BY <1>0, <2>2, BufferPoolAssumption DEF Ref, NewRef, Has, IInv, TypeOK
<1>2. \A c \in Live : buf'[c].data = buf[c].data
  BY <1>1 DEF IInv, TypeOK, Live, Buffer
<1>3. \A p \in Refs : p # q /\ ref[p] # None => DataOf(p)' = DataOf(p)
  BY <1>1, <1>2, Held DEF DataOf, BufferOf
<1>4. DataOf(q)' = DataOf(r)
  BY <1>0, <1>1, <1>2, Held DEF DataOf, BufferOf
<1>5. \A p \in Refs : p # q => View'[p] = View[p]
  BY <1>1, <1>3 DEF View
<1>6. View'[q] = [holder |-> u, value |-> content[DataOf(r)]]
  BY <1>1, <1>4 DEF View
<1>7. View[r] \in Copied!Views /\ View[r].holder = t /\ View[r].value = content[DataOf(r)]
  <2>1. View[r] = [holder |-> ref[r].holder, value |-> content[DataOf(r)]] /\ View[r] \in Copied!Views
    BY <1>1, Seen
  <2>2. ref[r].holder = t
    BY <1>1 DEF Has
  <2> QED BY <2>1, <2>2
<1>8. View' = [View EXCEPT ![q] = [holder |-> u, value |-> View[r].value]]
  BY <1>5, <1>6, <1>7 DEF View
<1>9. View[q] = None
  BY <1>1 DEF View
<1>10. Copied!Share(t, u, r, q)
  BY <1>7, <1>8, <1>9 DEF Copied!Share
<1> QED BY <1>10 DEF Copied!Next

LEMMA UnrefDrops ==
    ASSUME IInv, NEW t \in Threads, NEW r \in Refs, Unref(t, r)
    PROVE  Copied!Next
<1>0. PICK b : b = BufferOf(r)
  OBVIOUS
<1>1. /\ Has(t, r) /\ ref[r] # None /\ ref'[r] = None
      /\ \A p \in Refs : p # r => ref'[p] = ref[p]
      /\ buf' = [buf EXCEPT ![b].refcount = @ - 1] /\ UNCHANGED content
  BY <1>0 DEF Unref, Uncounts, Has, IInv, TypeOK
<1>2. \A c \in Live : buf'[c].data = buf[c].data
  BY <1>1 DEF IInv, TypeOK, Live, Buffer
<1>3. \A p \in Refs : p # r /\ ref[p] # None => DataOf(p)' = DataOf(p)
  BY <1>1, <1>2, Held DEF DataOf, BufferOf
<1>4. \A p \in Refs : p # r => View'[p] = View[p]
  BY <1>1, <1>3 DEF View
<1>5. View'[r] = None
  BY <1>1 DEF View
<1>6. View' = [View EXCEPT ![r] = None]
  BY <1>4, <1>5 DEF View
<1>7. View[r] \in Copied!Views /\ View[r].holder = t
  <2>1. View[r] = [holder |-> ref[r].holder, value |-> content[DataOf(r)]] /\ View[r] \in Copied!Views
    BY <1>1, Seen
  <2>2. ref[r].holder = t
    BY <1>1 DEF Has
  <2> QED BY <2>1, <2>2
<1>8. Copied!Drop(t, r)
  BY <1>6, <1>7 DEF Copied!Drop
<1> QED BY <1>8 DEF Copied!Next

(* Nobody else sees what is written: the buffer has this one reference.     *)
LEMMA WriteModifies ==
    ASSUME IInv, NEW t \in Threads, Write(t)
    PROVE  Copied!Next
<1>0. PICK r, d : r = call[t].ref /\ d = DataOf(r)
  OBVIOUS
<1>1. PICK v \in Values : content' = [content EXCEPT ![d] = v]
  BY <1>0 DEF Write
<1>2. r \in Refs /\ Has(t, r) /\ ref[r] # None /\ UNCHANGED <<ref, buf>>
      /\ buf[BufferOf(r)].refcount = 1
  BY <1>0 DEF Write, At, IInv, TypeOK, CallInv, OnRef, Has
<1>3. d \in Data /\ View[r] \in Copied!Views /\ View[r].holder = t
  <2>1. /\ View[r] = [holder |-> ref[r].holder, value |-> content[DataOf(r)]]
        /\ View[r] \in Copied!Views /\ DataOf(r) \in Data
    BY <1>2, Seen
  <2>2. ref[r].holder = t
    BY <1>2 DEF Has
  <2> QED BY <1>0, <2>1, <2>2
<1>4. \A p \in Refs : p # r /\ ref[p] # None => DataOf(p) # d
  <2> SUFFICES ASSUME NEW p \in Refs, p # r, ref[p] # None PROVE DataOf(p) # d
    OBVIOUS
  <2>1. BufferOf(p) # BufferOf(r)
    BY <1>2, Held DEF RefsOf
  <2> QED BY <1>0, <1>2, <2>1, Held DEF DataOf, IInv, DataInv
<1>5. \A p \in Refs : DataOf(p)' = DataOf(p)
  BY <1>2 DEF DataOf, BufferOf
<1>6. /\ content'[d] = v /\ \A e \in Data : e # d => content'[e] = content[e]
  BY <1>1, <1>3 DEF IInv, TypeOK
<1>7. \A p \in Refs : p # r => View'[p] = View[p]
  BY <1>2, <1>4, <1>5, <1>6, Seen DEF View
<1>8. View'[r] = [holder |-> t, value |-> v]
  BY <1>0, <1>2, <1>5, <1>6 DEF View, Has
<1>9. View' = [View EXCEPT ![r].value = v]
  <2>1. [View[r] EXCEPT !.value = v] = [holder |-> t, value |-> v]
    BY <1>3 DEF Copied!Views
  <2>2. [View EXCEPT ![r].value = v] = [View EXCEPT ![r] = [holder |-> t, value |-> v]]
    BY <2>1, <1>2 DEF View
  <2> QED BY <1>7, <1>8, <2>2 DEF View
<1>10. Copied!Modify(t, r, v)
  BY <1>3, <1>9 DEF Copied!Modify
<1> QED BY <1>1, <1>2, <1>10 DEF Copied!Next

(* What changes the data of a buffer, or the buffer of a reference, keeps   *)
(* what is seen through it.                                                 *)
LEMMA ReallocStutters ==
    ASSUME IInv, NEW t \in Threads, ReallocInPlace(t)
    PROVE  View' = View
<1>0. PICK r, b, e : r = call[t].ref /\ b = BufferOf(r) /\ e = buf[b].data
  OBVIOUS
<1>1. PICK d \in Data :
        /\ content[d] = None
        /\ content' = [content EXCEPT ![d] = content[e], ![e] = None]
        /\ buf' = [buf EXCEPT ![b].data = d] /\ UNCHANGED ref
  BY <1>0 DEF ReallocInPlace, DataOf
<1>2. /\ r \in Refs /\ ref[r] # None /\ b \in Live /\ RefsOf(b) = {r}
  BY <1>0, Held DEF ReallocInPlace, At, IInv, TypeOK, CallInv, OnRef, Has
<1>3. e \in Data /\ content[e] # None /\ e # d
  BY <1>0, <1>1, <1>2 DEF IInv, TypeOK, DataInv, Live, Buffer
<1>4. /\ buf'[b].data = d /\ content'[d] = content[e]
      /\ \A c \in Live : c # b => buf'[c] = buf[c]
      /\ \A x \in Data : x # d /\ x # e => content'[x] = content[x]
  BY <1>1, <1>2, <1>3 DEF IInv, TypeOK, Live, Buffer
<1>5. \A p \in Refs : ref[p] # None => content'[DataOf(p)'] = content[DataOf(p)]
  <2> SUFFICES ASSUME NEW p \in Refs, ref[p] # None
               PROVE  content'[DataOf(p)'] = content[DataOf(p)]
    OBVIOUS
  <2>1. CASE p = r
    BY <2>1, <1>0, <1>1, <1>4 DEF DataOf, BufferOf
  <2>2. CASE p # r
    <3>1. BufferOf(p) # b /\ BufferOf(p) \in Live
      BY <2>2, <1>2, Held DEF RefsOf
    <3>2. DataOf(p)' = DataOf(p) /\ DataOf(p) # e /\ DataOf(p) # d /\ DataOf(p) \in Data
      <4>1. DataOf(p) \in Data /\ DataOf(p) = buf[BufferOf(p)].data
        BY Seen DEF DataOf
      <4>2. DataOf(p) # e /\ DataOf(p) # d
        BY <4>1, <3>1, <1>0, <1>1, <1>2 DEF IInv, DataInv
      <4>3. DataOf(p)' = DataOf(p)
        BY <3>1, <1>1, <1>4 DEF DataOf, BufferOf
      <4> QED BY <4>1, <4>2, <4>3
    <3> QED BY <3>2, <1>4
  <2> QED BY <2>1, <2>2
<1> QED BY <1>1, <1>5, SeenSame

LEMMA CopyStutters ==
    ASSUME IInv, NEW t \in Threads, Copy(t)
    PROVE  View' = View
<1>1. PICK b \in Buffers, d \in Data, flag \in Flags :
        /\ content[d] = None /\ \A e \in Data : e # d => content'[e] = content[e]
        /\ NewBuffer(b, d, FALSE, flag)
  <2>1. "none" \in Flags /\ "reallocatable" \in Flags
    BY DEF Flags
  <2> QED BY <2>1 DEF Copy, NewData, IInv, TypeOK
<1>2. UNCHANGED ref /\ buf[b] = None /\ \A c \in Buffers : c # b => buf'[c] = buf[c]
  BY <1>1 DEF Copy, NewBuffer, IInv, TypeOK
<1>3. \A p \in Refs : ref[p] # None => content'[DataOf(p)'] = content[DataOf(p)]
  <2> SUFFICES ASSUME NEW p \in Refs, ref[p] # None
               PROVE  content'[DataOf(p)'] = content[DataOf(p)]
    OBVIOUS
  <2>1. BufferOf(p) \in Live /\ BufferOf(p) # b /\ BufferOf(p)' = BufferOf(p)
    BY <1>2, Held DEF Live, BufferOf
  <2>2. DataOf(p)' = DataOf(p) /\ DataOf(p) \in Data /\ DataOf(p) # d
    <3>1. DataOf(p) \in Data /\ DataOf(p) = buf[BufferOf(p)].data
      BY Seen DEF DataOf
    <3>2. DataOf(p) # d
      BY <1>1, <2>1, <3>1 DEF IInv, DataInv
    <3>3. DataOf(p)' = DataOf(p)
      BY <1>2, <2>1 DEF DataOf, Live
    <3> QED BY <3>1, <3>2, <3>3
  <2> QED BY <1>1, <2>2
<1> QED BY <1>2, <1>3, SeenSame

LEMMA ReplaceStutters ==
    ASSUME IInv, NEW t \in Threads, Replace(t)
    PROVE  View' = View
<1>0. PICK r, b, n : r = call[t].ref /\ b = BufferOf(r) /\ n = call[t].buf
  OBVIOUS
<1>1. /\ ref' = [ref EXCEPT ![r].buffer = n]
      /\ buf' = [buf EXCEPT ![b].refcount = @ - 1] /\ UNCHANGED content
  BY <1>0 DEF Replace, Uncounts
<1>2. /\ r \in Refs /\ ref[r] # None /\ ref[r] \in BufferRef
      /\ n \in Live /\ content[buf[n].data] = content[DataOf(r)]
  BY <1>0 DEF Replace, At, IInv, TypeOK, CallInv, FreshInv, Fresh, OnRef, OnBuf, Has, Live
<1>3. \A c \in Live : buf'[c].data = buf[c].data
  BY <1>1 DEF IInv, TypeOK, Live, Buffer
<1>4. /\ ref'[r] = [buffer |-> n, holder |-> ref[r].holder] /\ n \in Buffers
      /\ ref'[r] \in BufferRef /\ ref'[r] # None
      /\ \A q \in Refs : q # r => ref'[q] = ref[q]
  BY <1>1, <1>2, BufferPoolAssumption DEF IInv, TypeOK, BufferRef, Live
<1>5. DataOf(r)' = buf[n].data
  BY <1>2, <1>3, <1>4 DEF DataOf, BufferOf
<1>6. \A q \in Refs : q # r /\ ref[q] # None => DataOf(q)' = DataOf(q)
  BY <1>3, <1>4, Held DEF DataOf, BufferOf
<1> QED BY <1>1, <1>2, <1>4, <1>5, <1>6, SeenSame

(* Freeing concerns nothing that is seen.                                   *)
LEMMA FreeStutters ==
    ASSUME IInv, NEW t \in Threads, FreeData(t) \/ PoolRelease(t) \/ PoolFree(t)
    PROVE  View' = View
<1>1. CASE PoolFree(t)
  <2>1. UNCHANGED <<ref, buf>> /\ \A d \in Data : d \notin free => content'[d] = content[d]
    BY <1>1 DEF PoolFree
  <2> QED BY <2>1, Seen, SeenSameData
<1>2. CASE FreeData(t) \/ PoolRelease(t)
  <2>0. PICK b : b = call[t].buf
    OBVIOUS
  <2>1. /\ UNCHANGED ref /\ buf' = [buf EXCEPT ![b] = None] /\ At(t, "free")
        /\ content' = content \/ content' = [content EXCEPT ![buf[b].data] = None]
    BY <1>2, <2>0 DEF FreeData, PoolRelease
  <2>2. b \in Live
    BY <2>0, <2>1 DEF IInv, CallInv, OnBuf, At
  <2>3. \A p \in Refs : ref[p] # None => content'[DataOf(p)'] = content[DataOf(p)]
    <3> SUFFICES ASSUME NEW p \in Refs, ref[p] # None
                 PROVE  content'[DataOf(p)'] = content[DataOf(p)]
      OBVIOUS
    <3>1. BufferOf(p) # b /\ BufferOf(p) \in Live /\ BufferOf(p)' = BufferOf(p)
      BY <2>0, <2>1, Held DEF At, OnBuf, BufferOf
    <3>2. DataOf(p)' = DataOf(p) /\ DataOf(p) \in Data /\ DataOf(p) # buf[b].data
      <4>1. DataOf(p) \in Data /\ DataOf(p) = buf[BufferOf(p)].data
        BY Seen DEF DataOf
      <4>2. DataOf(p) # buf[b].data
        BY <2>2, <3>1, <4>1 DEF IInv, DataInv
      <4>3. DataOf(p)' = DataOf(p)
        BY <2>1, <3>1 DEF DataOf, Live, IInv, TypeOK
      <4> QED BY <4>1, <4>2, <4>3
    <3> QED BY <2>1, <3>2 DEF IInv, TypeOK
  <2> QED BY <2>1, <2>3, SeenSame
<1> QED BY <1>1, <1>2

LEMMA OthersStutter ==
    ASSUME IInv, NEW t \in Threads, NEW r \in Refs,
           \/ MakeWritable(t, r) \/ Realloc(t, r) \/ NoMemory(t)
           \/ PoolGetCounts(t) \/ PoolUninit(t) \/ PoolUncounts(t)
    PROVE  View' = View
<1>1. UNCHANGED <<ref, buf, content>>
  BY DEF MakeWritable, Realloc, NoMemory, PoolGetCounts, PoolUninit, PoolUncounts
<1> QED BY <1>1, SeenSameData

LEMMA Step == IInv /\ IInv' /\ [Next]_vars => [Copied!Next]_View
<1> SUFFICES ASSUME IInv, IInv', [Next]_vars PROVE Copied!Next \/ View' = View
  OBVIOUS
<1>1. CASE UNCHANGED vars
  BY <1>1 DEF vars, View, DataOf, BufferOf
<1>2. CASE \E t \in Threads : Steps(t)
  <2>1. PICK t \in Threads : Steps(t)
    BY <1>2
  <2>2. CASE Write(t)
    BY <2>2, WriteModifies
  <2>3. CASE ReallocInPlace(t) \/ Copy(t) \/ Replace(t)
    BY <2>3, ReallocStutters, CopyStutters, ReplaceStutters
  <2>4. CASE FreeData(t) \/ PoolRelease(t) \/ PoolFree(t)
    BY <2>4, FreeStutters
  <2>5. CASE NoMemory(t) \/ PoolGetCounts(t) \/ PoolUninit(t) \/ PoolUncounts(t)
    <3>1. UNCHANGED <<ref, buf, content>>
      BY <2>5 DEF NoMemory, PoolGetCounts, PoolUninit, PoolUncounts
    <3> QED BY <3>1, SeenSameData
  <2> QED BY <2>1, <2>2, <2>3, <2>4, <2>5 DEF Steps
<1>3. CASE \E t \in Threads, r \in Refs : Calls(t, r)
  <2>1. PICK t \in Threads, r \in Refs : Calls(t, r)
    BY <1>3
  <2>2. CASE Create(t, r)
    <3>1. PICK b \in Buffers, d \in Data, v \in Values, flag \in Flags :
            NewRef(t, r, b) /\ NewData(d, v) /\ NewBuffer(b, d, FALSE, flag)
      BY <2>2 DEF Create
    <3>2. /\ \A c \in Live : buf[c].data # d
          /\ \A e \in Data : e # d => content'[e] = content[e]
      BY <3>1 DEF NewData, IInv, TypeOK, DataInv
    <3> QED BY <3>1, <3>2, NewObtains
  <2>3. CASE PoolGet(t, r)
    <3>1. PICK b \in Buffers, d \in Data :
            /\ NewRef(t, r, b) /\ NewBuffer(b, d, TRUE, "none")
            /\ \/ d \in free /\ UNCHANGED content
               \/ \E v \in Values : NewData(d, v)
      BY <2>3 DEF PoolGet
    <3>2. /\ \A c \in Live : buf[c].data # d
          /\ \A e \in Data : e # d => content'[e] = content[e]
      BY <3>1 DEF NewData, IInv, TypeOK, DataInv
    <3> QED BY <3>1, <3>2, NewObtains
  <2>4. CASE Unref(t, r)
    BY <2>4, UnrefDrops
  <2>5. CASE MakeWritable(t, r) \/ Realloc(t, r)
    BY <2>5, OthersStutter
  <2>6. CASE \E u \in Threads, q \in Refs : Ref(t, u, r, q)
    BY <2>6, RefShares
  <2> QED BY <2>1, <2>2, <2>3, <2>4, <2>5, <2>6 DEF Calls
<1> QED BY <1>1, <1>2, <1>3 DEF Next

LEMMA Start == Init => Copied!Init
BY DEF Init, Copied!Init, View

(* References are as good as copies, for any number of threads and buffers: *)
(* reference counting, copying on write and the pool of buffer.c implement  *)
(* CopiedData.                                                              *)
THEOREM Refinement == Spec => ImplementsCopies
<1>1. Spec => []IInv
  BY Invariant
<1> QED BY <1>1, Start, Step, PTL DEF Spec, ImplementsCopies, Copied!Spec
=============================================================================
