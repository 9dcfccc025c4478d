----------------------------- MODULE BufferPool -----------------------------
(***************************************************************************)
(* libavutil/buffer.c: data with a counted number of references, copied by *)
(* who wants to write while others refer to it, and a pool to which data   *)
(* returns after the last reference.  The pool is counted as well: it is   *)
(* freed after its owner has given it up and all of its data has returned. *)
(*                                                                         *)
(* The steps are the accesses to what threads share: the two kinds of      *)
(* counters, the data, and the pool's list under its mutex.  A thread uses *)
(* a reference it has, one call at a time, writes only after it has made   *)
(* the reference writable, and does not give up the pool during a call of  *)
(* av_buffer_pool_get: those are the rules of buffer.h.                    *)
(***************************************************************************)
EXTENDS Integers, FiniteSets

CONSTANTS Threads,
          Refs,     \* what can be an AVBufferRef: all that malloc has
          Buffers,  \* what can be an AVBuffer
          Data,     \* what can be the data of one
          Values,   \* of data
          None

Flags     == {"none", "readonly", "reallocatable"}      \* BUFFER_FLAG_
Buffer    == [refcount : Nat, data : Data, pooled : BOOLEAN, flag : Flags]
BufferRef == [buffer : Buffers, holder : Threads]

ASSUME BufferPoolAssumption ==
    /\ IsFiniteSet(Threads) /\ IsFiniteSet(Refs) /\ IsFiniteSet(Buffers)
    /\ None \notin Refs \union Buffers \union Values
    /\ None \notin Buffer /\ None \notin BufferRef

VARIABLES ref,              \* the references, each None or its buffer and the
                            \* thread that has it
          buf,              \* the buffers, each None or an AVBuffer: pooled is
                            \* that its free is pool_release_buffer
          content,          \* of data, None if it is not allocated
          free,             \* the data that is in the list of the pool
          poolRefcount, poolAlive,  \* refcount of the pool, and it is not freed
          owned,            \* the caller's pointer to the pool is not NULL
          call              \* of a thread: where it is, the reference it was
                            \* given, the buffer b it has found or made

pool == <<free, poolRefcount, poolAlive, owned>>
vars == <<ref, buf, content, pool, call>>

Idle == [at |-> "idle", ref |-> None, buf |-> None]

Init ==
    /\ ref = [r \in Refs |-> None]
    /\ buf = [b \in Buffers |-> None]
    /\ content = [d \in Data |-> None]
    /\ free = {} /\ poolRefcount = 1 /\ poolAlive = TRUE /\ owned = TRUE
    /\ call = [t \in Threads |-> Idle]

At(t, place)       == call[t].at = place
Goes(t, at, r, b)  == call' = [call EXCEPT ![t] = [at |-> at, ref |-> r, buf |-> b]]
Returns(t)         == call' = [call EXCEPT ![t] = Idle]
Has(t, r)          == ref[r] # None /\ ref[r].holder = t
BufferOf(r)        == ref[r].buffer
DataOf(r)          == buf[BufferOf(r)].data

\* av_buffer_create, but for the reference
NewBuffer(b, d, isPooled, flag) ==
    /\ buf[b] = None
    /\ buf' = [buf EXCEPT ![b] = [refcount |-> 1, data |-> d, pooled |-> isPooled, flag |-> flag]]

NewData(d, v) == content[d] = None /\ content' = [content EXCEPT ![d] = v]

NewRef(t, r, b) == ref[r] = None /\ ref' = [ref EXCEPT ![r] = [buffer |-> b, holder |-> t]]

-----------------------------------------------------------------------------
(* Making references.  A call that finds no memory changes nothing.        *)

\* av_buffer_alloc, av_buffer_create with or without AV_BUFFER_FLAG_READONLY,
\* and av_buffer_realloc of NULL
Create(t, r) ==
    /\ At(t, "idle")
    /\ \E b \in Buffers, d \in Data, v \in Values, flag \in Flags :
          NewRef(t, r, b) /\ NewData(d, v) /\ NewBuffer(b, d, FALSE, flag)
    /\ UNCHANGED <<pool, call>>

\* Mutant: the new reference is not counted.
RefUncounted(t, u, r, q) ==
    /\ At(t, "idle") /\ Has(t, r)
    /\ NewRef(u, q, BufferOf(r))
    /\ UNCHANGED <<buf, content, pool, call>>

\* av_buffer_ref, and the thread u that the new reference is handed to
Ref(t, u, r, q) ==
    /\ At(t, "idle") /\ Has(t, r)
    /\ NewRef(u, q, BufferOf(r))
    /\ buf' = [buf EXCEPT ![BufferOf(r)].refcount = @ + 1]
    /\ UNCHANGED <<content, pool, call>>

\* av_buffer_pool_get, under the mutex: data of the list, or else new data,
\* which pool_alloc_buffer gives an entry of the pool
PoolGet(t, r) ==
    /\ At(t, "idle") /\ owned
    /\ \E b \in Buffers, d \in Data :
          /\ NewRef(t, r, b) /\ NewBuffer(b, d, TRUE, "none")
          /\ \/ d \in free /\ free' = free \ {d} /\ UNCHANGED content
             \/ free = {} /\ (\E v \in Values : NewData(d, v)) /\ UNCHANGED free
    /\ Goes(t, "get", r, None)
    /\ UNCHANGED <<poolRefcount, poolAlive, owned>>

\* Mutant: the pool's counter does not follow.
PoolGetUncounted(t) ==
    /\ At(t, "get")
    /\ Returns(t)
    /\ UNCHANGED <<ref, buf, content, pool>>

\* The pool's counter follows after the mutex has been released.
PoolGetCounts(t) ==
    /\ At(t, "get")
    /\ poolRefcount' = poolRefcount + 1
    /\ Returns(t)
    /\ UNCHANGED <<ref, buf, content, free, poolAlive, owned>>

-----------------------------------------------------------------------------
(* Dropping references                                                     *)

\* The end of buffer_replace, up to the decision.
Uncounts(t, b) ==
    /\ buf' = [buf EXCEPT ![b].refcount = @ - 1]
    /\ IF buf[b].refcount = 1 THEN Goes(t, "free", None, b) ELSE Returns(t)

\* av_buffer_unref
Unref(t, r) ==
    /\ At(t, "idle") /\ Has(t, r)
    /\ ref' = [ref EXCEPT ![r] = None]
    /\ Uncounts(t, BufferOf(r))
    /\ UNCHANGED <<content, pool>>

\* b->free is av_buffer_default_free.
FreeData(t) ==
    /\ At(t, "free") /\ ~buf[call[t].buf].pooled
    /\ content' = [content EXCEPT ![buf[call[t].buf].data] = None]
    /\ buf' = [buf EXCEPT ![call[t].buf] = None]
    /\ Returns(t)
    /\ UNCHANGED <<ref, pool>>

\* b->free is pool_release_buffer: the data is put in the list, under the mutex.
PoolRelease(t) ==
    /\ At(t, "free") /\ buf[call[t].buf].pooled
    /\ free' = free \union {buf[call[t].buf].data}
    /\ buf' = [buf EXCEPT ![call[t].buf] = None]
    /\ Goes(t, "uncount", None, None)
    /\ UNCHANGED <<ref, content, poolRefcount, poolAlive, owned>>

\* av_buffer_pool_uninit, by an owner none of whose threads is in av_buffer_pool_get
PoolUninit(t) ==
    /\ At(t, "idle") /\ owned
    /\ \A u \in Threads : ~At(u, "get")
    /\ owned' = FALSE
    /\ Goes(t, "uncount", None, None)
    /\ UNCHANGED <<ref, buf, content, free, poolRefcount, poolAlive>>

\* The end of pool_release_buffer and of av_buffer_pool_uninit
PoolUncounts(t) ==
    /\ At(t, "uncount")
    /\ poolRefcount' = poolRefcount - 1
    /\ IF poolRefcount = 1 THEN Goes(t, "freepool", None, None) ELSE Returns(t)
    /\ UNCHANGED <<ref, buf, content, free, poolAlive, owned>>

\* Mutant: the data in the list is forgotten.
PoolFreeLeaks(t) ==
    /\ At(t, "freepool")
    /\ free' = {} /\ poolAlive' = FALSE
    /\ Returns(t)
    /\ UNCHANGED <<ref, buf, content, poolRefcount, owned>>

\* buffer_pool_free
PoolFree(t) ==
    /\ At(t, "freepool")
    /\ content' = [d \in Data |-> IF d \in free THEN None ELSE content[d]]
    /\ free' = {} /\ poolAlive' = FALSE
    /\ Returns(t)
    /\ UNCHANGED <<ref, buf, poolRefcount, owned>>

-----------------------------------------------------------------------------
(* Writing                                                                 *)

\* Mutant: one other reference is overlooked.
WritableShared(b) == buf[b].flag # "readonly" /\ buf[b].refcount <= 2

\* av_buffer_is_writable
Writable(b) == buf[b].flag # "readonly" /\ buf[b].refcount = 1

\* av_buffer_make_writable, up to the decision
MakeWritable(t, r) ==
    /\ At(t, "idle") /\ Has(t, r)
    /\ Goes(t, IF Writable(BufferOf(r)) THEN "write" ELSE "copy", r, None)
    /\ UNCHANGED <<ref, buf, content, pool>>

\* av_buffer_realloc to another size, likewise; moved is that the data of the
\* reference does not begin where that of the buffer does.
Realloc(t, r) ==
    /\ At(t, "idle") /\ Has(t, r)
    /\ \E moved \in BOOLEAN :
          Goes(t, IF buf[BufferOf(r)].flag = "reallocatable" /\ Writable(BufferOf(r)) /\ ~moved
                  THEN "realloc" ELSE "recopy", r, None)
    /\ UNCHANGED <<ref, buf, content, pool>>

\* The caller writes.
Write(t) ==
    /\ At(t, "write")
    /\ \E v \in Values : content' = [content EXCEPT ![DataOf(call[t].ref)] = v]
    /\ Returns(t)
    /\ UNCHANGED <<ref, buf, pool>>

\* av_realloc moves the data.
ReallocInPlace(t) ==
    /\ At(t, "realloc")
    /\ LET old == DataOf(call[t].ref) IN
       \E d \in Data :
          /\ content[d] = None
          /\ content' = [content EXCEPT ![d] = content[old], ![old] = None]
          /\ buf' = [buf EXCEPT ![BufferOf(call[t].ref)].data = d]
    /\ Returns(t)
    /\ UNCHANGED <<ref, pool>>

\* A copy is made, which no one else knows of yet ...
Copy(t) ==
    /\ call[t].at \in {"copy", "recopy"}
    /\ \E b \in Buffers, d \in Data :
          /\ NewData(d, content[DataOf(call[t].ref)])
          /\ NewBuffer(b, d, FALSE, IF At(t, "recopy") THEN "reallocatable" ELSE "none")
          /\ Goes(t, "replace", call[t].ref, b)
    /\ UNCHANGED <<ref, pool>>

\* ... or there is no memory for it, and the call fails.
NoMemory(t) ==
    /\ call[t].at \in {"copy", "recopy", "realloc"}
    /\ Returns(t)
    /\ UNCHANGED <<ref, buf, content, pool>>

\* buffer_replace: the reference is one to the copy from now on.
Replace(t) ==
    /\ At(t, "replace")
    /\ ref' = [ref EXCEPT ![call[t].ref].buffer = call[t].buf]
    /\ Uncounts(t, BufferOf(call[t].ref))
    /\ UNCHANGED <<content, pool>>

-----------------------------------------------------------------------------
Steps(t) ==
    \/ PoolGetCounts(t) \/ FreeData(t) \/ PoolRelease(t) \/ PoolUninit(t)
    \/ PoolUncounts(t) \/ PoolFree(t)
    \/ Write(t) \/ ReallocInPlace(t) \/ Copy(t) \/ NoMemory(t) \/ Replace(t)

Calls(t, r) ==
    \/ Create(t, r) \/ PoolGet(t, r) \/ Unref(t, r) \/ MakeWritable(t, r) \/ Realloc(t, r)
    \/ \E u \in Threads, q \in Refs : Ref(t, u, r, q)

Next == \E t \in Threads : Steps(t) \/ \E r \in Refs : Calls(t, r)

Spec == Init /\ [][Next]_vars

-----------------------------------------------------------------------------
(* Properties                                                              *)

OnRef  == {"get", "write", "copy", "recopy", "realloc", "replace"}
OnBuf  == {"free", "replace"}
Places == OnRef \union {"idle", "free", "uncount", "freepool"}

TypeOK ==
    /\ ref \in [Refs -> BufferRef \union {None}]
    /\ buf \in [Buffers -> Buffer \union {None}]
    /\ content \in [Data -> Values \union {None}]
    /\ free \subseteq Data /\ poolRefcount \in Nat /\ poolAlive \in BOOLEAN /\ owned \in BOOLEAN
    /\ call \in [Threads -> [at : Places, ref : Refs \union {None}, buf : Buffers \union {None}]]
    /\ \A t \in Threads : (call[t].at \in OnRef <=> call[t].ref # None)
                       /\ (call[t].at \in OnBuf <=> call[t].buf # None)

Live == {b \in Buffers : buf[b] # None}

(* Nothing that is freed is used, whoever was the last to let go: the       *)
(* buffer of a reference and its data are there, data has one buffer or is  *)
(* in the list of the pool, and the pool is there for whoever comes to it.  *)
NoUseAfterFree ==
    /\ \A r \in Refs : ref[r] # None => BufferOf(r) \in Live
    /\ \A t \in Threads : At(t, "free") => call[t].buf \in Live /\ buf[call[t].buf].refcount = 0
    /\ \A b \in Live : content[buf[b].data] # None /\ buf[b].data \notin free
    /\ \A b, c \in Live : buf[b].data = buf[c].data => b = c
    /\ \A d \in free : content[d] # None
    /\ \A t \in Threads :
          owned \/ call[t].at \in {"get", "uncount", "freepool"}
                \/ (At(t, "free") /\ buf[call[t].buf].pooled) => poolAlive

(* When all references are dropped, the pool is given up and all calls have *)
(* returned, everything has been freed, the pool and its data included, in  *)
(* whatever order threads have done so.                                     *)
NothingLeaks ==
    (\A r \in Refs : ref[r] = None) /\ (\A t \in Threads : At(t, "idle"))
      => /\ Live = {}
         /\ ~owned => ~poolAlive /\ \A d \in Data : content[d] = None

View == [r \in Refs |-> IF ref[r] = None THEN None
                        ELSE [holder |-> ref[r].holder, value |-> content[DataOf(r)]]]

Copied == INSTANCE CopiedData WITH view <- View

(* References are as good as copies: what a thread sees through one of its  *)
(* own never changes but by its own writing (buffer.h, "AVBuffer API").     *)
ImplementsCopies == Copied!Spec
=============================================================================
