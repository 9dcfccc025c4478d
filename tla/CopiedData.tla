----------------------------- MODULE CopiedData -----------------------------
(***************************************************************************)
(* What libavutil/buffer.h promises who keeps to its rules: a reference is *)
(* as good as a copy.  Each thread sees, through each of its references,   *)
(* the data as it was when the reference was made and as the thread itself *)
(* has since written it, whoever else has a reference, and until it drops  *)
(* the reference.                                                          *)
(***************************************************************************)
CONSTANTS Threads, Refs, Values, None

VARIABLE view       \* of a reference: the thread that has it, the data it sees

Views == [holder : Threads, value : Values]

Init == view = [r \in Refs |-> None]

\* av_buffer_alloc, av_buffer_create, av_buffer_pool_get
Obtain(t, r, v) ==
    /\ view[r] = None
    /\ view' = [view EXCEPT ![r] = [holder |-> t, value |-> v]]

\* av_buffer_ref, for the thread u
Share(t, u, r, q) ==
    /\ view[r] \in Views /\ view[r].holder = t /\ view[q] = None
    /\ view' = [view EXCEPT ![q] = [holder |-> u, value |-> view[r].value]]

\* Only who has the reference writes, after av_buffer_make_writable.
Modify(t, r, v) ==
    /\ view[r] \in Views /\ view[r].holder = t
    /\ view' = [view EXCEPT ![r].value = v]

\* av_buffer_unref
Drop(t, r) ==
    /\ view[r] \in Views /\ view[r].holder = t
    /\ view' = [view EXCEPT ![r] = None]

Next ==
    \E t \in Threads, r \in Refs :
        \/ Drop(t, r)
        \/ \E v \in Values : Obtain(t, r, v) \/ Modify(t, r, v)
        \/ \E u \in Threads, q \in Refs : Share(t, u, r, q)

Spec == Init /\ [][Next]_view
=============================================================================
