---------------------------- MODULE MCFifoMuxer ----------------------------
(* The options of FifoMuxer to check.                                       *)
EXTENDS FifoMuxer

Option(drop, restart, recover, any, max, streamtime, fails) ==
    [drop |-> drop, restart |-> restart, recover |-> recover, any |-> any,
     max |-> max, streamtime |-> streamtime, fails |-> fails]

NotAgain == Failures \ {"again"}

\* The encoder waits: without recovery, with it, and with it for any error
Blocking == {Option(FALSE, FALSE, FALSE, FALSE, 0, FALSE, NotAgain),
             Option(FALSE, FALSE, TRUE, FALSE, 0, FALSE, NotAgain),
             Option(FALSE, TRUE, TRUE, TRUE, 1, FALSE, NotAgain)}

\* The encoder does not: with real time and stream time
Dropping == {Option(TRUE, FALSE, FALSE, FALSE, 0, FALSE, Failures),
             Option(TRUE, TRUE, TRUE, FALSE, 1, FALSE, Failures),
             Option(TRUE, TRUE, TRUE, TRUE, 0, TRUE, Failures)}

AllConfigs == Blocking \union Dropping

\* For the options that do not do what the documentation says
ResumeConfigs   == {Option(TRUE, TRUE, FALSE, FALSE, 0, FALSE, Failures)}
RecoverConfigs  == {Option(FALSE, FALSE, TRUE, FALSE, 0, FALSE, Failures)}

KeyPackets == {1, 3}
=============================================================================
