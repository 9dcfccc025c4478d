-------------------------- MODULE BuildScriptsProofs --------------------------
(***************************************************************************)
(* Proofs about BuildScripts for any number of runs and any command lines, *)
(* with tools that fail and runs that are interrupted at any time: what a  *)
(* success of build-ffmpeg-iOS.sh means.                                   *)
(***************************************************************************)
EXTENDS BuildScripts, TLAPS

LEMMA ArchsDef == Archs = {"arm64", "x86_64"} /\ "all" \notin Archs
BY DEF Archs, ARCHS, ToSet

LEMMA LibrariesDef == Libraries = {"x264", "amr", "openssl", "lame", "ffmpeg"}
BY DEF Libraries, Order, ToSet

(* A loop over ARCHS compiles the architectures asked for.                  *)
LEMMA SelectedIsWanted ==
    ASSUME args \in Invocations
    PROVE  /\ Selected \in Seq(Archs) /\ ToSet(Selected) = Wanted
           /\ Wanted \subseteq Archs
<1>1. args.arch \in {"all", "arm64", "x86_64"}
  BY BuildScriptsAssumption
<1>2. Wanted \subseteq Archs
  BY DEF Wanted
<1>3. CASE args.arch = "all"
  <2>1. Selected = ARCHS /\ Wanted = Archs
    BY <1>3 DEF Selected, Wanted
  <2>2. ARCHS \in Seq(Archs)
    BY ArchsDef DEF ARCHS
  <2> QED BY <1>2, <2>1, <2>2 DEF Archs
<1>4. CASE args.arch # "all"
  <2>1. Selected = <<args.arch>> /\ Wanted = {args.arch} /\ args.arch \in Archs
    BY <1>1, <1>4, ArchsDef DEF Selected, Wanted
  <2>2. ToSet(<<args.arch>>) = {args.arch}
    BY DEF ToSet
  <2> QED BY <1>2, <2>1, <2>2
<1> QED BY <1>3, <1>4

(* The driver goes on with a later script.                                  *)
LEMMA AfterIsLater ==
    ASSUME NEW l \in Libraries \ {"ffmpeg"}
    PROVE  After(l) \in Libraries \ {"x264"}
<1>1. Place(l) \in 1 .. 4 /\ Order[Place(l)] = l
  <2>1. \E i \in 1 .. 4 : Order[i] = l
    BY LibrariesDef DEF Order
  <2>2. DOMAIN Order = 1 .. 5 /\ Order[5] = "ffmpeg"
    BY DEF Order
  <2> QED BY <2>1, <2>2 DEF Place
<1> DEFINE later == {i \in DOMAIN Order : i > Place(l) /\ Builds(Order[i])}
<1>2. later \subseteq 2 .. 5 /\ 5 \in later
  BY <1>1 DEF Order, Builds
<1>3. Min(later) \in later
  <2>1. \E x \in later : \A y \in later : x <= y
    <3> HIDE DEF later
    <3>1. CASE 2 \in later BY <1>2, <3>1
    <3>2. CASE 2 \notin later /\ 3 \in later BY <1>2, <3>2
    <3>3. CASE 2 \notin later /\ 3 \notin later /\ 4 \in later BY <1>2, <3>3
    <3>4. CASE 2 \notin later /\ 3 \notin later /\ 4 \notin later BY <1>2, <3>4
    <3> QED BY <3>1, <3>2, <3>3, <3>4
  <2> QED BY <2>1 DEF Min
<1>4. Order[Min(later)] \in Libraries \ {"x264"}
  <2>1. \A i \in 2 .. 5 : Order[i] \in {"amr", "openssl", "lame", "ffmpeg"}
    BY DEF Order
  <2>2. Min(later) \in 2 .. 5
    BY <1>2, <1>3
  <2> HIDE DEF later
  <2> QED BY <2>1, <2>2, LibrariesDef
<1> QED BY <1>4 DEF After
-----------------------------------------------------------------------------
(* The inductive invariant                                                  *)

InScript == pc \in {"fetch", "compile"}

Types == TypeOK /\ todo \in Seq(Archs \union {"all"})

\* A run has a result when it has ended.
Status == pc = "idle" <=> result # "running"

\* A script that removes its build directory when it starts finds nothing
\* there afterwards but what this run has compiled.
OwnSlices == \A l \in {"x264", "openssl", "ffmpeg"} :
    cur = l /\ InScript => \A a \in Archs : thin[l][a] \in {Absent, run}

\* A library that is there is of one run.
OneRun == \A l \in {"x264", "amr", "openssl"} :
    \A a, b \in Has(lib[l]) : lib[l][a] = lib[l][b]

\* What ffmpeg's script has compiled of what was asked for, and nothing else,
\* and what it has been linked with.
Compiled == cur = "ffmpeg" /\ pc = "compile" =>
    /\ ToSet(todo) \subseteq Wanted
    /\ \A a \in Archs \ Wanted : thin["ffmpeg"][a] = Absent
    /\ \A a \in Wanted \ ToSet(todo) :
           thin["ffmpeg"][a] # Absent /\ \A l \in Enabled : lib[l][a] # Absent

\* Before its loop nothing is.
NotYet == cur = "ffmpeg" /\ pc = "fetch" =>
    todo = Selected /\ \A a \in Archs : thin["ffmpeg"][a] = Absent

\* Once the script of x264 has started, what there is of x264 is of this run.
OldX264IsGone ==
    /\ pc # "idle" \/ result = "ok"
    /\ args.rebuild /\ "x264" \in Enabled
    /\ ~(cur = "x264" /\ pc = "start")
    => \A a \in Archs : lib["x264"][a] \in {Absent, run}

IInv == /\ Types /\ Status /\ OwnSlices /\ OneRun /\ Compiled /\ NotYet
        /\ OldX264IsGone /\ SuccessIsComplete

(* The initial state, and the steps that begin or end a run                 *)

LEMMA RunIsNat ==
    ASSUME Types
    PROVE  run \in Nat /\ run # Absent /\ run \in 0 .. MaxRuns
BY BuildScriptsAssumption DEF Types, TypeOK, Absent

LEMMA InitEstablishes == Init => IInv
<1> SUFFICES ASSUME Init PROVE IInv
  OBVIOUS
<1>1. Types
  BY BuildScriptsAssumption, LibrariesDef DEF Init, Types, TypeOK, Slices, Empty, Absent, ToSet
<1>2. OneRun
  BY LibrariesDef DEF Init, OneRun, Has
<1> QED BY <1>1, <1>2 DEF Init, IInv, Status, OwnSlices, Compiled, NotYet, OldX264IsGone,
           SuccessIsComplete, InScript

LEMMA InvokeKeeps ==
    ASSUME IInv, NEW a \in Invocations, Invoke(a)
    PROVE  IInv'
<1>1. /\ run' \in 0 .. MaxRuns /\ run' \in Nat /\ args' = a /\ result' = "running"
      /\ pc' = "start" /\ UNCHANGED <<todo, lib, thin, x264Src, patched>>
  BY RunIsNat, BuildScriptsAssumption DEF IInv, Invoke
<1>2. /\ cur' \in Libraries
      /\ a.rebuild /\ "x264" \in Enabled' => cur' = "x264"
  <2>1. a.third \in {"all", "none", "x264", "amr", "openssl", "lame"}
    BY BuildScriptsAssumption
  <2>2. cur' \in Libraries
    BY <2>1, LibrariesDef DEF Invoke
  <2>3. "x264" \in Enabled' => a.third \in {"all", "x264"}
    BY <1>1 DEF Enabled
  <2> QED BY <2>2, <2>3 DEF Invoke
<1>3. Types'
  BY <1>1, <1>2, RunIsNat DEF IInv, Types, TypeOK, Slices
<1>4. OneRun'
  BY <1>1 DEF IInv, OneRun, Has
<1>5. Status' /\ OwnSlices' /\ Compiled' /\ NotYet' /\ OldX264IsGone' /\ SuccessIsComplete'
  BY <1>1, <1>2 DEF Status, OwnSlices, InScript, Compiled, NotYet, OldX264IsGone,
     SuccessIsComplete
<1> QED BY <1>3, <1>4, <1>5 DEF IInv

(* When a script is left another one starts, or the run has failed.         *)
LEMMA LeaveEnds ==
    ASSUME Types, Leave
    PROVE  /\ todo' = <<>> /\ cur' \in Libraries
           /\ \/ pc' = "idle" /\ result' = "failed"
              \/ pc' = "start" /\ result' = result /\ cur' # "x264"
BY AfterIsLater, LibrariesDef DEF Leave, Types, TypeOK

LEMMA LeaveKeepsTypes ==
    ASSUME Types, Leave, UNCHANGED <<run, args>>,
           lib' \in [Libraries -> Slices], thin' \in [Libraries -> Slices],
           x264Src' \in {"absent", "partial", "complete"}, patched' \in {0, 1}
    PROVE  Types'
<1>1. todo' = <<>> /\ todo' \in Seq(Archs \union {"all"})
  BY LeaveEnds
<1>2. ToSet(todo') = {}
  BY <1>1 DEF ToSet
<1>3. /\ cur' \in Libraries /\ pc' \in {"idle", "start"}
      /\ result' \in {"none", "running", "ok", "failed", "interrupted"}
  BY LeaveEnds DEF Types, TypeOK
<1>4. Slices' = Slices
  BY DEF Slices
<1> QED BY <1>1, <1>2, <1>3, <1>4 DEF Types, TypeOK

(* Between two scripts, and after a run that was not successful, there is   *)
(* only to show that what is left of a library is of one run.               *)
LEMMA BetweenScripts ==
    ASSUME IInv, Types', OneRun', UNCHANGED <<run, args>>, pc # "idle",
           \/ pc' = "idle" /\ result' \in {"failed", "interrupted"}
           \/ pc' = "start" /\ result' = result /\ cur' # "x264",
           \/ pc' = "idle"
           \/ args.rebuild /\ "x264" \in Enabled =>
                  \A a \in Archs : lib'["x264"][a] \in {Absent, run}
    PROVE  IInv'
<1>1. result = "running" /\ result' # "ok"
  BY DEF IInv, Status
<1>2. Status' /\ OwnSlices' /\ Compiled' /\ NotYet' /\ SuccessIsComplete'
  BY <1>1 DEF Status, OwnSlices, InScript, Compiled, NotYet, SuccessIsComplete
<1>3. OldX264IsGone'
  BY <1>1 DEF OldX264IsGone, Enabled
<1> QED BY <1>2, <1>3 DEF IInv

LEMMA InterruptKeeps == ASSUME IInv, Interrupt PROVE IInv'
<1>1. Types'
  <2>1. todo' = <<>> /\ x264Src' \in {"absent", "partial", "complete"}
    BY DEF Interrupt, IInv, Types, TypeOK
  <2> QED BY <2>1 DEF Interrupt, IInv, Types, TypeOK, Slices, ToSet
<1>2. OneRun'
  BY DEF Interrupt, IInv, OneRun, Has
<1> QED BY <1>1, <1>2, BetweenScripts DEF Interrupt

-----------------------------------------------------------------------------
(* The steps of a script                                                    *)

LEMMA StartKeeps == ASSUME IInv, Start PROVE IInv'
<1>1. /\ cur' = cur /\ pc = "start" /\ pc' = "fetch" /\ cur \in Libraries
      /\ UNCHANGED <<run, args, x264Src, patched, result>> /\ result = "running"
      /\ args \in Invocations
  BY DEF Start, IInv, Types, TypeOK, Status
<1>2. todo' = Requested(cur) /\ Requested(cur) \in Seq(Archs \union {"all"})
  <2>1. Selected \in Seq(Archs \union {"all"})
    <3>1. Seq(Archs) \subseteq Seq(Archs \union {"all"})
      OBVIOUS
    <3> QED BY <1>1, <3>1, SelectedIsWanted
  <2>2. <<args.arch>> \in Seq(Archs \union {"all"})
    BY <1>1, BuildScriptsAssumption, ArchsDef
  <2> QED BY <2>1, <2>2 DEF Start, Requested
<1>3. /\ lib \in [Libraries -> Slices] /\ thin \in [Libraries -> Slices]
      /\ Empty \in Slices /\ Absent \in -1 .. MaxRuns
  BY BuildScriptsAssumption DEF IInv, Types, TypeOK, Slices, Empty, Absent
<1>4. /\ lib' \in [Libraries -> Slices]
      /\ \A l \in Libraries : lib'[l] = lib[l] \/ lib'[l] = Empty
      /\ cur = "x264" => lib'["x264"] = Empty
  BY <1>1, <1>3, LibrariesDef DEF Start, RemovesPrefix
<1>5. /\ thin' \in [Libraries -> Slices]
      /\ cur \in {"x264", "openssl", "ffmpeg"} => \A a \in Archs : thin'[cur][a] = Absent
  <2> DEFINE left == [a \in Archs |-> IF a \in RemovesThin(cur) THEN Absent ELSE thin[cur][a]]
  <2>1. thin[cur] \in Slices
    BY <1>1, <1>3
  <2>2. left \in Slices
    BY <1>3, <2>1 DEF Slices
  <2>3. thin' = [thin EXCEPT ![cur] = left]
    BY DEF Start
  <2>4. cur \in {"x264", "openssl", "ffmpeg"} => \A a \in Archs : left[a] = Absent
    BY DEF RemovesThin
  <2> HIDE DEF left
  <2> QED BY <1>1, <1>3, <2>2, <2>3, <2>4
<1>6. Types'
  BY <1>1, <1>2, <1>4, <1>5 DEF IInv, Types, TypeOK, Slices, ToSet
<1>7. OneRun'
  BY <1>4, LibrariesDef DEF IInv, OneRun, Has, Empty
<1>8. Status' /\ OwnSlices' /\ Compiled' /\ SuccessIsComplete'
  BY <1>1, <1>5 DEF Status, OwnSlices, InScript, Compiled, SuccessIsComplete
<1>9. NotYet'
  <2>1. cur = "ffmpeg" => todo' = Selected
    BY <1>2 DEF Requested
  <2>2. Selected' = Selected
    BY <1>1 DEF Selected
  <2> QED BY <1>1, <1>5, <2>1, <2>2 DEF NotYet
<1>10. OldX264IsGone'
  <2>1. CASE cur = "x264"
    BY <1>1, <1>4, <2>1 DEF OldX264IsGone, Empty
  <2>2. CASE cur # "x264"
    <3>1. args.rebuild /\ "x264" \in Enabled => \A a \in Archs : lib["x264"][a] \in {Absent, run}
      BY <1>1, <2>2 DEF IInv, OldX264IsGone
    <3>2. \A a \in Archs : lib'["x264"][a] \in {lib["x264"][a], Absent}
      BY <1>4, LibrariesDef DEF Empty
    <3>3. Enabled' = Enabled
      BY <1>1 DEF Enabled
    <3> QED BY <1>1, <3>1, <3>2, <3>3 DEF OldX264IsGone
  <2> QED BY <2>1, <2>2
<1> QED BY <1>6, <1>7, <1>8, <1>9, <1>10 DEF IInv

LEMMA FetchKeeps == ASSUME IInv, Fetch PROVE IInv'
<1>1. /\ pc = "fetch" /\ result = "running"
      /\ UNCHANGED <<run, args, lib, thin>>
      /\ Enabled' = Enabled /\ Wanted' = Wanted
      /\ lib["x264"] \in [Archs -> -1 .. MaxRuns]
  BY LibrariesDef DEF Fetch, IInv, Status, Enabled, Wanted, Types, TypeOK, Slices
<1>2. x264Src' \in {"absent", "partial", "complete"} /\ patched' \in {0, 1}
  BY DEF Fetch, Patch, IInv, Types, TypeOK
<1>3. OneRun'
  BY <1>1 DEF IInv, OneRun, Has
<1>4. args.rebuild /\ "x264" \in Enabled => \A a \in Archs : lib'["x264"][a] \in {Absent, run}
  BY <1>1 DEF IInv, OldX264IsGone
<1>5. CASE pc' = "compile" /\ UNCHANGED <<cur, todo, result>>
  <2>1. Types'
    BY <1>1, <1>2, <1>5 DEF IInv, Types, TypeOK, Slices
  <2>2. Status' /\ OwnSlices' /\ NotYet' /\ SuccessIsComplete' /\ OldX264IsGone'
    BY <1>1, <1>4, <1>5 DEF IInv, Status, OwnSlices, InScript, NotYet, SuccessIsComplete,
       OldX264IsGone
  <2>3. Compiled'
    <3>1. ToSet(Selected) = Wanted
      BY SelectedIsWanted DEF IInv, Types, TypeOK
    <3>2. cur = "ffmpeg" => todo = Selected /\ \A a \in Archs : thin["ffmpeg"][a] = Absent
      BY <1>1 DEF IInv, NotYet
    <3> QED BY <1>1, <1>5, <3>1, <3>2 DEF Compiled
  <2> QED BY <1>3, <2>1, <2>2, <2>3 DEF IInv
<1>6. CASE Leave
  <2>1. Types'
    BY <1>1, <1>2, <1>6, LeaveKeepsTypes DEF IInv, Types, TypeOK
  <2> QED BY <1>1, <1>3, <1>4, <1>6, <2>1, LeaveEnds, BetweenScripts DEF IInv
<1> QED BY <1>5, <1>6 DEF Fetch

LEMMA CompilesKeeps == ASSUME IInv, Compiles PROVE IInv'
<1> DEFINE h == Head(todo)
<1>1. /\ pc = "compile" /\ todo # <<>> /\ h \in Archs /\ cur \in Libraries
      /\ UNCHANGED <<run, args, cur, pc, x264Src, patched, result>> /\ result = "running"
      /\ Enabled' = Enabled /\ Wanted' = Wanted
      /\ cur = "ffmpeg" => \A l \in Enabled : lib[l][h] # Absent
  BY DEF Compiles, CanCompile, IInv, Status, Types, TypeOK, Enabled, Wanted
<1>2. /\ todo \in Seq(Archs \union {"all"}) /\ todo' = Tail(todo)
      /\ todo' \in Seq(Archs \union {"all"})
  BY <1>1 DEF Compiles, IInv, Types
<1>3. ToSet(todo) \subseteq ToSet(todo') \union {h} /\ ToSet(todo') \subseteq ToSet(todo)
      /\ h \in ToSet(todo)
  <2>1. \A i \in DOMAIN todo : i = 1 \/ (i - 1 \in DOMAIN todo' /\ todo'[i - 1] = todo[i])
    BY <1>1, <1>2
  <2>2. \A i \in DOMAIN todo' : i + 1 \in DOMAIN todo /\ todo'[i] = todo[i + 1]
    BY <1>1, <1>2
  <2>3. 1 \in DOMAIN todo /\ h = todo[1]
    BY <1>1, <1>2
  <2> QED BY <2>1, <2>2, <2>3 DEF ToSet
<1>4. thin \in [Libraries -> Slices] /\ lib \in [Libraries -> Slices]
  BY DEF IInv, Types, TypeOK
<1>5. /\ thin' \in [Libraries -> Slices]
      /\ thin'[cur][h] = run
      /\ \A a \in Archs : a # h => thin'[cur][a] = thin[cur][a]
      /\ \A l \in Libraries : l # cur => thin'[l] = thin[l]
  <2>1. thin[cur] \in [Archs -> -1 .. MaxRuns] /\ run \in -1 .. MaxRuns
    BY <1>1, <1>4, RunIsNat, BuildScriptsAssumption DEF Slices, IInv
  <2>2. [thin[cur] EXCEPT ![h] = run] \in [Archs -> -1 .. MaxRuns]
    BY <2>1
  <2>3. thin' = [thin EXCEPT ![cur] = [thin[cur] EXCEPT ![h] = run]]
    BY DEF Compiles
  <2> HIDE DEF h
  <2> QED BY <1>1, <1>4, <2>1, <2>2, <2>3 DEF Slices
<1>6. /\ lib' \in [Libraries -> Slices]
      /\ \A l \in Libraries : lib'[l] = lib[l] \/ lib'[l] = Empty
      /\ \A l \in Libraries \ {"amr"} : lib'[l] = lib[l]
      /\ cur # "amr" => lib' = lib
  <2>1. Empty \in Slices
    BY BuildScriptsAssumption DEF Slices, Empty, Absent
  <2> QED BY <1>1, <1>4, <2>1 DEF Compiles
<1>7. Types'
  <2>1. ToSet(todo') \subseteq Archs \union {"all"}
    BY <1>3 DEF IInv, Types, TypeOK
  <2>2. Slices' = Slices
    BY DEF Slices
  <2> QED BY <1>1, <1>2, <1>5, <1>6, <2>1, <2>2 DEF IInv, Types, TypeOK
<1>8. OneRun'
  BY <1>6, LibrariesDef DEF IInv, OneRun, Has, Empty
<1>9. OwnSlices'
  BY <1>1, <1>5 DEF IInv, OwnSlices, InScript
<1>10. Status' /\ NotYet' /\ SuccessIsComplete'
  BY <1>1 DEF IInv, Status, NotYet, SuccessIsComplete
<1>11. OldX264IsGone'
  BY <1>1, <1>6, LibrariesDef DEF IInv, OldX264IsGone
<1>12. Compiled'
  <2> SUFFICES ASSUME cur = "ffmpeg" PROVE Compiled'
    BY <1>1 DEF Compiled
  <2>1. /\ ToSet(todo) \subseteq Wanted
        /\ \A a \in Archs \ Wanted : thin["ffmpeg"][a] = Absent
        /\ \A a \in Wanted \ ToSet(todo) :
               thin["ffmpeg"][a] # Absent /\ \A l \in Enabled : lib[l][a] # Absent
    BY <1>1 DEF IInv, Compiled
  <2>2. lib' = lib /\ Wanted \subseteq Archs /\ run # Absent
    BY <1>6, RunIsNat DEF IInv, Wanted
  <2>3. \A a \in Archs \ Wanted : thin'["ffmpeg"][a] = Absent
    BY <1>3, <1>5, <2>1
  <2>4. \A a \in Wanted \ ToSet(todo') :
            thin'["ffmpeg"][a] # Absent /\ \A l \in Enabled : lib[l][a] # Absent
    <3> TAKE a \in Wanted \ ToSet(todo')
    <3>1. CASE a = h
      BY <1>1, <1>5, <2>2, <3>1
    <3>2. CASE a # h
      <4>1. a \in Wanted \ ToSet(todo) /\ a \in Archs
        BY <1>3, <2>2, <3>2
      <4> HIDE DEF h
      <4> QED BY <1>5, <2>1, <3>2, <4>1
    <3> QED BY <3>1, <3>2
  <2> QED BY <1>1, <1>3, <2>1, <2>2, <2>3, <2>4 DEF Compiled
<1> QED BY <1>7, <1>8, <1>9, <1>10, <1>11, <1>12 DEF IInv

LEMMA CompileFailsKeeps == ASSUME IInv, CompileFails PROVE IInv'
<1>1. /\ pc = "compile" /\ todo # <<>> /\ result = "running"
      /\ UNCHANGED <<run, args, lib, thin, x264Src, patched>>
      /\ Enabled' = Enabled /\ Wanted' = Wanted /\ Slices' = Slices
  BY DEF CompileFails, IInv, Status, Enabled, Wanted, Slices
<1>2. OneRun'
  BY <1>1 DEF IInv, OneRun, Has
<1>3. args.rebuild /\ "x264" \in Enabled => \A a \in Archs : lib'["x264"][a] \in {Absent, run}
  BY <1>1 DEF IInv, OldX264IsGone
<1>4. CASE GoesOn(cur) /\ todo' = Tail(todo) /\ UNCHANGED <<cur, pc, result>>
  <2>1. todo' \in Seq(Archs \union {"all"}) /\ ToSet(todo') \subseteq Archs \union {"all"}
    <3>1. todo \in Seq(Archs \union {"all"})
      BY DEF IInv, Types
    <3>2. todo' \in Seq(Archs \union {"all"})
      BY <1>1, <1>4, <3>1
    <3> QED BY <3>2 DEF ToSet
  <2>2. Types'
    BY <1>1, <1>4, <2>1 DEF IInv, Types, TypeOK
  <2>3. OwnSlices' /\ Status' /\ NotYet' /\ SuccessIsComplete' /\ OldX264IsGone' /\ Compiled'
    BY <1>1, <1>4 DEF IInv, OwnSlices, InScript, Status, NotYet, SuccessIsComplete, OldX264IsGone,
       Compiled, GoesOn
  <2> QED BY <1>2, <2>2, <2>3 DEF IInv
<1>5. CASE Leave
  <2>1. Types'
    BY <1>1, <1>5, LeaveKeepsTypes DEF IInv, Types, TypeOK
  <2> QED BY <1>1, <1>2, <1>3, <1>5, <2>1, LeaveEnds, BetweenScripts DEF IInv
<1> QED BY <1>4, <1>5 DEF CompileFails

LEMMA LipoFailsKeeps == ASSUME IInv, LipoFails PROVE IInv'
<1>1. /\ pc = "compile" /\ result = "running" /\ Leave /\ cur \in Libraries
      /\ UNCHANGED <<run, args, lib, x264Src, patched>>
  BY DEF LipoFails, IInv, Status, Types, TypeOK
<1>2. thin' \in [Libraries -> Slices]
  <2>1. Empty \in Slices /\ thin \in [Libraries -> Slices]
    BY BuildScriptsAssumption DEF Slices, Empty, Absent, IInv, Types, TypeOK
  <2> QED BY <2>1 DEF LipoFails
<1>3. Types'
  BY <1>1, <1>2, LeaveKeepsTypes DEF IInv, Types, TypeOK
<1>4. OneRun'
  BY <1>1 DEF IInv, OneRun, Has
<1>5. args.rebuild /\ "x264" \in Enabled => \A a \in Archs : lib'["x264"][a] \in {Absent, run}
  BY <1>1 DEF IInv, OldX264IsGone
<1> QED BY <1>1, <1>3, <1>4, <1>5, LeaveEnds, BetweenScripts DEF IInv

LEMMA LipoKeeps == ASSUME IInv, Lipo PROVE IInv'
<1> DEFINE fat == [a \in Archs |-> IF cur = "amr" => args.arch = a THEN thin[cur][a] ELSE Absent]
<1>1. /\ pc = "compile" /\ todo = <<>> /\ result = "running" /\ cur \in Libraries
      /\ UNCHANGED <<run, args, x264Src, patched>>
      /\ Enabled' = Enabled /\ Wanted' = Wanted /\ Wanted \subseteq Archs
      /\ lib \in [Libraries -> Slices] /\ thin \in [Libraries -> Slices]
  BY DEF Lipo, IInv, Status, Types, TypeOK, Enabled, Wanted
<1>2. Empty \in Slices /\ fat \in Slices
  <2>1. thin[cur] \in Slices
    BY <1>1
  <2> QED BY <2>1, BuildScriptsAssumption DEF Slices, Empty, Absent
<1>3. lib' = [lib EXCEPT ![cur] = fat] /\ thin' = [thin EXCEPT ![cur] = Empty]
  BY DEF Lipo
<1>4. /\ lib' \in [Libraries -> Slices] /\ thin' \in [Libraries -> Slices]
      /\ lib'[cur] = fat /\ \A l \in Libraries : l # cur => lib'[l] = lib[l]
  <2> HIDE DEF fat
  <2> QED BY <1>1, <1>2, <1>3
<1>5. OneRun'
  <2>1. cur \in {"x264", "openssl"} => \A a \in Archs : fat[a] \in {Absent, run}
    BY <1>1 DEF IInv, OwnSlices, InScript
  <2>2. cur = "amr" => \A a \in Archs : fat[a] # Absent => a = args.arch
    OBVIOUS
  <2>3. cur \in {"x264", "openssl", "amr"} =>
            \A a, b \in Archs : fat[a] # Absent /\ fat[b] # Absent => fat[a] = fat[b]
    BY <2>1, <2>2
  <2> HIDE DEF fat
  <2> SUFFICES ASSUME NEW l \in {"x264", "amr", "openssl"}
               PROVE  \A a, b \in Has(lib[l])' : lib'[l][a] = lib'[l][b]
    BY DEF OneRun
  <2>4. l \in Libraries
    BY LibrariesDef
  <2>5. CASE l = cur
    BY <1>4, <2>3, <2>5 DEF Has
  <2>6. CASE l # cur
    BY <1>4, <2>4, <2>6 DEF IInv, OneRun, Has
  <2> QED BY <2>5, <2>6
<1>6. CASE cur = "ffmpeg"
  <2>1. pc' = "idle" /\ result' = "ok" /\ UNCHANGED <<cur, todo>>
    BY <1>6 DEF Lipo
  <2>2. Types'
    BY <1>1, <1>4, <2>1 DEF IInv, Types, TypeOK, Slices
  <2>3. Status' /\ OwnSlices' /\ Compiled' /\ NotYet'
    BY <2>1 DEF Status, OwnSlices, InScript, Compiled, NotYet
  <2>4. \A l \in Libraries \ {"ffmpeg"} : lib'[l] = lib[l]
    BY <1>4, <1>6
  <2>5. OldX264IsGone'
    BY <1>1, <1>6, <2>1, <2>4, LibrariesDef DEF IInv, OldX264IsGone
  <2>6. fat = [a \in Archs |-> IF a \in Wanted THEN run ELSE Absent]
    <3>1. ToSet(todo) = {}
      BY <1>1 DEF ToSet
    <3>2. \A a \in Archs : a \in Wanted => thin["ffmpeg"][a] = run
      BY <1>1, <1>6, <3>1 DEF IInv, Compiled, OwnSlices, InScript
    <3>3. \A a \in Archs : a \notin Wanted => thin["ffmpeg"][a] = Absent
      BY <1>1, <1>6, <3>1 DEF IInv, Compiled
    <3> QED BY <1>6, <3>2, <3>3
  <2>7. \A l \in Enabled : l \in Libraries \ {"ffmpeg"} /\ Wanted \subseteq Has(lib[l])
    <3>1. ToSet(todo) = {}
      BY <1>1 DEF ToSet
    <3> QED BY <1>1, <1>6, <3>1 DEF IInv, Compiled, Enabled, Has
  <2>8. \A l \in Enabled \ {"lame"} : l \in {"x264", "amr", "openssl"}
    BY <2>7, LibrariesDef
  <2>9. SuccessIsComplete'
    <3>1. lib'["ffmpeg"] = [a \in Archs |-> IF a \in Wanted' THEN run' ELSE Absent]
      BY <1>1, <1>4, <1>6, <2>6
    <3>2. \A l \in Enabled' : Wanted' \subseteq Has(lib[l])'
      BY <1>1, <2>4, <2>7 DEF Has
    <3>3. \A l \in Enabled' \ {"lame"} : \A a, b \in Has(lib[l])' : lib'[l][a] = lib'[l][b]
      BY <1>1, <1>5, <2>8 DEF OneRun
    <3> QED BY <3>1, <3>2, <3>3 DEF SuccessIsComplete
  <2> QED BY <1>5, <2>2, <2>3, <2>5, <2>9 DEF IInv
<1>7. CASE cur # "ffmpeg"
  <2>1. Leave
    BY <1>7 DEF Lipo
  <2>2. Types'
    BY <1>1, <1>4, <2>1, LeaveKeepsTypes DEF IInv, Types, TypeOK
  <2>3. args.rebuild /\ "x264" \in Enabled => \A a \in Archs : lib'["x264"][a] \in {Absent, run}
    <3>1. CASE cur = "x264"
      <4>1. \A a \in Archs : fat[a] \in {Absent, run}
        BY <1>1, <3>1 DEF IInv, OwnSlices, InScript
      <4> HIDE DEF fat
      <4> QED BY <1>4, <3>1, <4>1
    <3>2. CASE cur # "x264"
      BY <1>1, <1>4, <3>2, LibrariesDef DEF IInv, OldX264IsGone
    <3> QED BY <3>1, <3>2
  <2> QED BY <1>1, <1>5, <2>1, <2>2, <2>3, LeaveEnds, BetweenScripts DEF IInv
<1> QED BY <1>6, <1>7

-----------------------------------------------------------------------------
(* The theorems                                                             *)

(* IInv holds initially and is preserved by every step of the scripts.      *)
THEOREM Inductive == Spec => []IInv
<1>1. IInv /\ [Next]_vars => IInv'
  <2> SUFFICES ASSUME IInv, [Next]_vars PROVE IInv'
    OBVIOUS
  <2>1. CASE UNCHANGED vars
    BY <2>1 DEF vars, IInv, Types, TypeOK, Slices, Status, OwnSlices, InScript, OneRun, Has, Compiled,
       NotYet, OldX264IsGone, SuccessIsComplete, Enabled, Wanted, Selected
  <2>2. CASE \E a \in Invocations : Invoke(a)
    BY <2>2, InvokeKeeps
  <2>3. CASE Script
    BY <2>3, StartKeeps, FetchKeeps, CompilesKeeps, CompileFailsKeeps, LipoKeeps, LipoFailsKeeps
       DEF Script
  <2>4. CASE Interrupt
    BY <2>4, InterruptKeeps
  <2> QED BY <2>1, <2>2, <2>3, <2>4 DEF Next
<1> QED BY <1>1, InitEstablishes, PTL DEF Spec

(* The fields have their types; configure is patched at most once.          *)
THEOREM TypeCorrect == Spec => []TypeOK
<1>1. IInv => TypeOK
  BY DEF IInv, Types
<1> QED BY <1>1, Inductive, PTL

(* When build-ffmpeg-iOS.sh reports success, what it was asked for is       *)
(* there, compiled by this run, whatever earlier runs have left.            *)
THEOREM SuccessIsWhole == Spec => []SuccessIsComplete
<1>1. IInv => SuccessIsComplete
  BY DEF IInv
<1> QED BY <1>1, Inductive, PTL

(* After a success the x264 that was linked in is that of the run, if the   *)
(* user asked for a rebuild: that its script fails is not seen by the       *)
(* driver, but ends in ffmpeg's configure.                                  *)
THEOREM X264IsNew == Spec => []X264IsRebuilt
<1>1. IInv => X264IsRebuilt
  <2> SUFFICES ASSUME IInv, result = "ok", args.rebuild, "x264" \in Enabled
               PROVE  \A a \in Wanted : lib["x264"][a] = run
    BY DEF X264IsRebuilt
  <2>1. pc = "idle" /\ Wanted \subseteq Archs /\ Wanted \subseteq Has(lib["x264"])
    BY DEF IInv, Status, SuccessIsComplete, Wanted
  <2>2. \A a \in Archs : lib["x264"][a] \in {Absent, run}
    BY <2>1 DEF IInv, OldX264IsGone
  <2> QED BY <2>1, <2>2 DEF Has
<1> QED BY <1>1, Inductive, PTL

===============================================================================
