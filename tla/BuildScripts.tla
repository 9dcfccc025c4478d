----------------------------- MODULE BuildScripts -----------------------------
(***************************************************************************)
(* 4.2/build-ffmpeg-iOS.sh and the scripts of the third-party libraries it *)
(* calls.  All state is in the file system and outlives a run, so that the *)
(* next run, perhaps after a failure or Ctrl-C, starts from what the last  *)
(* one left.  A library, fat or in a script's build directory, is for each *)
(* architecture the run that has built this slice of it.                   *)
(*                                                                         *)
(* Compilers, make, tar and lipo are external: they fail on an impossible  *)
(* input, and with Faults they may fail on any.  lipo refuses two files of *)
(* one architecture.  The tar files of all libraries, and the trees of all *)
(* but x264, come with the repository; no script removes a tar file, so    *)
(* that nothing is downloaded.                                             *)
(***************************************************************************)
EXTENDS Integers, SequencesExt

CONSTANTS MaxRuns,      \* bound on the runs of build-ffmpeg-iOS.sh
          Invocations,  \* the command lines: records of arch, third, rebuild
                        \* ("opencoreamr" is "amr" here)
          Faults        \* may a tool fail, or the user interrupt?

ASSUME BuildScriptsAssumption ==
    /\ MaxRuns \in Nat /\ Faults \in BOOLEAN
    /\ Invocations \subseteq [arch : {"all", "arm64", "x86_64"},
                             third : {"all", "none", "x264", "amr", "openssl", "lame"},
                             rebuild : BOOLEAN]

VARIABLES run,          \* the number of the run, 0: what the repository holds
          args,         \* its command line, with the defaults
          cur,          \* the library whose script runs
          pc,           \* where that script is
          todo,         \* the architectures it has still to compile
          lib,          \* $PREFIX/lib of each
          thin,         \* its build directory
          x264Src,      \* the tree of x264: "absent", "partial", "complete"
          patched,      \* how often ffmpeg's configure has been patched
          result        \* how the run ended, or "running"

vars == <<run, args, cur, pc, todo, lib, thin, x264Src, patched, result>>

ARCHS     == <<"arm64", "x86_64">>
Archs     == ToSet(ARCHS)
Order     == <<"x264", "amr", "openssl", "lame", "ffmpeg">>
Libraries == ToSet(Order)

Absent == -1
Empty  == [a \in Archs |-> Absent]
Has(slices) == {a \in Archs : slices[a] # Absent}

\* The libraries that the run compiles into ffmpeg, what it builds before
\* that, and the architectures that a loop over ARCHS selects
Enabled    == {l \in Libraries \ {"ffmpeg"} : args.third \in {"all", l}}
Builds(l)  == l = "ffmpeg" \/ (l \in Enabled /\ args.rebuild)
Wanted     == {a \in Archs : args.arch \in {"all", a}}
Selected   == IF args.arch = "all" THEN ARCHS ELSE <<args.arch>>

\* build-lame-iOS.sh and build-opencore-amr-iOS.sh take $1 as it stands.  (For
\* lame, "$*" has the deployment target too, which never compiles.)
Requested(l) == IF l \in {"lame", "amr"} THEN <<args.arch>> ELSE Selected

Init == /\ run = 0 /\ args \in Invocations
        /\ cur = "x264" /\ pc = "idle" /\ todo = <<>>
        /\ lib = [l \in Libraries |-> [a \in Archs |-> 0]]
        /\ thin = [l \in Libraries |-> Empty]
        /\ x264Src = "absent"
        /\ patched \in {0, 1}       \* a fresh tree, or that of the repository
        /\ result = "none"

-----------------------------------------------------------------------------
\* The driver goes on with the next script, whatever this one has returned.
Place(l) == CHOOSE i \in DOMAIN Order : Order[i] = l
After(l) == Order[Min({i \in DOMAIN Order : i > Place(l) /\ Builds(Order[i])})]

Leave == IF cur = "ffmpeg"
         THEN pc' = "idle" /\ result' = "failed" /\ todo' = <<>> /\ UNCHANGED cur
         ELSE pc' = "start" /\ cur' = After(cur) /\ todo' = <<>> /\ UNCHANGED result

Invoke(a) ==
    /\ pc = "idle" /\ run < MaxRuns
    /\ run' = run + 1 /\ args' = a /\ result' = "running" /\ pc' = "start"
    /\ cur' = IF a.rebuild /\ a.third # "none"
              THEN (IF a.third = "all" THEN "x264" ELSE a.third) ELSE "ffmpeg"
    /\ UNCHANGED <<todo, lib, thin, x264Src, patched>>

\* Mutant: the build directories of earlier runs are kept.
KeepsThin(l) == {}
\* What each script removes when it starts
RemovesThin(l) == IF l \in {"x264", "openssl", "ffmpeg"} THEN Archs ELSE {}
\* Mutant: the library that is there stays until there is another.
KeepsPrefix(l) == FALSE
RemovesPrefix(l) == l \in {"x264", "ffmpeg"}

Start ==
    /\ pc = "start"
    /\ todo' = Requested(cur)
    /\ lib'  = [lib EXCEPT ![cur] = IF RemovesPrefix(cur) THEN Empty ELSE @]
    /\ thin' = [thin EXCEPT ![cur] =
                    [a \in Archs |-> IF a \in RemovesThin(cur) THEN Absent ELSE @[a]]]
    /\ pc' = "fetch"
    /\ UNCHANGED <<run, args, cur, x264Src, patched, result>>

\* Mutant: no dry run
PatchAgain == patched + 1
\* build-ffmpeg-patch.sh: the dry run fails on a tree that is patched.
Patch == IF patched = 0 THEN 1 ELSE patched

\* A tree that is not there is extracted.  If tar fails the script ends, and
\* leaves x264 a directory that the next run takes for the tree; openssl's
\* is removed by the next run, and amr's is extracted again by each.
\* ffmpeg's configure is patched.
Fetch ==
    /\ pc = "fetch"
    /\ \/ /\ x264Src' = IF cur = "x264" /\ x264Src = "absent" THEN "complete" ELSE x264Src
          /\ patched' = IF cur = "ffmpeg" THEN Patch ELSE patched
          /\ pc' = "compile" /\ UNCHANGED <<cur, todo, result>>
       \/ /\ Faults
          /\ cur \in {"openssl", "amr"} \/ (cur = "x264" /\ x264Src = "absent")
          /\ x264Src' = IF cur = "x264" THEN "partial" ELSE x264Src
          /\ Leave /\ UNCHANGED patched
    /\ UNCHANGED <<run, args, lib, thin>>

\* configure and make can succeed: with a whole tree, for an architecture
\* that there is, and with all that is to be linked in.
CanCompile(a) ==
    /\ a \in Archs
    /\ cur = "x264" => x264Src = "complete"
    /\ cur = "ffmpeg" => /\ \A l \in Enabled : lib[l][a] # Absent
                         /\ "openssl" \in Enabled => patched = 1

Compiles ==
    /\ pc = "compile" /\ todo # <<>> /\ CanCompile(Head(todo))
    /\ thin' = [thin EXCEPT ![cur][Head(todo)] = run]
    \* make install goes to $DEST itself, and mv takes the file from there
    /\ lib' = IF cur = "amr" THEN [lib EXCEPT ![cur] = Empty] ELSE lib
    /\ todo' = Tail(todo)
    /\ UNCHANGED <<run, args, cur, pc, x264Src, patched, result>>

\* After an error, which is not tested for or ends the script
GoesOn(l) == l \in {"openssl", "lame"}

CompileFails ==
    /\ pc = "compile" /\ todo # <<>>
    /\ Faults \/ ~CanCompile(Head(todo))
    /\ IF GoesOn(cur)
       THEN todo' = Tail(todo) /\ UNCHANGED <<cur, pc, result>>
       ELSE Leave
    /\ UNCHANGED <<run, args, lib, thin, x264Src, patched>>

\* The loop over the libraries is in the build directory of the first
\* architecture: "cd $SRC_THIN/$1/lib", "for LIB in *.a".
First(l) == IF l = "lame" THEN args.arch ELSE ARCHS[1]

\* lipo finds one file for each architecture.  Without the directory *.a is a
\* pattern for find: of the one library of lame it finds every slice, and the
\* output is the library that the pattern matches, if there is one; that of
\* x264 goes to a file named *.a; of the several of ffmpeg it finds files of
\* one architecture.  In openssl's directory the installed library is found
\* beside the built one, if make install_sw has worked.
LipoWorks ==
    CASE cur \in {"x264", "ffmpeg"} -> First(cur) \in Has(thin[cur])
      [] cur = "amr"     -> TRUE
      [] cur = "openssl" -> Faults /\ Has(thin[cur]) # {}
                            /\ (Wanted = Archs => First(cur) \in Has(thin[cur]))
      [] cur = "lame"    -> Has(thin[cur]) # {}
                            /\ (First(cur) \in Has(thin[cur]) \/ Has(lib[cur]) # {})

Lipo ==
    /\ pc = "compile" /\ todo = <<>> /\ LipoWorks
    \* amr's script names the files
    /\ lib' = [lib EXCEPT ![cur] =
                  [a \in Archs |-> IF cur = "amr" => args.arch = a
                                   THEN thin[cur][a] ELSE Absent]]
    /\ thin' = [thin EXCEPT ![cur] = Empty]
    /\ IF cur = "ffmpeg"
       THEN pc' = "idle" /\ result' = "ok" /\ UNCHANGED <<cur, todo>>
       ELSE Leave
    /\ UNCHANGED <<run, args, x264Src, patched>>

\* Only ffmpeg's script and amr's look at the result.  The others remove the
\* build directory and report success.
LipoFails ==
    /\ pc = "compile" /\ todo = <<>> /\ (Faults \/ ~LipoWorks)
    /\ thin' = IF cur \in {"ffmpeg", "amr"} THEN thin ELSE [thin EXCEPT ![cur] = Empty]
    /\ Leave
    /\ UNCHANGED <<run, args, lib, x264Src, patched>>

Interrupt ==
    /\ Faults /\ pc # "idle"
    /\ pc' = "idle" /\ result' = "interrupted" /\ todo' = <<>>
    /\ x264Src' = IF pc = "fetch" /\ cur = "x264" /\ x264Src = "absent"
                  THEN "partial" ELSE x264Src
    /\ UNCHANGED <<run, args, cur, lib, thin, patched>>

Script == Start \/ Fetch \/ Compiles \/ CompileFails \/ Lipo \/ LipoFails
Next == (\E a \in Invocations : Invoke(a)) \/ Script \/ Interrupt

Spec == Init /\ [][Next]_vars

-----------------------------------------------------------------------------
(* Properties *)

Slices == [Archs -> -1 .. MaxRuns]

\* The fields have their types.  The configure of ffmpeg is not patched twice,
\* however often the driver runs on one tree.
TypeOK ==
    /\ run \in 0 .. MaxRuns /\ args \in Invocations
    /\ cur \in Libraries /\ pc \in {"idle", "start", "fetch", "compile"}
    /\ ToSet(todo) \subseteq Archs \union {"all"}
    /\ lib \in [Libraries -> Slices] /\ thin \in [Libraries -> Slices]
    /\ x264Src \in {"absent", "partial", "complete"} /\ patched \in {0, 1}
    /\ result \in {"none", "running", "ok", "failed", "interrupted"}

\* When build-ffmpeg-iOS.sh reports success, ffmpeg-iOS has the architectures
\* asked for and no other, all compiled by this run and not left by one that
\* failed or was interrupted, each with every library asked for; and none of
\* those but lame is made of slices of two runs.
SuccessIsComplete ==
    result = "ok" =>
        /\ lib["ffmpeg"] = [a \in Archs |-> IF a \in Wanted THEN run ELSE Absent]
        /\ \A l \in Enabled : Wanted \subseteq Has(lib[l])
        /\ \A l \in Enabled \ {"lame"} : \A a, b \in Has(lib[l]) : lib[l][a] = lib[l][b]

\* x264, where a rebuild is asked for, is the one that this run has compiled:
\* its script removes the old one first, so that its failures, which the
\* driver does not see, end in ffmpeg's configure.
X264IsRebuilt ==
    result = "ok" /\ args.rebuild /\ "x264" \in Enabled =>
        \A a \in Wanted : lib["x264"][a] = run

\* The fourth argument, "whether to rebuild the third-party libraries" (README
\* and the head of build-ffmpeg-iOS.sh): when the driver reports success, all
\* that it has linked in was compiled by this run.
ThirdPartyIsRebuilt ==
    result = "ok" /\ args.rebuild =>
        \A l \in Enabled : \A a \in Wanted : lib[l][a] = run
=============================================================================
