---------------------------- MODULE MCBuildScripts ----------------------------
(* Command lines of build-ffmpeg-iOS.sh, with the defaults filled in *)
EXTENDS BuildScripts

Command(arch, third, rebuild) == [arch |-> arch, third |-> third, rebuild |-> rebuild]

\* The one without arguments, one platform with all libraries and with one,
\* without rebuilding
MCInvocations == {Command("all",    "all",  TRUE),  Command("arm64", "all",  TRUE),
                  Command("x86_64", "lame", TRUE),  Command("arm64", "lame", FALSE),
                  Command("all",    "x264", TRUE)}

\* ./build-ffmpeg-iOS.sh
DefaultInvocation == {Command("all", "all", TRUE)}
=============================================================================
