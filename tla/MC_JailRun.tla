------------------------------- MODULE MC_JailRun -------------------------------
(***************************************************************************)
(* JailRun for TLC: the jobs the languages of the registry give rise to.   *)
(***************************************************************************)
EXTENDS JailRun

Plain == [runtime |-> "interpreted", phase |-> "run", isolation |-> "nsjail",
          cgroup |-> "auto", encoding |-> "utf8", memErrSubstr |-> FALSE,
          reportFile |-> FALSE, compileFailExit |-> FALSE, buildFailMarker |-> FALSE]

\* python, lua: the language has an out-of-memory substring
Script    == [Plain EXCEPT !.memErrSubstr = TRUE]
Binary    == [Plain EXCEPT !.runtime = "compiled", !.cgroup = "require"]
Compiler  == [Binary EXCEPT !.phase = "compile"]
Pytest    == [Script EXCEPT !.phase = "test", !.reportFile = TRUE]
NodeTest  == [Plain EXCEPT !.phase = "test"]
GoTest    == [Binary EXCEPT !.phase = "test", !.buildFailMarker = TRUE]
JUnit     == [Binary EXCEPT !.phase = "test", !.compileFailExit = TRUE, !.reportFile = TRUE]
PyTrace   == [Script EXCEPT !.phase = "trace", !.reportFile = TRUE]
OdinTrace == [Binary EXCEPT !.phase = "trace", !.reportFile = TRUE]

Base64(j) == [j EXCEPT !.encoding = "base64"]
Netns(j)  == [j EXCEPT !.isolation = "netns"]
Off(j)    == [j EXCEPT !.cgroup = "off"]

\* Every shape of job under nsjail, and two whose descendants may outlive
\* their leader.
AllJobs  == {Script, Binary, Compiler, Pytest, NodeTest, GoTest, JUnit, PyTrace, OdinTrace,
             Netns(Script), Netns(GoTest)}
LiveJobs == {Off(Binary), Pytest, Compiler}

OnlyBase64 == {Base64(Off(Script))}
OnlyNetns  == {Netns(Plain)}
================================================================================
