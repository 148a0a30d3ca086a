----------------------------- MODULE MC_Submission -----------------------------
(***************************************************************************)
(* Submission for TLC: a handful of names that the tables tell apart, and  *)
(* families of requests.  Shapes and Wires vary everything but the files,  *)
(* Sizes what they hold, Pairs and Triples where they are.                 *)
(***************************************************************************)
EXTENDS Submission, TLC

\* Names in byte order; none is the beginning of another.
Names == <<"", "..", "Main.java", "build.rs", "conftest.py", "go.mod", "lib", "main.c",
           "main.go", "main.py", "main.rs", "setup.py", "util.h", "util.py", "vendor", "x.go">>

ExtOf == [n \in {"Main.java"} |-> ".java"]
         @@ [n \in {"build.rs", "main.rs"} |-> ".rs"]
         @@ [n \in {"conftest.py", "main.py", "setup.py", "util.py"} |-> ".py"]
         @@ [n \in {"go.mod"} |-> ".mod"]
         @@ [n \in {"main.go", "x.go"} |-> ".go"]
         @@ [n \in {"main.c"} |-> ".c"]
         @@ [n \in {"util.h"} |-> ".h"]
         @@ [n \in {"", "..", "lib", "vendor", "Main", "main"} |-> ""]

MCExt(c) == ExtOf[c]
MCGrammatical(c) == c \notin {"", ".."}
MCClassName(c) == c \in {"Main", "Main.java", "lib"}
MCBytes(p) == 2 * Len(p)

Rank(c) == CHOOSE i \in DOMAIN Names : Names[i] = c
MCBefore(p, q) ==
  \E n \in 0 .. Len(p) :
    /\ n < Len(q) /\ SubSeq(p, 1, n) = SubSeq(q, 1, n)
    /\ n = Len(p) \/ Rank(p[n + 1]) < Rank(q[n + 1])

MCCaps == [body |-> 12, source |-> 3, stdin |-> 2, batch |-> 2, batchStdin |-> 3,
           files |-> 3, fileBytes |-> 2, filesBytes |-> 3, pathBytes |-> 6, pathDepth |-> 3]

MCPaths ==
  {<< >>, <<"main.py">>, <<"lib", "util.py">>, <<"main.py", "util.py">>, <<"setup.py">>,
   <<"conftest.py">>, <<"lib", "..", "main.py">>, <<"lib", "lib", "lib", "util.py">>,
   <<"main.go">>, <<"go.mod">>, <<"go.mod", "x.go">>, <<"lib", "vendor", "x.go">>,
   <<"main.c">>, <<"util.h">>, <<"Main.java">>, <<"main.rs">>, <<"build.rs">>}

Entries == {<< >>, <<"lib", "util.py">>, <<"lib", "..", "main.py">>}
Files(paths, sizes) == [path : paths, size : sizes]
One == {<<[path |-> <<"main.py">>, size |-> 1]>>}

Requests_(l, m, s, f, e, i, b, w, ok) ==
  [language : l, mode : m, source : s, files : f, entrypoint : e, stdin : i, stdins : b,
   wire : w, wellEncoded : ok]

Shapes ==
  Requests_({"", "cobol", "python", "sql", "odin"}, {"", "run", "test", "trace", "bogus"},
            {0, 2, 4}, {<< >>} \cup One, {<< >>}, {0, 1, 3},
            {<< >>, <<1>>, <<2, 2>>, <<3>>, <<1, 1, 1>>}, {1}, {TRUE})

Wires == Requests_({"python"}, {"run"}, {2}, {<< >>}, {<< >>}, {0}, {<< >>, <<1>>}, {1, 13}, BOOLEAN)

Sizes ==
  Requests_({"python"}, {"run"}, {0},
            UNION {[1 .. n -> Files({<<"main.py">>, <<"lib", "util.py">>}, 1 .. 3)] : n \in 1 .. 2},
            {<< >>}, {0}, {<< >>}, {1}, {TRUE})

Pairs ==
  Requests_({"python", "go", "c", "java", "rust"}, {"run", "test", "trace"}, {0},
            UNION {[1 .. n -> Files(MCPaths, {1})] : n \in 1 .. 2},
            Entries, {0}, {<< >>}, {1}, {TRUE})

Triples ==
  Requests_({"python", "go"}, {"run", "test"}, {0},
            [1 .. 3 -> Files(MCPaths, {1})],
            {<< >>}, {0}, {<< >>}, {1}, {TRUE})

MCRequests == Shapes \cup Wires \cup Sizes \cup Pairs \cup Triples
================================================================================
