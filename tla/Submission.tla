------------------------------ MODULE Submission ------------------------------
(***************************************************************************)
(* A submission on its way from the wire to the workdir: decode's caps,    *)
(* the dispatch and the shape rules of Service.Run and RunBatch, the file  *)
(* policy of the language and mode, and MaterializeFiles writing the tree  *)
(* the jail will see.  One request is one goroutine; what varies is the    *)
(* request, and a host that may fail at every write.                       *)
(*                                                                         *)
(* A path is the sequence of its components.  Names and sizes are data:    *)
(* what the regular expressions and package path say of them is a          *)
(* parameter.                                                              *)
(***************************************************************************)
EXTENDS Integers, Sequences, FiniteSets

CONSTANTS Requests,          \* the requests that may arrive
          Paths,             \* the paths they speak of
          Grammatical(_),    \* componentGrammar matches the component
          Ext(_),            \* its path.Ext, lower-cased
          ClassName(_),      \* javaClassRe matches it
          Bytes(_),          \* length of a path
          Before(_, _),      \* byte order of paths, as sort.Slice uses it
          Caps               \* the configured caps

File == [path : Paths, size : Nat]

\* RunRequest: sizes stand for contents.  wire is what the body takes as JSON,
\* wellEncoded whether encoding and streams are what they claim.
Request == [language : STRING, mode : STRING, source : Nat, files : Seq(File),
            entrypoint : Paths, stdin : Nat, stdins : Seq(Nat),
            wire : Nat, wellEncoded : BOOLEAN]

CapNames == {"body", "source", "stdin", "batch", "batchStdin",
             "files", "fileBytes", "filesBytes", "pathBytes", "pathDepth"}

\* Path p names a directory that q lies beneath.
Above(p, q) == Len(p) < Len(q) /\ SubSeq(q, 1, Len(p)) = p

\* Byte order is a strict total order and puts a path before the paths beneath
\* it.
ASSUME SubmissionAssumption ==
  /\ Requests \subseteq Request
  /\ Paths \subseteq Seq(STRING)
  /\ Caps \in [CapNames -> Nat]
  /\ \A p, q \in Paths : /\ p # q => Before(p, q) \/ Before(q, p)
                         /\ ~(Before(p, q) /\ Before(q, p))
                         /\ Above(p, q) => Before(p, q)
  /\ \A p, q, r \in Paths : Before(p, q) /\ Before(q, r) => Before(p, r)

\* 0 is no cap.
Within(n, cap) == cap = 0 \/ n <= cap

-------------------------------------------------------------------------------
(***************************************************************************)
(* The registries.                                                         *)
(***************************************************************************)
Policy(allowed, units, names, comps, entry) ==
  [exts |-> allowed, compileExts |-> units, forbiddenNames |-> names,
   forbiddenComponents |-> comps, defaultEntry |-> entry, entryIsClass |-> FALSE]

NodeManifests == {"package.json", "package-lock.json", "yarn.lock", "pnpm-lock.yaml"}
GoManifests == {"go.mod", "go.sum", "go.work", "go.work.sum"}

filePolicies ==
  [python |-> Policy({".py"}, {}, {"setup.py", "pyproject.toml", "conftest.py"},
                     {"__pycache__"}, <<"main.py">>),
   javascript |-> Policy({".js", ".mjs", ".cjs", ".json"}, {}, NodeManifests,
                         {"node_modules"}, <<"main.js">>),
   lua |-> Policy({".lua"}, {}, {}, {}, <<"main.lua">>),
   php |-> Policy({".php"}, {}, {"composer.json", "composer.lock"}, {"vendor"}, <<"main.php">>),
   c |-> Policy({".c", ".h"}, {".c"}, {}, {}, <<"main.c">>),
   cpp |-> Policy({".cpp", ".cc", ".cxx", ".hpp", ".hh", ".h"}, {".cpp", ".cc", ".cxx"},
                  {}, {}, <<"main.cpp">>),
   go |-> Policy({".go"}, {".go"}, GoManifests, {"vendor"}, <<"main.go">>),
   java |-> [Policy({".java"}, {".java"}, {}, {}, <<"Main">>) EXCEPT !.entryIsClass = TRUE],
   rust |-> Policy({".rs"}, {".rs"},
                   {"Cargo.toml", "Cargo.lock", "build.rs", "rust-toolchain.toml"},
                   {"target"}, <<"main.rs">>)]

\* A test tree has no entrypoint, and pytest's conftest.py is admitted.
testFilePolicies ==
  [python |-> Policy({".py"}, {}, {"setup.py", "pyproject.toml"}, {"__pycache__"}, << >>),
   go |-> Policy({".go"}, {".go"}, GoManifests, {"vendor"}, << >>),
   javascript |-> Policy({".js", ".mjs", ".cjs", ".json"}, {}, NodeManifests,
                         {"node_modules"}, << >>),
   java |-> Policy({".java"}, {".java"}, {}, {}, << >>)]

interpretedLanguages == {"python", "javascript", "lua", "php", "sql"}
compiledLanguages == {"c", "cpp", "go", "java", "rust", "odin", "typescript", "csharp"}
runtimes == interpretedLanguages \cup compiledLanguages

supportsTestMode == {"python", "javascript", "go", "java"}
supportsTraceMode == {"python", "odin"}

\* Languages with a multi-file recipe: multiFileRunArgs, or multiFile as wired
\* by init.
hasMultiFileRecipe == {"python", "javascript", "lua", "php", "c", "cpp", "go", "java"}

Registry(mode) == IF mode = "test" THEN testFilePolicies ELSE filePolicies

-------------------------------------------------------------------------------
(***************************************************************************)
(* The file policy.                                                        *)
(***************************************************************************)
NoCaps == [c \in CapNames |-> 0]

\* path.Clean leaves a relative path alone exactly when it has none of these.
Unclean == {"", ".", ".."}
Base(p) == p[Len(p)]

\* Slip: a forbidden directory is looked for at the top only.
validatePath_top(p, pol, caps) ==
  /\ p # << >> /\ Within(Bytes(p), caps.pathBytes) /\ Within(Len(p), caps.pathDepth)
  /\ \A i \in DOMAIN p : p[i] \notin Unclean /\ Grammatical(p[i])
  /\ p[1] \notin pol.forbiddenComponents
  /\ Base(p) \notin pol.forbiddenNames
  /\ Ext(Base(p)) \in pol.exts

validatePath(p, pol, caps) ==
  /\ p # << >> /\ Within(Bytes(p), caps.pathBytes) /\ Within(Len(p), caps.pathDepth)
  /\ \A i \in DOMAIN p : p[i] \notin Unclean /\ Grammatical(p[i])
  /\ \A i \in DOMAIN p : p[i] \notin pol.forbiddenComponents
  /\ Base(p) \notin pol.forbiddenNames
  /\ Ext(Base(p)) \in pol.exts

\* The bytes of all the files, numbered file by file: as many as the running
\* total of validatePaths' loop comes to.
Total(files) == Cardinality(UNION {{i} \X (1 .. files[i].size) : i \in DOMAIN files})

validatePaths(files, pol, caps) ==
  /\ files # << >> /\ Within(Len(files), caps.files)
  /\ \A i \in DOMAIN files : /\ Within(files[i].size, caps.fileBytes)
                             /\ validatePath(files[i].path, pol, caps)
  /\ Within(Total(files), caps.filesBytes)
  /\ \A i, j \in DOMAIN files : files[i].path = files[j].path => i = j
  /\ pol.compileExts = {} \/ \E i \in DOMAIN files : Ext(Base(files[i].path)) \in pol.compileExts

\* Slip: the files as the request lists them.
Sorted_not(files) == files

\* The copy of the files in path order; the paths are distinct.
Sorted(files) ==
  CHOOSE s \in [DOMAIN files -> {files[i] : i \in DOMAIN files}] :
    \A i, j \in DOMAIN files : i < j => Before(s[i].path, s[j].path)

\* resolveEntrypoint: what the entrypoint is, and whether it will do.
Entry(q, pol) == IF q.entrypoint = << >> THEN pol.defaultEntry ELSE q.entrypoint

\* Slip: a default need not be there.
resolveEntrypoint_default(q, pol) ==
  IF pol.entryIsClass THEN Len(Entry(q, pol)) = 1 /\ ClassName(Entry(q, pol)[1])
  ELSE /\ validatePath(Entry(q, pol), pol, Caps)
       /\ q.entrypoint = << >> \/ \E i \in DOMAIN q.files : q.files[i].path = Entry(q, pol)

resolveEntrypoint(q, pol) ==
  IF pol.entryIsClass THEN Len(Entry(q, pol)) = 1 /\ ClassName(Entry(q, pol)[1])
  ELSE /\ validatePath(Entry(q, pol), pol, Caps)
       /\ \E i \in DOMAIN q.files : q.files[i].path = Entry(q, pol)

-------------------------------------------------------------------------------
(***************************************************************************)
(* Service.                                                                *)
(***************************************************************************)
IsBatch(q) == q.stdins # << >>

validateMode(q) == \/ q.mode \in {"", "run"}
                   \/ q.mode = "test" /\ q.language \in supportsTestMode
                   \/ q.mode = "trace" /\ q.language \in supportsTraceMode

\* normalize: the shapes it lets through, and what it makes of them.
WellShaped(q) ==
  /\ (q.source > 0) # (q.files # << >>)
  /\ q.files # << >> =>
       /\ q.language \in DOMAIN Registry(q.mode)
       /\ LET pol == Registry(q.mode)[q.language]
          IN validatePaths(q.files, pol, Caps) /\ (q.mode # "test" => resolveEntrypoint(q, pol))

normalize(q) ==
  IF q.files = << >> THEN q
  ELSE [q EXCEPT !.files = Sorted(q.files),
                 !.entrypoint = IF q.mode = "test" THEN << >>
                                ELSE Entry(q, Registry(q.mode)[q.language])]

\* Run and RunBatch up to the runtime; the handler sends a request with inputs
\* to RunBatch and any other to Run.
Accepts(q) ==
  /\ q.language \in runtimes
  /\ IsBatch(q) => q.stdin = 0 /\ q.mode \notin {"test", "trace"}
  /\ validateMode(q)
  /\ WellShaped(q)

\* decode: the body, the encoding, and the coarse sizes.
Batch(q) == LET sum[i \in 0 .. Len(q.stdins)] == IF i = 0 THEN 0 ELSE sum[i - 1] + q.stdins[i]
            IN sum[Len(q.stdins)]
Decodes(q) ==
  /\ q.wire <= Caps.body /\ q.wellEncoded
  /\ q.source <= Caps.source /\ Within(q.stdin, Caps.stdin)
  /\ Within(Len(q.stdins), Caps.batch)
  /\ \A i \in DOMAIN q.stdins : Within(q.stdins[i], Caps.stdin)
  /\ Within(Batch(q), Caps.batchStdin)

-------------------------------------------------------------------------------
VARIABLES pc,        \* where the goroutine stands
          request,   \* the request as it arrived, then as normalize leaves it
          sent,      \* the request as it arrived
          todo,      \* clean[i:], the files still to be written
          tree,      \* the workdir: what is at each path
          reply,     \* the HTTP status, 0 before there is one
          fault      \* what failed that the tree does not show: the host, the artifact

vars == <<pc, request, sent, todo, tree, reply, fault>>

Nothing == [p \in {} |-> "dir"]
Src == <<"src">>                     \* srcRootName
GoMod == Src \o <<"go.mod">>

Init == /\ sent \in Requests /\ request = sent
        /\ pc = "received" /\ todo = << >> /\ tree = Nothing
        /\ reply = 0 /\ fault = "none"

Answer(status) == pc' = "answered" /\ reply' = status

\* decode returns false, or run finds no language: 400.
Undecodable ==
  /\ pc = "received" /\ ~(Decodes(request) /\ request.language # "")
  /\ Answer(400)
  /\ UNCHANGED <<request, sent, todo, tree, fault>>

Decode ==
  /\ pc = "received" /\ Decodes(request) /\ request.language # ""
  /\ pc' = "decoded"
  /\ UNCHANGED <<request, sent, todo, tree, reply, fault>>

\* ErrUnsupportedLanguage or a ValidationError: 400 before anything is written.
Reject ==
  /\ pc = "decoded" /\ ~Accepts(request)
  /\ Answer(400)
  /\ UNCHANGED <<request, sent, todo, tree, fault>>

Accept ==
  /\ pc = "decoded" /\ Accepts(request)
  /\ request' = normalize(request)
  /\ pc' = "accepted"
  /\ UNCHANGED <<sent, todo, tree, reply, fault>>

-------------------------------------------------------------------------------
(***************************************************************************)
(* The runtime prepares the workdir: plan, prepare, prepareTest and        *)
(* prepareTrace, and what their callers do around them.                    *)
(***************************************************************************)
\* An error makes the result internal_error, the deferred RemoveAll takes the
\* workdir away and the handler answers 503.
Fail == Answer(503) /\ tree' = Nothing /\ UNCHANGED <<request, sent, todo>>

Put(t, p, what) == [q \in DOMAIN t \cup {p} |-> IF q = p THEN what ELSE t[q]]
Parents(p) == {SubSeq(p, 1, n) : n \in 1 .. Len(p) - 1}
MkdirAll(t, ps) == [q \in DOMAIN t \cup ps |-> IF q \in ps THEN "dir" ELSE t[q]]

\* Single-file source goes to a fixed name: at the top of the workdir, or in
\* src for a compiled test.
SourceFile(q) == IF q.mode = "test" /\ q.language \in compiledLanguages
                   THEN Src \o <<"source">> ELSE <<"source">>

Traced(q) == q.mode = "trace" /\ q.language \in interpretedLanguages

\* MkdirTemp; the harness of an interpreted trace comes first.
MakeWorkDir ==
  /\ pc = "accepted"
  /\ tree' = IF Traced(request) THEN Put(Nothing, <<"harness">>, "runner") ELSE Nothing
  /\ pc' = "workdir"
  /\ UNCHANGED <<request, sent, todo, reply, fault>>

WriteSource ==
  /\ pc = "workdir" /\ request.files = << >>
  /\ tree' = Put(MkdirAll(tree, Parents(SourceFile(request))), SourceFile(request), "student")
  /\ pc' = "written"
  /\ UNCHANGED <<request, sent, todo, reply, fault>>

\* plan and prepare ask for the recipe, prepareTest and prepareTrace do not:
\* their languages have a command.
LacksRecipe(q) == /\ q.files # << >> /\ q.language \notin hasMultiFileRecipe
                  /\ q.mode # "test" /\ ~Traced(q)

NoRecipe ==
  /\ pc = "workdir" /\ LacksRecipe(request)
  /\ Fail /\ UNCHANGED fault

\* Slip: the policy of run mode for every mode.
Revalidates_run(q) == /\ q.language \in DOMAIN filePolicies
                      /\ validatePaths(q.files, filePolicies[q.language], NoCaps)

\* materializeSource: the mode's own policy, without the caps.
Revalidates(q) == /\ q.language \in DOMAIN Registry(q.mode)
                  /\ validatePaths(q.files, Registry(q.mode)[q.language], NoCaps)

Materialize ==
  /\ pc = "workdir" /\ request.files # << >> /\ ~LacksRecipe(request)
  /\ IF Revalidates(request)
       THEN /\ tree' = MkdirAll(tree, {Src})
            /\ todo' = Sorted(request.files)
            /\ pc' = "writing"
            /\ UNCHANGED <<request, sent, reply>>
       ELSE Fail
  /\ UNCHANGED fault

\* One file: its parents, then the file itself with O_EXCL.
Target == Src \o Head(todo).path
Creatable == /\ \A d \in Parents(Target) \cap DOMAIN tree : tree[d] = "dir"
             /\ Target \notin DOMAIN tree

\* Slip: the file is opened without creating its parents.
WriteFile_flat ==
  /\ pc = "writing" /\ todo # << >> /\ Creatable
  /\ tree' = Put(tree, Target, "student")
  /\ todo' = Tail(todo)
  /\ UNCHANGED <<pc, request, sent, reply, fault>>

WriteFile ==
  /\ pc = "writing" /\ todo # << >> /\ Creatable
  /\ tree' = Put(MkdirAll(tree, Parents(Target)), Target, "student")
  /\ todo' = Tail(todo)
  /\ UNCHANGED <<pc, request, sent, reply, fault>>

WriteFileFails ==
  /\ pc = "writing" /\ todo # << >> /\ ~Creatable
  /\ Fail /\ UNCHANGED fault

AllWritten ==
  /\ pc = "writing" /\ todo = << >>
  /\ pc' = "written"
  /\ UNCHANGED <<request, sent, todo, tree, reply, fault>>

\* prep: go.mod for a go module, the classes directory for java.  WriteFile
\* replaces a file and fails on a directory.
Module(q) == q.language = "go" /\ (q.files # << >> \/ q.mode = "test")
Classes(q) == q.language = "java" /\ q.files # << >> /\ q.mode # "test"

Prep ==
  /\ pc = "written"
  /\ ~(Module(request) /\ GoMod \in DOMAIN tree /\ tree[GoMod] = "dir")
  /\ tree' = IF Module(request) THEN Put(tree, GoMod, "runner")
             ELSE IF Classes(request) THEN MkdirAll(tree, {<<"classes">>})
             ELSE tree
  /\ pc' = "prepared"
  /\ UNCHANGED <<request, sent, todo, reply, fault>>

PrepFails ==
  /\ pc = "written" /\ Module(request) /\ GoMod \in DOMAIN tree /\ tree[GoMod] = "dir"
  /\ Fail /\ UNCHANGED fault

\* A call to the host fails for its own reasons, no space, no inode, no dir, or
\* in the end no jail.
HostFails ==
  /\ pc \in {"accepted", "workdir", "writing", "written", "prepared"}
  /\ fault' = "host"
  /\ Fail

\* Run, RunBatch and runTrace of a compiled language build first; runTest
\* leaves it to the toolchain in its one jail.
Builds(q) == q.language \in compiledLanguages /\ q.mode # "test"

\* compile: the compiler ended well, and its artifact is missing, empty or
\* over the size cap.  What a compiler leaves behind is data: java's entry
\* class was never looked up, and any build may outgrow the cap.
ArtifactUnfit ==
  /\ pc = "prepared" /\ Builds(request)
  /\ fault' = "artifact"
  /\ Fail

\* The jails run; then the workdir goes and 200 is the answer to whatever the
\* compiler said or the program did.  What they can make of it is Execution's
\* and JailRun's.
Executed ==
  /\ pc = "prepared"
  /\ Answer(200) /\ tree' = Nothing
  /\ UNCHANGED <<request, sent, todo, fault>>

Answered == pc = "answered" /\ UNCHANGED vars

Prepare == \/ MakeWorkDir \/ WriteSource \/ NoRecipe \/ Materialize
           \/ WriteFile \/ WriteFileFails \/ AllWritten \/ Prep \/ PrepFails

Next == \/ Undecodable \/ Decode \/ Reject \/ Accept
        \/ Prepare \/ HostFails \/ ArtifactUnfit \/ Executed \/ Answered

Spec == Init /\ [][Next]_vars

-------------------------------------------------------------------------------
(***************************************************************************)
(* Properties.                                                             *)
(***************************************************************************)
\* The order in which a request lists its files does not matter: every order
\* is accepted or none is, and they lead to the same canonical request, and so
\* to the same compile argv and the same tree (validatePaths, normalize).
Orders(q) == {[q EXCEPT !.files = [i \in DOMAIN q.files |-> q.files[p[i]]]] :
                p \in {f \in [DOMAIN q.files -> DOMAIN q.files] :
                         \A i, j \in DOMAIN f : f[i] = f[j] => i = j}}

OrderIndependent ==
  /\ pc = "accepted" => \A q \in Orders(sent) : Accepts(q) /\ normalize(q) = request
  /\ pc = "answered" /\ reply = 400 =>
       \A q \in Orders(sent) : ~(Decodes(q) /\ q.language # "" /\ Accepts(q))

\* The workdir handed to the jails holds the submission, all of it and nothing
\* else of the student's: every file of the request, written once and not
\* replaced by one of the runner's, in directories that exist
\* (MaterializeFiles, plan's prep).
Beneath(q) == IF q.files = << >> THEN {SourceFile(q)}
              ELSE {Src \o q.files[i].path : i \in DOMAIN q.files}

TreeIsSubmission ==
  pc = "prepared" =>
    /\ {p \in DOMAIN tree : tree[p] = "student"} = Beneath(sent)
    /\ \A p \in DOMAIN tree : \A d \in Parents(p) : d \in DOMAIN tree /\ tree[d] = "dir"

\* What the recipes rely on: the entrypoint the interpreter or go build is
\* given is a file of the tree, and a compiled language has a unit to compile
\* (resolveEntrypoint's defaults, hasCompileUnit, multiFileRunArgs).
EntryIsWritten ==
  pc = "prepared" /\ request.files # << >> =>
    LET pol == Registry(request.mode)[request.language]
    IN /\ request.mode # "test" /\ ~pol.entryIsClass =>
            /\ Src \o request.entrypoint \in DOMAIN tree
            /\ tree[Src \o request.entrypoint] = "student"
       /\ pol.compileExts # {} =>
            \E p \in DOMAIN tree : tree[p] = "student" /\ Ext(Base(p)) \in pol.compileExts

\* No manifest and no dependency directory is ever on disk, at any depth, in
\* any mode: the only one is the runner's own go.mod (ForbiddenNames,
\* ForbiddenComponents, re-checked by MaterializeFiles).
NoManifestOnDisk ==
  \A p \in DOMAIN tree : tree[p] = "student" /\ request.files # << >> =>
    LET pol == Registry(request.mode)[request.language]
    IN /\ Base(p) \notin pol.forbiddenNames
       /\ \A i \in DOMAIN p : p[i] \notin pol.forbiddenComponents

\* An accepted request answered 503 has its reason.  Before the jails, with a
\* host that does its part, there are three, and each of them always leads
\* there: no recipe for its language, a file that another file has for a
\* directory, a directory in the place of the runner's go.mod.  In particular
\* materializeSource never refuses what normalize let through (materialize.go:117
\* "can never widen or narrow").  After the jails there is one more, which only
\* a request that builds can meet: compile's verdict on the artifact, of a tree
\* that none of the three kept from it.
Nested(q) == \E i, j \in DOMAIN q.files : Above(q.files[i].path, q.files[j].path)
ModuleShadowed(q) == Module(q) /\ \E i \in DOMAIN q.files : Above(<<"go.mod">>, q.files[i].path)
Unpreparable(q) == LacksRecipe(q) \/ Nested(q) \/ ModuleShadowed(q)

FailuresExplained ==
  /\ reply = 503 /\ fault = "none" => Unpreparable(sent)
  /\ fault = "artifact" => Builds(sent)
  /\ pc = "prepared" \/ fault = "artifact" => ~Unpreparable(sent)

\* handlers.go:221 "A per-run infra failure OF OUR OWN (...) surfaces as
\* internal_error from the runtime.  Emit it as 503": a 503 means that the host
\* failed.
InternalErrorIsOurs == reply = 503 => fault = "host"
================================================================================
