--------------------------- MODULE Submission_proofs ---------------------------
(***************************************************************************)
(* Theorems about Submission, for every set of requests, any names and     *)
(* caps, and any number of files: what is on disk is the submission and no *)
(* manifest, an accepted request fails for the reasons the model names,    *)
(* and the order of the files does not matter.                             *)
(***************************************************************************)
EXTENDS SubmissionOrder_proofs

\* What the student has in the workdir, and the whole workdir while it is being
\* prepared: every parent is there and is a directory, the only directories are
\* src and the parents of the student's files, the only file of the runner's is
\* the trace harness (os.MkdirAll, O_EXCL, prepareTrace).
Written == {p \in DOMAIN tree : tree[p] = "student"}

Whole == \A p \in DOMAIN tree : \A d \in Parents(p) : d \in DOMAIN tree /\ tree[d] = "dir"

Grown ==
  /\ DOMAIN tree \subseteq Place
  /\ \A p \in DOMAIN tree :
       \/ tree[p] = "student"
       \/ tree[p] = "dir" /\ (p = Src \/ \E w \in Written : p \in Parents(w))
       \/ tree[p] = "runner" /\ p = <<"harness">>
  /\ Whole

\* The request so far (decode, normalize).
Arrived ==
  /\ pc \in {"received", "decoded", "accepted", "workdir", "writing", "written", "prepared",
            "answered"}
  /\ sent \in Requests
  /\ pc \in {"received", "decoded"} => request = sent
  /\ pc \in {"accepted", "workdir", "writing", "written", "prepared"} =>
       Accepts(sent) /\ request = normalize(sent)

\* No answer and no fault before the end, and nothing on disk outside the run of the runtime.
Quiet ==
  /\ pc # "answered" => reply = 0 /\ fault = "none"
  /\ pc \in {"received", "decoded", "accepted", "answered"} => tree = Nothing

\* The loop of MaterializeFiles: what is written and what is still to be written
\* make up the submission, and nothing is both or twice.
Writing ==
  /\ sent.files # << >> /\ ~LacksRecipe(sent)
  /\ todo \in Seq(File) /\ Distinct(todo) /\ Elements(todo) \subseteq Elements(sent.files)
  /\ Written \cup {Src \o f.path : f \in Elements(todo)} = Beneath(sent)
  /\ \A f \in Elements(todo) : Src \o f.path \notin Written

\* The tree, step by step.
Stages ==
  /\ pc \in {"workdir", "writing", "written"} => Grown
  /\ pc = "workdir" => Written = {}
  /\ pc = "writing" => Writing
  /\ pc = "written" => Written = Beneath(sent) /\ ~LacksRecipe(sent)
  /\ pc = "prepared" => Written = Beneath(sent) /\ Whole /\ ~Unpreparable(sent)

\* The two refusals and their reasons.
Refusals ==
  /\ reply = 503 /\ fault = "none" => Unpreparable(sent)
  /\ fault = "artifact" => Builds(sent) /\ ~Unpreparable(sent)
  /\ reply = 400 => ~(Decodes(sent) /\ sent.language # "" /\ Accepts(sent))

IInv == Arrived /\ Quiet /\ Stages /\ Refusals

-------------------------------------------------------------------------------
(***************************************************************************)
(* The registries, and what an accepted request is.                        *)
(***************************************************************************)
\* No policy forbids the runner's own directory, and go's forbid go.mod.
LEMMA Tables ==
  ASSUME NEW mode, NEW language \in DOMAIN Registry(mode)
  PROVE  /\ "src" \notin Registry(mode)[language].forbiddenComponents
         /\ language = "go" => "go.mod" \in Registry(mode)[language].forbiddenNames
<1>1. CASE mode = "test"
  <2>1. language \in {"python", "go", "javascript", "java"}
    BY <1>1 DEF Registry, testFilePolicies
  <2> QED
    BY <1>1, <2>1 DEF Registry, testFilePolicies, Policy, GoManifests
<1>2. CASE mode # "test"
  <2>1. language \in {"python", "javascript", "lua", "php", "c", "cpp", "go", "java", "rust"}
    BY <1>2 DEF Registry, filePolicies
  <2> QED
    BY <1>2, <2>1 DEF Registry, filePolicies, Policy, GoManifests
<1> QED
  BY <1>1, <1>2

\* What normalize has seen to when there are files.
LEMMA AcceptedFiles ==
  ASSUME NEW s \in Request, Accepts(s), s.files # << >>
  PROVE  LET pol == Registry(s.mode)[s.language]
         IN /\ s.files \in Seq(File) /\ Distinct(s.files)
            /\ s.language \in DOMAIN Registry(s.mode)
            /\ validatePaths(s.files, pol, Caps)
            /\ s.mode # "test" => resolveEntrypoint(s, pol)
            /\ \A f \in Elements(s.files) : /\ f.path \in Place /\ f.path # << >>
                                            /\ validatePath(f.path, pol, Caps)
<1> DEFINE pol == Registry(s.mode)[s.language]
<1>1. s.files \in Seq(File)
  BY DEF Request
<1>2. /\ s.language \in DOMAIN Registry(s.mode)
      /\ validatePaths(s.files, pol, Caps)
      /\ s.mode # "test" => resolveEntrypoint(s, pol)
  BY DEF Accepts, WellShaped
<1> HIDE DEF pol
<1>3. Distinct(s.files)
  BY <1>2 DEF validatePaths, Distinct
<1>4. \A i \in DOMAIN s.files : validatePath(s.files[i].path, pol, Caps)
  BY <1>2 DEF validatePaths
<1>5. \A i \in DOMAIN s.files : s.files[i].path # << >>
  BY <1>4 DEF validatePath
<1>6. \A i \in DOMAIN s.files : s.files[i].path \in Place
  BY <1>1, FilesType
<1>7. \A f \in Elements(s.files) : /\ f.path \in Place /\ f.path # << >>
                                   /\ validatePath(f.path, pol, Caps)
  BY <1>4, <1>5, <1>6 DEF Elements
<1> QED
  BY <1>1, <1>2, <1>3, <1>7 DEF pol

\* normalize changes the order of the files and the entrypoint.
LEMMA Normalized ==
  ASSUME NEW s \in Request, Accepts(s)
  PROVE  LET n == normalize(s)
         IN /\ n.language = s.language /\ n.mode = s.mode
            /\ (n.files = << >>) <=> (s.files = << >>)
            /\ s.files # << >> =>
                 /\ n.files \in Seq(File) /\ Distinct(n.files)
                 /\ Elements(n.files) = Elements(s.files)
                 /\ s.mode # "test" => n.entrypoint = Entry(s, Registry(s.mode)[s.language])
<1>1. CASE s.files = << >>
  BY <1>1 DEF normalize
<1>2. CASE s.files # << >>
  <2> DEFINE n == normalize(s)
  <2>1. s.files \in Seq(File) /\ Distinct(s.files)
    BY <1>2, AcceptedFiles
  <2>2. n.files = Sorted(s.files) /\ n.language = s.language /\ n.mode = s.mode
    BY <1>2 DEF normalize, Request
  <2>3. s.mode # "test" => n.entrypoint = Entry(s, Registry(s.mode)[s.language])
    BY <1>2 DEF normalize, Request
  <2> HIDE DEF n
  <2>4. /\ n.files \in Seq(File) /\ DOMAIN n.files = DOMAIN s.files
        /\ Distinct(n.files) /\ Elements(n.files) = Elements(s.files)
    BY <2>1, <2>2, SortedWorks
  <2>5. n.files # << >>
    BY <1>2, <2>1, <2>4, FilesType, EmptySeq
  <2> QED
    BY <1>2, <2>2, <2>3, <2>4, <2>5 DEF n
<1> QED
  BY <1>1, <1>2

LEMMA NormalizedSame ==
  ASSUME NEW s \in Request, Accepts(s)
  PROVE  /\ LacksRecipe(normalize(s)) <=> LacksRecipe(s)
         /\ Module(normalize(s)) <=> Module(s)
         /\ SourceFile(normalize(s)) = SourceFile(s)
<1>1. /\ normalize(s).language = s.language /\ normalize(s).mode = s.mode
      /\ (normalize(s).files = << >>) <=> (s.files = << >>)
  BY Normalized
<1> QED
  BY <1>1 DEF LacksRecipe, Module, SourceFile, Traced

\* materializeSource, with the caps left out, lets through what normalize let
\* through (materialize.go:117).
LEMMA Revalidated ==
  ASSUME NEW s \in Request, Accepts(s), s.files # << >>
  PROVE  Revalidates(normalize(s))
<1> DEFINE pol == Registry(s.mode)[s.language]
           files == normalize(s).files
<1>1. /\ s.language \in DOMAIN Registry(s.mode) /\ validatePaths(s.files, pol, Caps)
      /\ \A f \in Elements(s.files) : validatePath(f.path, pol, Caps)
  BY AcceptedFiles
<1>2. /\ normalize(s).language = s.language /\ normalize(s).mode = s.mode
      /\ files # << >> /\ Distinct(files) /\ Elements(files) = Elements(s.files)
  BY Normalized
<1> HIDE DEF pol, files
<1>4. \A p : validatePath(p, pol, Caps) => validatePath(p, pol, NoCaps)
  BY DEF validatePath, Within, NoCaps, CapNames
<1>5. \A i \in DOMAIN files : validatePath(files[i].path, pol, NoCaps)
  BY <1>1, <1>2, <1>4 DEF Elements
<1>6. pol.compileExts = {} \/ \E i \in DOMAIN files : Ext(Base(files[i].path)) \in pol.compileExts
  <2>1. CASE pol.compileExts = {}
    BY <2>1
  <2>2. CASE pol.compileExts # {}
    <3>1. PICK j \in DOMAIN s.files : Ext(Base(s.files[j].path)) \in pol.compileExts
      BY <1>1, <2>2 DEF validatePaths
    <3>2. s.files[j] \in Elements(files)
      BY <1>2 DEF Elements
    <3> QED
      BY <3>1, <3>2 DEF Elements
  <2> QED
    BY <2>1, <2>2
<1>7. validatePaths(files, pol, NoCaps)
  <2>1. /\ Within(Len(files), NoCaps.files) /\ Within(Total(files), NoCaps.filesBytes)
        /\ \A i \in DOMAIN files : Within(files[i].size, NoCaps.fileBytes)
    BY DEF Within, NoCaps, CapNames
  <2> QED
    BY <2>1, <1>2, <1>5, <1>6 DEF validatePaths, Distinct
<1> QED
  BY <1>1, <1>2, <1>7 DEF Revalidates, pol, files

\* The runner's own places.
LEMMA OwnPlaces ==
  /\ Src \in Place /\ Len(Src) = 1 /\ Src[1] = "src"
  /\ GoMod \in Place /\ Len(GoMod) = 2 /\ GoMod = Src \o <<"go.mod">>
  /\ <<"go.mod">> \in Place /\ <<"source">> \in Place
  /\ <<"harness">> \in Place /\ Parents(<<"harness">>) = {} /\ <<"harness">>[1] = "harness"
  /\ <<"classes">> \in Place /\ Parents(<<"classes">>) = {} /\ <<"classes">>[1] = "classes"
<1>1. {"src", "go.mod", "source", "harness", "classes"} \subseteq Component
  BY DEF Component
<1>2. \A c \in Component : <<c>> \in Place /\ Len(<<c>>) = 1 /\ <<c>>[1] = c
  BY DEF Place
<1>3. \A c \in Component : Parents(<<c>>) = {}
  BY <1>2 DEF Parents
<1>4. Src \in Place /\ Len(Src) = 1 /\ Src[1] = "src"
  BY <1>1, <1>2 DEF Src
<1>5. <<"go.mod">> \in Place /\ Len(<<"go.mod">>) = 1
  BY <1>1, <1>2
<1>6. GoMod \in Place /\ Len(GoMod) = 2
  BY <1>5, SrcPath DEF GoMod
<1> QED
  BY <1>1, <1>2, <1>3, <1>4, <1>5, <1>6 DEF GoMod

\* Where a single-file source goes.
LEMMA SourcePlace ==
  ASSUME NEW s
  PROVE  /\ SourceFile(s) \in Place /\ Len(SourceFile(s)) \in 1 .. 2
         /\ SourceFile(s) # GoMod
         /\ Module(s) /\ s.files = << >> => SourceFile(s)[1] = "src" /\ Len(SourceFile(s)) = 2
<1>1. /\ <<"source">> \in Place /\ Len(<<"source">>) = 1
      /\ Src \o <<"source">> \in Place /\ Len(Src \o <<"source">>) = 2
      /\ (Src \o <<"source">>)[1] = "src"
  <2>1. <<"source">> \in Place /\ Len(<<"source">>) = 1
    BY OwnPlaces
  <2> QED
    BY <2>1, SrcPath
<1>2. (Src \o <<"source">>)[2] = "source" /\ GoMod[2] = "go.mod"
  BY DEF Src, GoMod
<1>3. Module(s) /\ s.files = << >> => s.mode = "test" /\ s.language \in compiledLanguages
  BY DEF Module, compiledLanguages
<1>4. SourceFile(s) \in {<<"source">>, Src \o <<"source">>}
  BY DEF SourceFile
<1>5. Len(<<"source">>) # Len(GoMod)
  BY <1>1, OwnPlaces
<1>6. SourceFile(s) # GoMod
  BY <1>2, <1>4, <1>5
<1> QED
  BY <1>1, <1>3, <1>4, <1>6 DEF SourceFile

\* Where the files of an accepted request go.
LEMMA SubmissionPlaces ==
  ASSUME NEW s \in Request, Accepts(s)
  PROVE  /\ Beneath(s) # {} /\ Beneath(s) \subseteq Place
         /\ s.files # << >> => /\ Beneath(s) = {Src \o f.path : f \in Elements(s.files)}
                               /\ \A w \in Beneath(s) : w[1] = "src"
         /\ s.files = << >> => Beneath(s) = {SourceFile(s)}
         /\ s.files # << >> \/ Module(s) => \A w \in Beneath(s) : Src \in Parents(w)
         /\ Module(s) => GoMod \notin Beneath(s)
<1>1. CASE s.files = << >>
  <2>1. Beneath(s) = {SourceFile(s)}
    BY <1>1 DEF Beneath
  <2>2. Module(s) => Src \in Parents(SourceFile(s))
    BY <1>1, SourcePlace, OwnPlaces, IsParent
  <2> QED
    BY <1>1, <2>1, <2>2, SourcePlace
<1>2. CASE s.files # << >>
  <2> DEFINE pol == Registry(s.mode)[s.language]
  <2>1. /\ s.files \in Seq(File) /\ s.language \in DOMAIN Registry(s.mode)
        /\ \A f \in Elements(s.files) : /\ f.path \in Place /\ f.path # << >>
                                        /\ validatePath(f.path, pol, Caps)
    BY <1>2, AcceptedFiles
  <2>2. Beneath(s) = {Src \o f.path : f \in Elements(s.files)}
    BY <1>2 DEF Beneath, Elements
  <2>3. Elements(s.files) # {}
    <3>1. Len(s.files) \in Nat \ {0} /\ DOMAIN s.files = 1 .. Len(s.files)
      BY <1>2, <2>1, FilesType, EmptySeq
    <3>2. 1 \in DOMAIN s.files
      BY <3>1
    <3> QED
      BY <3>2 DEF Elements
  <2>4. ASSUME NEW f \in Elements(s.files)
        PROVE  /\ Src \o f.path \in Place /\ (Src \o f.path)[1] = "src"
               /\ Src \in Parents(Src \o f.path)
    <3>1. f.path \in Place /\ Len(f.path) \in Nat \ {0}
      BY <2>1, EmptySeq DEF Place
    <3>2. /\ Src \o f.path \in Place /\ (Src \o f.path)[1] = "src"
          /\ Len(Src \o f.path) = Len(f.path) + 1
      BY <3>1, SrcPath
    <3>3. Len(Src) = 1 /\ Len(Src) < Len(Src \o f.path)
      BY <3>1, <3>2, OwnPlaces
    <3>4. \A i \in 1 .. Len(Src) : Src[i] = (Src \o f.path)[i]
      BY <3>2, <3>3, OwnPlaces
    <3>5. Src \in Place
      BY OwnPlaces
    <3> DEFINE c == Src \o f.path
    <3>6. /\ c \in Place /\ 1 <= Len(Src) /\ Len(Src) < Len(c)
          /\ \A i \in 1 .. Len(Src) : Src[i] = c[i]
      BY <3>2, <3>3, <3>4
    <3> HIDE DEF c
    <3>7. Src \in Parents(c)
      BY <3>5, <3>6, IsParent
    <3> QED
      BY <3>2, <3>7 DEF c
  <2>5. Module(s) => GoMod \notin Beneath(s)
    <3> SUFFICES ASSUME Module(s), NEW f \in Elements(s.files), GoMod = Src \o f.path
                 PROVE  FALSE
      BY <2>2
    <3>1. f.path = <<"go.mod">>
      BY <2>1, OwnPlaces, SrcInjective
    <3>2. Base(f.path) = "go.mod"
      BY <3>1 DEF Base
    <3>3. Base(f.path) \notin pol.forbiddenNames
      BY <2>1 DEF validatePath
    <3>4. "go.mod" \in pol.forbiddenNames
      BY <2>1, Tables DEF Module
    <3> QED
      BY <3>2, <3>3, <3>4
  <2> QED
    BY <1>2, <2>2, <2>3, <2>4, <2>5
<1> QED
  BY <1>1, <1>2

-------------------------------------------------------------------------------
(***************************************************************************)
(* The steps that build the tree.                                          *)
(***************************************************************************)
LEMMA RequestsAre == Requests \subseteq Request
BY SubmissionAssumption

LEMMA NestedIs ==
  ASSUME NEW s
  PROVE  /\ Nested(s) <=> \E f, g \in Elements(s.files) : Above(f.path, g.path)
         /\ ModuleShadowed(s) <=>
              Module(s) /\ \E f \in Elements(s.files) : Above(<<"go.mod">>, f.path)
BY DEF Nested, ModuleShadowed, Elements

\* The file that is next, and the files after it.
LEMMA NextFile ==
  ASSUME sent \in Request, Accepts(sent), Writing, todo # << >>
  PROVE  /\ Head(todo) \in Elements(todo) /\ Head(todo) \in Elements(sent.files)
         /\ Head(todo).path \in Place /\ Head(todo).path # << >>
         /\ Target \in Place /\ Target[1] = "src" /\ Len(Target) > 1
         /\ Elements(todo) = {Head(todo)} \cup Elements(Tail(todo))
         /\ Tail(todo) \in Seq(File) /\ Distinct(Tail(todo))
         /\ \A g \in Elements(Tail(todo)) : g.path # Head(todo).path
<1>1. todo \in Seq(File) /\ Distinct(todo) /\ Elements(todo) \subseteq Elements(sent.files)
  BY DEF Writing
<1>2. Len(todo) \in Nat /\ Len(todo) > 0 /\ DOMAIN todo = 1 .. Len(todo)
  BY <1>1, EmptySeq, FilesType
<1>3. Head(todo) = todo[1] /\ 1 \in DOMAIN todo
  BY <1>1, <1>2
<1>4. Head(todo) \in Elements(todo)
  BY <1>3 DEF Elements
<1>5. /\ Tail(todo) \in Seq(File) /\ DOMAIN Tail(todo) = 1 .. Len(todo) - 1
      /\ \A i \in 1 .. Len(todo) - 1 : Tail(todo)[i] = todo[i + 1]
  BY <1>1, <1>2, HeadTailProperties
<1>6. \A i \in DOMAIN Tail(todo) : i + 1 \in DOMAIN todo /\ i + 1 # 1 /\ Tail(todo)[i] = todo[i + 1]
  BY <1>2, <1>5
<1>7. \A i \in DOMAIN todo : i = 1 \/ (i - 1 \in DOMAIN Tail(todo) /\ todo[i] = Tail(todo)[i - 1])
  BY <1>2, <1>5
<1>8. Elements(todo) = {Head(todo)} \cup Elements(Tail(todo))
  BY <1>3, <1>6, <1>7 DEF Elements
<1>9. Distinct(Tail(todo))
  <2> SUFFICES ASSUME NEW i \in DOMAIN Tail(todo), NEW j \in DOMAIN Tail(todo),
                      Tail(todo)[i].path = Tail(todo)[j].path
               PROVE  i = j
    BY DEF Distinct
  <2>1. i + 1 = j + 1
    BY <1>1, <1>6 DEF Distinct
  <2> QED
    BY <2>1, <1>2, <1>5
<1>10. \A g \in Elements(Tail(todo)) : g.path # Head(todo).path
  BY <1>1, <1>3, <1>6 DEF Elements, Distinct
<1>11. Head(todo) \in Elements(sent.files)
  BY <1>1, <1>4
<1>12. Head(todo).path \in Place /\ Head(todo).path # << >>
  <2>1. sent.files # << >>
    BY DEF Writing
  <2> QED
    BY <2>1, <1>11, AcceptedFiles
<1>13. Len(Head(todo).path) \in Nat \ {0}
  BY <1>12, EmptySeq DEF Place
<1>14. Target \in Place /\ Target[1] = "src" /\ Len(Target) = Len(Head(todo).path) + 1
  BY <1>12, SrcPath DEF Target
<1> QED
  BY <1>4, <1>5, <1>8, <1>9, <1>10, <1>11, <1>12, <1>13, <1>14

\* A file of the student's is nobody's parent.
LEMMA StudentsAreLeaves ==
  ASSUME Whole
  PROVE  \A p \in DOMAIN tree : \A w \in Written : w \notin Parents(p)
BY DEF Whole, Written

\* A file that cannot be created is beneath another file, or another is beneath
\* it.
LEMMA BlockedIsNested ==
  ASSUME sent \in Request, Accepts(sent), Grown, Writing, todo # << >>, ~Creatable
  PROVE  Nested(sent)
<1> DEFINE f == Head(todo)
<1>1. /\ f \in Elements(todo) /\ f \in Elements(sent.files) /\ f.path \in Place
      /\ Target \in Place /\ Target[1] = "src" /\ Len(Target) > 1 /\ Target = Src \o f.path
  BY NextFile DEF Target
<1>2. /\ Written \subseteq Beneath(sent)
      /\ Beneath(sent) = {Src \o g.path : g \in Elements(sent.files)}
  BY SubmissionPlaces DEF Writing
<1>3. \A g \in Elements(sent.files) : g.path \in Place
  BY AcceptedFiles DEF Writing
<1>4. Target \notin Written
  BY <1>1 DEF Writing
<1> HIDE DEF f
<1>5. CASE Target \in DOMAIN tree
  <2>1. Target # <<"harness">> /\ Target # Src
    BY <1>1, OwnPlaces
  <2>2. PICK w \in Written : Target \in Parents(w)
    BY <1>4, <1>5, <2>1 DEF Grown, Written
  <2>3. PICK g \in Elements(sent.files) : w = Src \o g.path
    BY <1>2
  <2>4. Above(f.path, g.path)
    BY <2>2, <2>3, <1>1, <1>3, AboveIsParent
  <2> QED
    BY <2>4, <1>1, NestedIs
<1>6. CASE Target \notin DOMAIN tree
  <2>1. PICK d \in Parents(Target) \cap DOMAIN tree : tree[d] # "dir"
    BY <1>6 DEF Creatable
  <2>2. d \in Place /\ d[1] = "src"
    <3>1. d \in Place
      BY <2>1, <1>1, ParentsType
    <3>2. 1 <= Len(d) /\ \A i \in 1 .. Len(d) : d[i] = Target[i]
      BY <3>1, <2>1, <1>1, IsParent
    <3>3. Len(d) \in Nat
      BY <3>1 DEF Place
    <3> QED
      BY <3>1, <3>2, <3>3, <1>1
  <2>3. d # <<"harness">>
    BY <2>2, OwnPlaces
  <2>4. d \in Written
    BY <2>1, <2>3 DEF Grown, Written
  <2>5. PICK g \in Elements(sent.files) : d = Src \o g.path
    BY <2>4, <1>2
  <2>6. Above(g.path, f.path)
    BY <2>1, <2>5, <1>1, <1>3, AboveIsParent
  <2> QED
    BY <2>6, <1>1, NestedIs
<1> QED
  BY <1>5, <1>6

\* MkdirAll and O_EXCL together: the file is there, its parents are, and nothing
\* that was there has changed.
LEMMA Planted ==
  ASSUME Grown, NEW T \in Place, T \notin DOMAIN tree,
         \A d \in Parents(T) \cap DOMAIN tree : tree[d] = "dir",
         tree' = Put(MkdirAll(tree, Parents(T)), T, "student")
  PROVE  Grown' /\ Written' = Written \cup {T}
<1>1. T \notin Parents(T) /\ Parents(T) \subseteq Place
  BY ParentsOrder, ParentsType
<1>2. DOMAIN tree' = DOMAIN tree \cup Parents(T) \cup {T}
  BY DEF Put, MkdirAll
<1>3. tree'[T] = "student"
  BY DEF Put, MkdirAll
<1>4. \A d \in Parents(T) : tree'[d] = "dir"
  BY <1>1 DEF Put, MkdirAll
<1>5. \A p \in DOMAIN tree : tree'[p] = tree[p]
  BY <1>1 DEF Put, MkdirAll
<1>6. Written' = Written \cup {T}
  BY <1>2, <1>3, <1>4, <1>5 DEF Written
<1>7. Whole'
  <2> SUFFICES ASSUME NEW p \in DOMAIN tree', NEW d \in Parents(p)
               PROVE  d \in DOMAIN tree' /\ tree'[d] = "dir"
    BY DEF Whole
  <2>1. CASE p \in DOMAIN tree
    <3>1. d \in DOMAIN tree /\ tree[d] = "dir"
      BY <2>1 DEF Grown, Whole
    <3> QED
      BY <3>1, <1>2, <1>5
  <2>2. CASE p \in Parents(T) \cup {T}
    <3>1. d \in Parents(T)
      BY <2>2, ParentsOrder
    <3> QED
      BY <3>1, <1>2, <1>4
  <2> QED
    BY <2>1, <2>2, <1>2
<1>8. DOMAIN tree' \subseteq Place
  BY <1>1, <1>2 DEF Grown
<1>9. ASSUME NEW p \in DOMAIN tree'
      PROVE  \/ tree'[p] = "student"
             \/ tree'[p] = "dir" /\ (p = Src \/ \E w \in Written' : p \in Parents(w))
             \/ tree'[p] = "runner" /\ p = <<"harness">>
  <2>1. CASE p \in DOMAIN tree
    BY <2>1, <1>5, <1>6 DEF Grown
  <2>2. CASE p \in Parents(T)
    BY <2>2, <1>4, <1>6
  <2>3. CASE p = T
    BY <2>3, <1>3
  <2> QED
    BY <2>1, <2>2, <2>3, <1>2
<1>10. Grown'
  BY <1>7, <1>8, <1>9 DEF Grown
<1> QED
  BY <1>6, <1>10

\* One round of MaterializeFiles' loop.
LEMMA WriteFileGrows ==
  ASSUME sent \in Request, Accepts(sent), Grown, Writing, WriteFile
  PROVE  Grown' /\ Writing'
<1> USE DEF WriteFile
<1>1. todo # << >> /\ todo' = Tail(todo) /\ sent' = sent
  OBVIOUS
<1>2. Grown' /\ Written' = Written \cup {Target}
  <2>1. Target \in Place
    BY <1>1, NextFile
  <2>2. Target \notin DOMAIN tree /\ \A d \in Parents(Target) \cap DOMAIN tree : tree[d] = "dir"
    BY DEF Creatable
  <2>3. tree' = Put(MkdirAll(tree, Parents(Target)), Target, "student")
    OBVIOUS
  <2> HIDE DEF WriteFile
  <2> QED
    BY <2>1, <2>2, <2>3, Planted
<1> HIDE DEF WriteFile
<1>3. /\ Elements(todo) = {Head(todo)} \cup Elements(Tail(todo))
      /\ Tail(todo) \in Seq(File) /\ Distinct(Tail(todo))
      /\ \A g \in Elements(Tail(todo)) : g.path # Head(todo).path
      /\ Target = Src \o Head(todo).path
  BY <1>1, NextFile DEF Target
<1>4. /\ sent.files # << >> /\ ~LacksRecipe(sent) /\ Elements(todo) \subseteq Elements(sent.files)
      /\ Written \cup {Src \o f.path : f \in Elements(todo)} = Beneath(sent)
      /\ \A f \in Elements(todo) : Src \o f.path \notin Written
  BY DEF Writing
<1>5. \A f \in Elements(todo) : f.path \in Place
  BY <1>4, AcceptedFiles
<1>6. Written' \cup {Src \o f.path : f \in Elements(Tail(todo))} = Beneath(sent)
  BY <1>2, <1>3, <1>4
<1>7. \A f \in Elements(Tail(todo)) : Src \o f.path # Target
  BY <1>3, <1>5, SrcInjective
<1>8. \A f \in Elements(Tail(todo)) : Src \o f.path \notin Written'
  BY <1>2, <1>3, <1>4, <1>7
<1>9. Beneath(sent)' = Beneath(sent) /\ LacksRecipe(sent)' = LacksRecipe(sent)
  BY <1>1 DEF Beneath, SourceFile, LacksRecipe, Traced
<1>10. Elements(todo)' = Elements(Tail(todo)) /\ Distinct(todo)' = Distinct(Tail(todo))
  BY <1>1 DEF Elements, Distinct
<1>11. Writing'
  BY <1>1, <1>3, <1>4, <1>6, <1>8, <1>9, <1>10 DEF Writing
<1> QED
  BY <1>2, <1>11

\* A single-file source finds its place free.
LEMMA WriteSourceGrows ==
  ASSUME sent \in Request, Accepts(sent), request = normalize(sent),
         Grown, Written = {}, WriteSource
  PROVE  Grown' /\ Written' = Beneath(sent) /\ ~LacksRecipe(sent)
<1> DEFINE T == SourceFile(sent)
<1>1. /\ sent.files = << >> /\ SourceFile(request) = T
      /\ tree' = Put(MkdirAll(tree, Parents(T)), T, "student")
  BY Normalized, NormalizedSame DEF WriteSource
<1>2. T \in Place /\ Len(T) \in 1 .. 2
  BY SourcePlace
<1>3. T # <<"harness">> /\ T # Src
  BY DEF SourceFile, Src
<1> HIDE DEF T
<1>4. T \notin DOMAIN tree
  BY <1>3 DEF Grown, Written
<1>5. ASSUME NEW d \in Parents(T) \cap DOMAIN tree
      PROVE  tree[d] = "dir"
  <2>1. d \in Place
    BY <1>2, ParentsType
  <2>2. Len(T) = 2 /\ d[1] = T[1]
    <3>1. 1 <= Len(d) /\ Len(d) < Len(T) /\ \A i \in 1 .. Len(d) : d[i] = T[i]
      BY <2>1, <1>2, IsParent
    <3>2. Len(d) \in Nat
      BY <2>1 DEF Place
    <3>3. Len(T) = 2
      <4>1. \A m \in Nat, n \in 1 .. 2 : 1 <= m /\ m < n => n = 2
        OBVIOUS
      <4> QED
        BY <3>1, <3>2, <1>2, <4>1, Zenon
    <3>4. 1 \in 1 .. Len(d)
      BY <3>1, <3>2
    <3>5. d[1] = T[1]
      BY <3>1, <3>4
    <3> QED
      BY <3>3, <3>5
  <2>3. T[1] = "src"
    <3>1. T \in {<<"source">>, Src \o <<"source">>} /\ Len(<<"source">>) = 1
      BY DEF T, SourceFile
    <3>2. (Src \o <<"source">>)[1] = "src"
      BY DEF Src
    <3> QED
      BY <3>1, <3>2, <2>2
  <2>4. d # <<"harness">>
    BY <2>2, <2>3, OwnPlaces
  <2> QED
    BY <2>4 DEF Grown, Written
<1>6. Grown' /\ Written' = Written \cup {T}
  BY <1>1, <1>2, <1>4, <1>5, Planted
<1>7. Beneath(sent) = {T}
  BY <1>1 DEF Beneath, T
<1> QED
  BY <1>1, <1>6, <1>7 DEF LacksRecipe

\* prep adds nothing of the student's and takes nothing away; and once the
\* submission is all there, none of its files had another for a directory.
LEMMA PrepKeeps ==
  ASSUME sent \in Request, Accepts(sent), request = normalize(sent),
         Grown, Written = Beneath(sent), ~LacksRecipe(sent), Prep
  PROVE  Written' = Beneath(sent) /\ Whole' /\ ~Unpreparable(sent)
<1>1. Module(request) <=> Module(sent)
  BY NormalizedSame
<1>2. \A w \in Written : w \in DOMAIN tree /\ tree[w] = "student"
  BY DEF Written
<1>3. ~(Module(sent) /\ GoMod \in DOMAIN tree /\ tree[GoMod] = "dir")
  BY <1>1 DEF Prep
<1>4. ~Nested(sent)
  <2> SUFFICES ASSUME NEW f \in Elements(sent.files), NEW g \in Elements(sent.files),
                      Above(f.path, g.path)
               PROVE  FALSE
    BY NestedIs
  <2>1. sent.files # << >>
    <3>1. DOMAIN sent.files # {}
      BY DEF Elements
    <3> QED
      BY <3>1
  <2>2. f.path \in Place /\ g.path \in Place
    BY <2>1, AcceptedFiles
  <2>3. Src \o f.path \in Written /\ Src \o g.path \in Written
    BY <2>1, SubmissionPlaces
  <2>4. Src \o f.path \in Parents(Src \o g.path)
    BY <2>2, AboveIsParent
  <2> QED
    BY <2>3, <2>4, <1>2, StudentsAreLeaves DEF Grown
<1>5. ~ModuleShadowed(sent)
  <2> SUFFICES ASSUME Module(sent), NEW f \in Elements(sent.files), Above(<<"go.mod">>, f.path)
               PROVE  FALSE
    BY NestedIs
  <2>1. sent.files # << >>
    <3>1. DOMAIN sent.files # {}
      BY DEF Elements
    <3> QED
      BY <3>1
  <2>2. f.path \in Place /\ <<"go.mod">> \in Place
    BY <2>1, AcceptedFiles, OwnPlaces
  <2>3. Src \o f.path \in Written
    BY <2>1, SubmissionPlaces
  <2>4. GoMod \in Parents(Src \o f.path)
    BY <2>2, AboveIsParent DEF GoMod
  <2>5. GoMod \in DOMAIN tree /\ tree[GoMod] = "dir"
    BY <2>3, <2>4, <1>2 DEF Grown, Whole
  <2> QED
    BY <2>5, <1>3
<1>6. CASE Module(request)
  <2>1. tree' = Put(tree, GoMod, "runner")
    BY <1>6 DEF Prep
  <2>2. /\ DOMAIN tree' = DOMAIN tree \cup {GoMod} /\ tree'[GoMod] = "runner"
        /\ \A p \in DOMAIN tree : p # GoMod => tree'[p] = tree[p]
    BY <2>1 DEF Put
  <2>3. GoMod \notin Written
    BY <1>1, <1>6, SubmissionPlaces
  <2>4. Written' = Written
    BY <2>2, <2>3 DEF Written
  <2>5. \A d \in Parents(GoMod) : d = Src
    <3> SUFFICES ASSUME NEW d \in Parents(GoMod) PROVE d = Src
      OBVIOUS
    <3>1. GoMod \in Place /\ Len(GoMod) = 2 /\ GoMod[1] = "src" /\ Src \in Place
      BY OwnPlaces, SrcPath DEF GoMod
    <3>2. d \in Place
      BY <3>1, ParentsType
    <3>3. Len(d) = 1 /\ d[1] = "src"
      <4>1. 1 <= Len(d) /\ Len(d) < Len(GoMod) /\ \A i \in 1 .. Len(d) : d[i] = GoMod[i]
        BY <3>1, <3>2, IsParent
      <4>2. Len(d) \in Nat
        BY <3>2 DEF Place
      <4>3. Len(d) = 1
        <5>1. 1 <= Len(d) /\ Len(d) < 2
          BY <4>1, <3>1
        <5>2. \A n \in Nat : 1 <= n /\ n < 2 => n = 1
          OBVIOUS
        <5> QED
          BY <5>1, <5>2, <4>2, Zenon
      <4>4. d[1] = GoMod[1]
        BY <4>1, <4>3
      <4> QED
        BY <4>3, <4>4, <3>1
    <3>4. Len(d) = Len(Src) /\ \A i \in 1 .. Len(d) : d[i] = Src[i]
      BY <3>3, OwnPlaces
    <3> QED
      BY <3>1, <3>2, <3>4, SeqEqual DEF Place
  <2>6. Src \in DOMAIN tree /\ tree[Src] = "dir" /\ Src # GoMod
    <3>1. PICK w \in Written : Src \in Parents(w)
      BY <1>1, <1>6, SubmissionPlaces
    <3>2. Len(Src) # Len(GoMod)
      BY OwnPlaces
    <3> QED
      BY <3>1, <3>2, <1>2 DEF Grown, Whole
  <2>7. Whole'
    <3> SUFFICES ASSUME NEW p \in DOMAIN tree', NEW d \in Parents(p)
                 PROVE  d \in DOMAIN tree' /\ tree'[d] = "dir"
      BY DEF Whole
    <3>1. d \in DOMAIN tree /\ tree[d] = "dir"
      BY <2>2, <2>5, <2>6 DEF Grown, Whole
    <3>2. d # GoMod
      BY <3>1, <1>1, <1>3, <1>6
    <3> QED
      BY <3>1, <3>2, <2>2
  <2> QED
    BY <2>4, <2>7, <1>4, <1>5 DEF Unpreparable
<1>7. CASE ~Module(request) /\ Classes(request)
  <2>1. tree' = MkdirAll(tree, {<<"classes">>})
    BY <1>7 DEF Prep
  <2>2. /\ DOMAIN tree' = DOMAIN tree \cup {<<"classes">>} /\ tree'[<<"classes">>] = "dir"
        /\ \A p \in DOMAIN tree : p # <<"classes">> => tree'[p] = tree[p]
    BY <2>1 DEF MkdirAll
  <2>3. sent.files # << >>
    BY <1>7, Normalized DEF Classes
  <2>4. <<"classes">> \notin Written
    BY <2>3, SubmissionPlaces, OwnPlaces
  <2>5. Written' = Written
    BY <2>2, <2>4 DEF Written
  <2>6. Whole'
    BY <2>2, OwnPlaces DEF Grown, Whole
  <2> QED
    BY <2>5, <2>6, <1>4, <1>5 DEF Unpreparable
<1>8. CASE ~Module(request) /\ ~Classes(request)
  <2>1. tree' = tree
    BY <1>8 DEF Prep
  <2>2. Written' = Written /\ Whole'
    BY <2>1 DEF Written, Grown, Whole
  <2> QED
    BY <2>2, <1>4, <1>5 DEF Unpreparable
<1> QED
  BY <1>6, <1>7, <1>8

\* The directory that go.mod meets is a parent of a file of the student's.
LEMMA PrepBlocked ==
  ASSUME sent \in Request, Accepts(sent), request = normalize(sent),
         Grown, Written = Beneath(sent), PrepFails
  PROVE  ModuleShadowed(sent)
<1>1. Module(sent) /\ GoMod \in DOMAIN tree /\ tree[GoMod] = "dir"
  BY NormalizedSame DEF PrepFails
<1>2. GoMod # Src /\ GoMod \in Place /\ Len(GoMod) = 2
  <2>1. Len(Src) # Len(GoMod)
    BY OwnPlaces
  <2> QED
    BY <2>1, OwnPlaces
<1>3. PICK w \in Beneath(sent) : GoMod \in Parents(w)
  BY <1>1, <1>2 DEF Grown
<1>4. sent.files # << >>
  <2>1. ASSUME sent.files = << >> PROVE FALSE
    <3>1. w = SourceFile(sent)
      BY <2>1, SubmissionPlaces
    <3>2. w \in Place /\ Len(w) \in 1 .. 2
      BY <3>1, SourcePlace
    <3>3. Len(GoMod) < Len(w)
      BY <3>2, <1>2, <1>3, IsParent
    <3> QED
      BY <3>2, <3>3, <1>2
  <2> QED
    BY <2>1
<1>5. PICK f \in Elements(sent.files) : w = Src \o f.path
  BY <1>4, SubmissionPlaces
<1>6. f.path \in Place /\ <<"go.mod">> \in Place
  BY <1>4, AcceptedFiles, OwnPlaces
<1>7. Above(<<"go.mod">>, f.path)
  BY <1>3, <1>5, <1>6, AboveIsParent DEF GoMod
<1> QED
  BY <1>1, <1>7, NestedIs

-------------------------------------------------------------------------------
(***************************************************************************)
(* The invariant.                                                          *)
(***************************************************************************)
LEMMA InitEstablishes == Init => IInv
<1> SUFFICES ASSUME Init PROVE IInv
  OBVIOUS
<1> USE DEF Init
<1>1. Arrived
  BY DEF Arrived
<1>2. Quiet
  BY DEF Quiet
<1>3. Stages
  BY DEF Stages
<1>4. Refusals
  BY DEF Refusals
<1> QED
  BY <1>1, <1>2, <1>3, <1>4 DEF IInv

\* What is said of the request that arrived stays as it is.
LEMMA SentStays ==
  ASSUME sent' = sent
  PROVE  /\ Unpreparable(sent)' = Unpreparable(sent) /\ Accepts(sent)' = Accepts(sent)
         /\ Decodes(sent)' = Decodes(sent) /\ normalize(sent)' = normalize(sent)
         /\ Beneath(sent)' = Beneath(sent) /\ LacksRecipe(sent)' = LacksRecipe(sent)
         /\ Builds(sent)' = Builds(sent)
OBVIOUS

\* An answer ends the request: the tree is gone, and the status has its reason.
LEMMA Ends ==
  ASSUME IInv, pc' = "answered", sent' = sent, tree' = Nothing,
         reply' = 503 /\ fault' = "none" => Unpreparable(sent),
         fault' = "artifact" => Builds(sent) /\ ~Unpreparable(sent),
         reply' = 400 => ~(Decodes(sent) /\ sent.language # "" /\ Accepts(sent))
  PROVE  IInv'
<1>1. Arrived'
  BY DEF IInv, Arrived
<1>2. Quiet'
  BY DEF Quiet
<1>3. Stages'
  BY DEF Stages
<1>4. Refusals'
  BY SentStays DEF Refusals
<1> QED
  BY <1>1, <1>2, <1>3, <1>4 DEF IInv

\* A step of the runtime leaves the request alone and gives no answer.
LEMMA Goes ==
  ASSUME IInv, Stages', UNCHANGED <<request, sent, reply, fault>>,
         pc \in {"accepted", "workdir", "writing", "written"},
         pc' \in {"workdir", "writing", "written", "prepared"}
  PROVE  IInv'
<1>1. Arrived'
  BY SentStays DEF IInv, Arrived
<1>2. reply = 0 /\ reply' = 0 /\ fault = "none" /\ fault' = "none"
  BY DEF IInv, Quiet
<1>3. Quiet'
  BY <1>2 DEF Quiet
<1>4. Refusals'
  BY <1>2 DEF Refusals
<1> QED
  BY <1>1, <1>3, <1>4 DEF IInv

LEMMA MakeWorkDirStep ==
  ASSUME IInv, MakeWorkDir
  PROVE  IInv'
<1>1. tree' = Put(Nothing, <<"harness">>, "runner") \/ tree' = Nothing
  BY DEF MakeWorkDir
<1>2. DOMAIN tree' \subseteq {<<"harness">>} /\ \A p \in DOMAIN tree' : tree'[p] = "runner"
  BY <1>1 DEF Put, Nothing
<1>3. Written' = {}
  BY <1>2 DEF Written
<1>4. Grown'
  BY <1>2, OwnPlaces DEF Grown, Whole
<1>5. Stages'
  BY <1>3, <1>4 DEF Stages, MakeWorkDir
<1> QED
  BY <1>5, Goes DEF MakeWorkDir

LEMMA MaterializeStep ==
  ASSUME IInv, Materialize
  PROVE  IInv'
<1>1. /\ sent \in Request /\ Accepts(sent) /\ request = normalize(sent)
      /\ Grown /\ Written = {}
  BY RequestsAre DEF IInv, Arrived, Stages, Materialize
<1>2. sent.files # << >> /\ ~LacksRecipe(sent)
  BY <1>1, Normalized, NormalizedSame DEF Materialize
<1>3. Revalidates(request)
  BY <1>1, <1>2, Revalidated
<1>4. /\ tree' = MkdirAll(tree, {Src}) /\ todo' = Sorted(request.files)
      /\ pc = "workdir" /\ pc' = "writing" /\ UNCHANGED <<request, sent, reply, fault>>
  BY <1>3 DEF Materialize
<1>5. /\ request.files \in Seq(File) /\ Distinct(request.files)
      /\ Elements(request.files) = Elements(sent.files)
  BY <1>1, <1>2, Normalized
<1>6. todo' \in Seq(File) /\ Distinct(todo') /\ Elements(todo') = Elements(sent.files)
  BY <1>4, <1>5, SortedWorks
<1>7. /\ DOMAIN tree' = DOMAIN tree \cup {Src} /\ tree'[Src] = "dir"
      /\ \A p \in DOMAIN tree : p # Src => tree'[p] = tree[p]
  BY <1>4 DEF MkdirAll
<1>8. Written' = {}
  BY <1>1, <1>7 DEF Written
<1>9. Parents(Src) = {} /\ Src \in Place
  <2>1. Len(Src) = 1
    BY OwnPlaces
  <2> QED
    BY <2>1, OwnPlaces DEF Parents
<1>10. Grown'
  <2>1. \A p \in DOMAIN tree : \/ tree[p] = "dir" /\ p = Src
                               \/ tree[p] = "runner" /\ p = <<"harness">>
    BY <1>1 DEF Grown, Written
  <2>2. Whole'
    BY <2>1, <1>7, <1>9, OwnPlaces DEF Whole
  <2> QED
    BY <2>1, <2>2, <1>1, <1>7, <1>9 DEF Grown
<1>11. Beneath(sent) = {Src \o f.path : f \in Elements(sent.files)}
  BY <1>1, <1>2, SubmissionPlaces
<1>12. Writing'
  <2>1. /\ sent'.files # << >> /\ ~LacksRecipe(sent)'
        /\ Elements(todo)' \subseteq Elements(sent.files)'
    BY <1>2, <1>4, <1>6, SentStays
  <2>2. Written' \cup {Src \o f.path : f \in Elements(todo')} = Beneath(sent)'
    BY <1>4, <1>6, <1>8, <1>11, SentStays
  <2> QED
    BY <2>1, <2>2, <1>6, <1>8 DEF Writing
<1>13. Stages'
  BY <1>4, <1>10, <1>12 DEF Stages
<1> QED
  BY <1>4, <1>13, Goes

LEMMA WriteStep ==
  ASSUME IInv, WriteSource \/ WriteFile \/ AllWritten
  PROVE  IInv'
<1>1. sent \in Request /\ Accepts(sent) /\ request = normalize(sent)
  BY RequestsAre DEF IInv, Arrived, WriteSource, WriteFile, AllWritten
<1>2. CASE WriteSource
  <2>1. Grown /\ Written = {}
    BY <1>2 DEF IInv, Stages, WriteSource
  <2>2. Grown' /\ Written' = Beneath(sent) /\ ~LacksRecipe(sent)
    BY <2>1, <1>1, <1>2, WriteSourceGrows
  <2>3. Stages'
    BY <2>2, <1>2, SentStays DEF Stages, WriteSource
  <2> QED
    BY <2>3, <1>2, Goes DEF WriteSource
<1>3. CASE WriteFile
  <2>1. Grown /\ Writing
    BY <1>3 DEF IInv, Stages, WriteFile
  <2>2. Grown' /\ Writing'
    BY <2>1, <1>1, <1>3, WriteFileGrows
  <2>3. Stages'
    BY <2>2, <1>3 DEF Stages, WriteFile
  <2> QED
    BY <2>3, <1>3, Goes DEF WriteFile
<1>4. CASE AllWritten
  <2>1. Grown /\ Writing
    BY <1>4 DEF IInv, Stages, AllWritten
  <2>2. Elements(todo) = {}
    BY <1>4 DEF AllWritten, Elements
  <2>3. Written = Beneath(sent) /\ ~LacksRecipe(sent)
    BY <2>1, <2>2 DEF Writing
  <2>4. Grown' /\ Written' = Written
    BY <2>1, <1>4 DEF AllWritten, Grown, Written, Whole
  <2>5. Stages'
    BY <2>3, <2>4, <1>4, SentStays DEF Stages, AllWritten
  <2> QED
    BY <2>5, <1>4, Goes DEF AllWritten
<1> QED
  BY <1>2, <1>3, <1>4

LEMMA PrepStep ==
  ASSUME IInv, Prep
  PROVE  IInv'
<1>1. /\ sent \in Request /\ Accepts(sent) /\ request = normalize(sent)
      /\ Grown /\ Written = Beneath(sent) /\ ~LacksRecipe(sent)
  BY RequestsAre DEF IInv, Arrived, Stages, Prep
<1>2. Written' = Beneath(sent) /\ Whole' /\ ~Unpreparable(sent)
  BY <1>1, PrepKeeps
<1>3. Stages'
  BY <1>2, SentStays DEF Stages, Prep
<1> QED
  BY <1>3, Goes DEF Prep

\* The failures of the runtime, each with its reason.
LEMMA FailStep ==
  ASSUME IInv, NoRecipe \/ WriteFileFails \/ PrepFails \/ HostFails \/ ArtifactUnfit
  PROVE  IInv'
<1>1. sent \in Request /\ (pc # "answered" => (pc \in {"workdir", "writing", "written", "prepared"} =>
                              Accepts(sent) /\ request = normalize(sent)))
  BY RequestsAre DEF IInv, Arrived
<1>2. pc' = "answered" /\ reply' = 503 /\ sent' = sent /\ tree' = Nothing
  BY DEF NoRecipe, WriteFileFails, PrepFails, HostFails, ArtifactUnfit, Fail, Answer
<1>3. fault' = "none" => Unpreparable(sent)
  <2>1. CASE NoRecipe
    <3>1. LacksRecipe(sent)
      BY <2>1, <1>1, NormalizedSame DEF NoRecipe
    <3> QED
      BY <3>1 DEF Unpreparable
  <2>2. CASE WriteFileFails
    <3>1. Nested(sent)
      BY <2>2, <1>1, BlockedIsNested DEF WriteFileFails, IInv, Stages
    <3> QED
      BY <3>1 DEF Unpreparable
  <2>3. CASE PrepFails
    <3>1. pc = "written"
      BY <2>3 DEF PrepFails
    <3>2. Grown /\ Written = Beneath(sent)
      BY <3>1 DEF IInv, Stages
    <3>3. ModuleShadowed(sent)
      BY <2>3, <3>1, <3>2, <1>1, PrepBlocked
    <3> QED
      BY <3>3 DEF Unpreparable
  <2>4. CASE HostFails \/ ArtifactUnfit
    BY <2>4 DEF HostFails, ArtifactUnfit
  <2> QED
    BY <2>1, <2>2, <2>3, <2>4
<1>4. fault' = "artifact" => Builds(sent) /\ ~Unpreparable(sent)
  <2>1. CASE NoRecipe \/ WriteFileFails \/ PrepFails \/ HostFails
    <3>1. fault' = "none" \/ fault' = "host"
      BY <2>1 DEF NoRecipe, WriteFileFails, PrepFails, HostFails, IInv, Quiet
    <3> QED
      BY <3>1
  <2>2. CASE ArtifactUnfit
    <3>1. pc = "prepared" /\ Builds(request)
      BY <2>2 DEF ArtifactUnfit
    <3>2. request.language = sent.language /\ request.mode = sent.mode
      BY <3>1, <1>1, Normalized
    <3>3. Builds(sent)
      BY <3>1, <3>2 DEF Builds
    <3>4. ~Unpreparable(sent)
      BY <3>1 DEF IInv, Stages
    <3> QED
      BY <3>3, <3>4
  <2> QED
    BY <2>1, <2>2
<1> QED
  BY <1>2, <1>3, <1>4, Ends

\* decode, Service and the end.
LEMMA OuterStep ==
  ASSUME IInv, Undecodable \/ Decode \/ Reject \/ Accept \/ Executed \/ UNCHANGED vars
  PROVE  IInv'
<1>1. CASE Undecodable \/ Reject
  <2>1. /\ pc \in {"received", "decoded"} /\ sent' = sent /\ tree' = tree
        /\ pc' = "answered" /\ reply' = 400
    BY <1>1 DEF Undecodable, Reject, Answer
  <2>2. request = sent
    BY <2>1 DEF IInv, Arrived
  <2>3. tree' = Nothing
    BY <2>1 DEF IInv, Quiet
  <2>4. ~(Decodes(sent) /\ sent.language # "" /\ Accepts(sent))
    BY <1>1, <2>2 DEF Undecodable, Reject
  <2>6. fault' = fault
    BY <1>1 DEF Undecodable, Reject
  <2>7. fault = "none"
    BY <2>1 DEF IInv, Quiet
  <2>5. reply' # 503 /\ fault' = "none"
    BY <2>1, <2>6, <2>7
  <2> QED
    BY <2>1, <2>3, <2>4, <2>5, Ends
<1>2. CASE Decode
  <2>1. Arrived' /\ Quiet'
    BY <1>2 DEF Decode, IInv, Arrived, Quiet
  <2>2. Stages'
    BY <1>2 DEF Decode, Stages
  <2>3. reply' = 0 /\ fault' = "none"
    BY <1>2 DEF Decode, IInv, Quiet
  <2>4. Refusals'
    BY <2>3 DEF Refusals
  <2> QED
    BY <2>1, <2>2, <2>4 DEF IInv
<1>3. CASE Accept
  <2>1. Arrived'
    BY <1>3, SentStays DEF Accept, IInv, Arrived
  <2>2. Quiet' /\ reply' = 0 /\ fault' = "none"
    BY <1>3 DEF Accept, IInv, Quiet
  <2>3. Stages'
    BY <1>3 DEF Accept, Stages
  <2>4. Refusals'
    BY <2>2 DEF Refusals
  <2> QED
    BY <2>1, <2>2, <2>3, <2>4 DEF IInv
<1>4. CASE Executed
  <2>1. /\ pc' = "answered" /\ reply' = 200 /\ sent' = sent /\ tree' = Nothing
        /\ fault' = "none"
    BY <1>4 DEF Executed, Answer, IInv, Quiet
  <2> QED
    BY <2>1, Ends
<1>5. CASE UNCHANGED vars
  <2>1. /\ pc' = pc /\ request' = request /\ sent' = sent /\ todo' = todo /\ tree' = tree
        /\ reply' = reply /\ fault' = fault
    BY <1>5 DEF vars
  <2>2. Arrived' /\ Quiet'
    BY <2>1, SentStays DEF IInv, Arrived, Quiet
  <2>6. Refusals'
    BY <2>1, SentStays DEF IInv, Refusals
  <2>3. Written' = Written /\ Whole' = Whole /\ Grown' = Grown
    BY <2>1 DEF Written, Whole, Grown
  <2>4. Writing' = Writing
    BY <2>1, <2>3, SentStays DEF Writing, Elements, Distinct
  <2>5. Stages'
    BY <2>1, <2>3, <2>4, SentStays DEF IInv, Stages
  <2> QED
    BY <2>2, <2>5, <2>6 DEF IInv
<1> QED
  BY <1>1, <1>2, <1>3, <1>4, <1>5

LEMMA NextPreserves == IInv /\ [Next]_vars => IInv'
<1> SUFFICES ASSUME IInv, [Next]_vars PROVE IInv'
  OBVIOUS
<1>1. CASE Undecodable \/ Decode \/ Reject \/ Accept \/ Executed \/ Answered \/ UNCHANGED vars
  BY <1>1, OuterStep DEF Answered
<1>2. CASE MakeWorkDir
  BY <1>2, MakeWorkDirStep
<1>3. CASE Materialize
  BY <1>3, MaterializeStep
<1>4. CASE WriteSource \/ WriteFile \/ AllWritten
  BY <1>4, WriteStep
<1>5. CASE Prep
  BY <1>5, PrepStep
<1>6. CASE NoRecipe \/ WriteFileFails \/ PrepFails \/ HostFails \/ ArtifactUnfit
  BY <1>6, FailStep
<1> QED
  BY <1>1, <1>2, <1>3, <1>4, <1>5, <1>6 DEF Next, Prepare

\* The invariant of a submission's way to disk holds of every behaviour.
THEOREM Invariance == Spec => []IInv
<1>1. Init => IInv
  BY InitEstablishes
<1>2. IInv /\ [Next]_vars => IInv'
  BY NextPreserves
<1> QED
  BY <1>1, <1>2, PTL DEF Spec

-------------------------------------------------------------------------------
(***************************************************************************)
(* The theorems.                                                           *)
(***************************************************************************)
\* The jails get the submission, all of it and nothing else of the student's,
\* in directories that exist (MaterializeFiles, plan's prep).
THEOREM TreeIsTheSubmission == Spec => []TreeIsSubmission
<1>1. IInv => TreeIsSubmission
  BY DEF IInv, Stages, Written, Whole, TreeIsSubmission
<1> QED
  BY <1>1, Invariance, PTL

\* A 503 has its reason: the host failed, or one of the three reasons of
\* Unpreparable, which no prepared tree has, or compile found the artifact of
\* a prepared tree unfit (materializeSource, plan, prep, compile).
THEOREM FailuresAreExplained == Spec => []FailuresExplained
<1>1. IInv => FailuresExplained
  BY DEF IInv, Stages, Refusals, FailuresExplained
<1> QED
  BY <1>1, Invariance, PTL

\* What validatePaths has seen of a submitted file holds of its place in the
\* workdir.
LEMMA PlaceIsAllowed ==
  ASSUME NEW s \in Request, Accepts(s), s.files # << >>, NEW w \in Beneath(s)
  PROVE  LET pol == Registry(s.mode)[s.language]
         IN Base(w) \notin pol.forbiddenNames /\ \A i \in DOMAIN w : w[i] \notin pol.forbiddenComponents
<1> DEFINE pol == Registry(s.mode)[s.language]
<1>1. PICK f \in Elements(s.files) : w = Src \o f.path
  BY SubmissionPlaces
<1>2. f.path \in Place /\ f.path # << >> /\ validatePath(f.path, pol, Caps)
  BY AcceptedFiles
<1>3. "src" \notin pol.forbiddenComponents
  BY AcceptedFiles, Tables
<1> HIDE DEF pol
<1>4. Base(w) \notin pol.forbiddenNames
  BY <1>1, <1>2, SrcBase DEF validatePath
<1>5. \A i \in DOMAIN f.path : f.path[i] \notin pol.forbiddenComponents
  BY <1>2 DEF validatePath
<1>6. ASSUME NEW i \in DOMAIN w PROVE w[i] \notin pol.forbiddenComponents
  <2>1. /\ w \in Place /\ Len(w) = Len(f.path) + 1 /\ w[1] = "src"
        /\ \A j \in 1 .. Len(f.path) : w[j + 1] = f.path[j]
    BY <1>1, <1>2, SrcPath
  <2>2. /\ DOMAIN w = 1 .. Len(w) /\ DOMAIN f.path = 1 .. Len(f.path)
        /\ Len(f.path) \in Nat /\ Len(w) \in Nat
    BY <1>2, <2>1 DEF Place
  <2>3. CASE i = 1
    BY <2>1, <2>3, <1>3
  <2>4. CASE i # 1
    <3>1. i - 1 \in 1 .. Len(f.path) /\ (i - 1) + 1 = i
      BY <2>1, <2>2, <2>4
    <3>2. w[i] = f.path[i - 1] /\ i - 1 \in DOMAIN f.path
      BY <3>1, <2>1, <2>2
    <3> QED
      BY <3>2, <1>5
  <2> QED
    BY <2>3, <2>4
<1> QED
  BY <1>4, <1>6 DEF pol

\* No manifest and no dependency directory of the student's is ever on disk
\* (ForbiddenNames, ForbiddenComponents).
THEOREM NoManifestIsOnDisk == Spec => []NoManifestOnDisk
<1>1. ASSUME IInv PROVE NoManifestOnDisk
  <2> SUFFICES ASSUME NEW p \in DOMAIN tree, tree[p] = "student", request.files # << >>
               PROVE  LET pol == Registry(request.mode)[request.language]
                      IN /\ Base(p) \notin pol.forbiddenNames
                         /\ \A i \in DOMAIN p : p[i] \notin pol.forbiddenComponents
    BY DEF NoManifestOnDisk
  <2>1. p \in Written /\ tree # Nothing
    BY DEF Written, Nothing
  <2>2. pc \in {"workdir", "writing", "written", "prepared"}
    BY <1>1, <2>1 DEF IInv, Quiet, Arrived
  <2>3. sent \in Request /\ Accepts(sent) /\ request = normalize(sent)
    BY <1>1, <2>2, RequestsAre DEF IInv, Arrived
  <2>4. p \in Beneath(sent)
    BY <1>1, <2>1, <2>2 DEF IInv, Stages, Writing
  <2>5. sent.files # << >> /\ request.mode = sent.mode /\ request.language = sent.language
    BY <2>3, Normalized
  <2> QED
    BY <2>3, <2>4, <2>5, PlaceIsAllowed
<1> QED
  BY <1>1, Invariance, PTL

\* The entrypoint a recipe names is a file of the tree, and there is a unit to
\* compile (resolveEntrypoint, hasCompileUnit).
THEOREM EntriesAreWritten == Spec => []EntryIsWritten
<1>1. ASSUME IInv PROVE EntryIsWritten
  <2> SUFFICES ASSUME pc = "prepared", request.files # << >>
               PROVE  LET pol == Registry(request.mode)[request.language]
                      IN /\ request.mode # "test" /\ ~pol.entryIsClass =>
                              /\ Src \o request.entrypoint \in DOMAIN tree
                              /\ tree[Src \o request.entrypoint] = "student"
                         /\ pol.compileExts # {} =>
                              \E p \in DOMAIN tree : tree[p] = "student" /\ Ext(Base(p)) \in pol.compileExts
    BY DEF EntryIsWritten
  <2> DEFINE pol == Registry(sent.mode)[sent.language]
  <2>1. /\ sent \in Request /\ Accepts(sent) /\ request = normalize(sent)
        /\ Written = Beneath(sent)
    BY <1>1, RequestsAre DEF IInv, Arrived, Stages
  <2>2. /\ sent.files # << >> /\ request.mode = sent.mode /\ request.language = sent.language
        /\ sent.mode # "test" => request.entrypoint = Entry(sent, pol)
    BY <2>1, Normalized
  <2>3. /\ validatePaths(sent.files, pol, Caps)
        /\ sent.mode # "test" => resolveEntrypoint(sent, pol)
        /\ \A f \in Elements(sent.files) : f.path \in Place /\ f.path # << >>
    BY <2>1, <2>2, AcceptedFiles
  <2>4. \A f \in Elements(sent.files) : Src \o f.path \in DOMAIN tree /\ tree[Src \o f.path] = "student"
    <3>1. Written = {Src \o f.path : f \in Elements(sent.files)}
      BY <2>1, <2>2, SubmissionPlaces
    <3> QED
      BY <3>1 DEF Written
  <2> HIDE DEF pol
  <2>5. ASSUME sent.mode # "test", ~pol.entryIsClass
        PROVE  /\ Src \o request.entrypoint \in DOMAIN tree
               /\ tree[Src \o request.entrypoint] = "student"
    <3>1. PICK i \in DOMAIN sent.files : sent.files[i].path = Entry(sent, pol)
      BY <2>3, <2>5 DEF resolveEntrypoint
    <3>2. sent.files[i] \in Elements(sent.files) /\ request.entrypoint = sent.files[i].path
      BY <3>1, <2>2, <2>5 DEF Elements
    <3> QED
      BY <3>2, <2>4
  <2>6. ASSUME pol.compileExts # {}
        PROVE  \E p \in DOMAIN tree : tree[p] = "student" /\ Ext(Base(p)) \in pol.compileExts
    <3>1. PICK i \in DOMAIN sent.files : Ext(Base(sent.files[i].path)) \in pol.compileExts
      BY <2>3, <2>6 DEF validatePaths
    <3> DEFINE w == Src \o sent.files[i].path
    <3>2. sent.files[i] \in Elements(sent.files)
      BY DEF Elements
    <3>3. w \in DOMAIN tree /\ tree[w] = "student"
      BY <3>2, <2>4
    <3>4. Base(w) = Base(sent.files[i].path)
      BY <3>2, <2>3, SrcBase
    <3> QED
      BY <3>1, <3>3, <3>4
  <2> QED
    BY <2>2, <2>5, <2>6 DEF pol
<1> QED
  BY <1>1, Invariance, PTL

\* Every order of a request's files is accepted or none is, and they lead to the
\* same canonical request (validatePaths, normalize).
THEOREM OrderDoesNotMatter == Spec => []OrderIndependent
<1>1. ASSUME IInv PROVE OrderIndependent
  <2>1. sent \in Request
    BY <1>1, RequestsAre DEF IInv, Arrived
  <2>2. ASSUME pc = "accepted", NEW q \in Orders(sent)
        PROVE  Accepts(q) /\ normalize(q) = request
    <3>1. Accepts(sent) /\ request = normalize(sent)
      BY <1>1, <2>2 DEF IInv, Arrived
    <3> QED
      BY <3>1, <2>1, OrderSame
  <2>3. ASSUME pc = "answered", reply = 400, NEW q \in Orders(sent)
        PROVE  ~(Decodes(q) /\ q.language # "" /\ Accepts(q))
    <3>1. ~(Decodes(sent) /\ sent.language # "" /\ Accepts(sent))
      BY <1>1, <2>3 DEF IInv, Refusals
    <3>2. q \in Request /\ sent \in Orders(q) /\ q.language = sent.language
      BY <2>1, OrderSame
    <3>3. Decodes(sent) <=> Decodes(q)
      BY <3>2, OrderSame
    <3>4. Accepts(q) => Accepts(sent)
      BY <3>2, OrderSame
    <3> QED
      BY <3>1, <3>2, <3>3, <3>4
  <2>4. pc = "accepted" => \A q \in Orders(sent) : Accepts(q) /\ normalize(q) = request
    BY <2>2
  <2>5. pc = "answered" /\ reply = 400 =>
          \A q \in Orders(sent) : ~(Decodes(q) /\ q.language # "" /\ Accepts(q))
    BY <2>3
  <2> QED
    BY <2>4, <2>5 DEF OrderIndependent
<1> QED
  BY <1>1, Invariance, PTL

\* materialize.go:117 "can never widen or narrow": the second validation, which
\* has no caps, finds nothing to refuse in what normalize let through.
THEOREM SecondValidationAgrees ==
  Spec => [](pc = "workdir" /\ request.files # << >> => Revalidates(request))
<1>1. ASSUME IInv, pc = "workdir", request.files # << >> PROVE Revalidates(request)
  <2>1. sent \in Request /\ Accepts(sent) /\ request = normalize(sent)
    BY <1>1, RequestsAre DEF IInv, Arrived
  <2>2. sent.files # << >>
    BY <2>1, <1>1, Normalized
  <2> QED
    BY <2>1, <2>2, Revalidated
<1>2. IInv => (pc = "workdir" /\ request.files # << >> => Revalidates(request))
  BY <1>1
<1> QED
  BY <1>2, Invariance, PTL

================================================================================
