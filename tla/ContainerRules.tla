--------------------------- MODULE ContainerRules ---------------------------
(***************************************************************************)
(* What a .poid archive may hold: the checks poid-core makes when it packs *)
(* and when it opens a container (write.rs, read.rs, paths.rs, limits.rs,  *)
(* manifest.rs), and what the CLI takes from a project directory           *)
(* (poid-cli/src/project.rs).                                              *)
(*                                                                         *)
(* A path is a sequence of segments.  A file has its path, its size, its   *)
(* compressed size and its content: "bytes", "native" (an executable       *)
(* magic), "opaque" (the ZIP magic, but no archive) or "archive".  The     *)
(* entries of a file are those of the archive and of every archive in it,  *)
(* however deep: each with the same fields, the archive it is an entry of, *)
(* its depth (2 for those of the file itself), and the kind and the        *)
(* compression method that an archive from elsewhere may give it.          *)
(***************************************************************************)
EXTENDS Integers, Sequences, FiniteSets, FiniteSetsExt

CONSTANTS
    MaxEntries,   \* Limits: entries in one archive
    Budget,       \* Limits: uncompressed bytes, nested archives included
    MaxRatio,     \* Limits: uncompressed bytes per compressed byte
    Grace,        \* Limits: the size below which the ratio does not matter
    MaxDepth,     \* Limits: nesting of archives, the container being 1
    Lower,        \* a segment in lower case, for those that are not
    Hidden,       \* segments that begin with a dot
    PoidFiles,    \* segments that end in .poid
    Stdlib        \* the Standard Library: specifier -> the imports it needs

-----------------------------------------------------------------------------
(* Paths.                                                                  *)

(* check_container_path: the segments that are refused wherever they       *)
(* occur; a drive letter only matters in front.                            *)
PathOk(path) ==
    /\ path # << >> /\ path[1] # "C:"
    /\ \A i \in DOMAIN path : path[i] \notin {"", ".", "..", "back\\slash", "nul"}

Folded(path) == [i \in DOMAIN path |-> IF path[i] \in DOMAIN Lower THEN Lower[path[i]] ELSE path[i]]

(* Names are unique whatever their case.                                   *)
FoldUnique(files) == \A f, g \in files : Folded(f.path) = Folded(g.path) => f = g

Under(files, dir) == \E f \in files : Len(f.path) > 1 /\ f.path[1] = dir

-----------------------------------------------------------------------------
(* Content.                                                                *)

(* check_not_special and check_method: regular files, stored or deflated.  *)
(* Inside a nested archive only links are looked for.                      *)
EntryOk(f, depth) ==
    /\ f.kind # "link" /\ (depth = 1 => f.kind # "special")
    /\ f.method \in {"stored", "deflated"}

(* read_limited, the ratio; the budget is shared, see Bytes.               *)
RatioOk(f) == f.size <= Grace \/ f.size <= f.packed * MaxRatio

(* scan_content: no executable, and no archive nested too deeply.          *)
ContentOk(f, depth) ==
    /\ f.content # "native"
    /\ f.content \in {"opaque", "archive"} => depth < MaxDepth

(* scan_nested_zip, for one of the entries of f: it would do at the top,   *)
(* its content is scanned in turn, and the archive it is in has not too    *)
(* many of them.                                                           *)
InsideOk(f, e) ==
    /\ EntryOk(e, e.depth) /\ PathOk(e.path) /\ RatioOk(e) /\ ContentOk(e, e.depth)
    /\ Cardinality({g \in f.entries : g.of = e.of}) <= MaxEntries

(* Mutant: the entries of a nested archive are not scanned in turn.        *)
ScanShallow(f) ==
    ContentOk(f, 1) /\ \A e \in f.entries : e.depth = 2 => InsideOk(f, e)

(* A file and everything in it.                                            *)
Scan(f) == ContentOk(f, 1) /\ \A e \in f.entries : InsideOk(f, e)

(* What a scan of f takes from the budget, f itself left out.              *)
Bytes(f) == MapThenSumSet(LAMBDA e : e.size, f.entries)

-----------------------------------------------------------------------------
(* Manifests: the type, the blocks that are given and the malformed fields.*)

(* Manifest::validate: the blocks a type needs, and the fields looked at.  *)
Required(type) ==
    {"integrity"} \cup
    CASE type = "data"      -> {"data_ref"}
      [] type = "workspace" -> {"app", "instance", "runtime", "storage", "permissions"}
      [] type = "app"       -> {"app", "instance", "runtime", "storage", "permissions", "entry"}

ValidateBlocks(m) ==
    /\ m.poid = "1.0"
    /\ Required(m.type) \subseteq m.given
    /\ m.malformed \cap Required(m.type) = {}

(* The rules of each type, the same in the reader and in the writer.       *)
TypeRules(m, files) ==
    CASE m.type = "data"      -> \A dir \in {"app", "src", "deps"} : ~Under(files, dir)
      [] m.type = "app"       -> Under(files, "app") /\ \E f \in files : f.path = m.entry
      [] m.type = "workspace" -> Under(files, "app") /\ Under(files, "apps")

-----------------------------------------------------------------------------
(* The rules pack and open share: names, prohibited content, the manifest. *)
Admissible(m, files) ==
    /\ \A f \in files : PathOk(f.path) /\ Scan(f)
    /\ FoldUnique(files)
    /\ ValidateBlocks(m)
    /\ TypeRules(m, files)

(* What pack checks of the files of a project beside them: the names it    *)
(* reserves, and the budget for nested archives alone.                     *)
WriterAccepts(m, files) ==
    /\ Admissible(m, files)
    /\ \A f \in files : f.path # <<"mimetype">> /\ f.path # <<"manifest.json">>
    /\ MapThenSumSet(Bytes, files) <= Budget

(* The limits of open on the archive as a whole: the manifest and the      *)
(* mimetype are entries too, and the manifest is read twice.               *)
WithinLimits(m, files) ==
    /\ Cardinality(files) + 2 <= MaxEntries
    /\ 2 * m.size + 1 + MapThenSumSet(LAMBDA f : f.size + Bytes(f), files) <= Budget

(* What open checks of the archive pack writes from them.                  *)
ReaderAccepts(m, files) ==
    /\ Admissible(m, files)
    /\ \A f \in files : EntryOk(f, 1) /\ RatioOk(f)
    /\ WithinLimits(m, files)

-----------------------------------------------------------------------------
(* Collecting a project.                                                   *)

SkipDirs == {"node_modules", "target", "dist"}

SkipRootFiles ==
    {"package.json", "package-lock.json", "pnpm-lock.yaml", "yarn.lock", "tsconfig.json",
     "vite.config.ts", "vite.config.js", "eslint.config.js", "postcss.config.js", "poid.json"}

(* collect_files, walk: nothing hidden, no build output, no tooling at the *)
(* root and no container.                                                  *)
Collected(dir) ==
    { f \in dir :
        LET n == Len(f.path) IN
        /\ \A i \in 1..n : f.path[i] \notin Hidden
        /\ \A i \in 1..(n - 1) : f.path[i] \notin SkipDirs
        /\ n = 1 => f.path[1] \notin SkipRootFiles
        /\ f.path[n] \notin PoidFiles }

(* build_app: the trees that travel at the root of the container.          *)
AtRoot(f) == f.path[1] \in {"data", "deps", "migrations"}

(* stdlib::resolve: the imports of the sources, and in turn those of every *)
(* package selected; one that is missing refuses the build.                *)
Resolves(imports) ==
    \E selected \in SUBSET DOMAIN Stdlib :
        imports \subseteq selected /\ \A i \in selected : Stdlib[i] \subseteq selected

Index == [path |-> <<"app", "index.html">>, kind |-> "file", method |-> "deflated",
          size |-> 1, packed |-> 1, content |-> "bytes", entries |-> {}]

(* build_app: static content packs as it is; a build turns the sources,    *)
(* the styles and the document into one index.html.                        *)
Built(files, kind) ==
    LET rest == { f \in files : ~AtRoot(f) /\ (kind = "sources" => ~f.consumed) }
        placed(f) == [Index EXCEPT !.path = IF AtRoot(f) THEN f.path ELSE <<"app">> \o f.path,
                                   !.size = f.size, !.packed = f.packed,
                                   !.content = f.content, !.entries = f.entries]
    IN  { placed(f) : f \in rest \cup { f \in files : AtRoot(f) } }
        \cup (IF kind = "sources" THEN {Index} ELSE {})
=============================================================================
