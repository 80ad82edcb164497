---------------------------- MODULE MCContainers ----------------------------
(* Instances of Containers.                                                *)
EXTENDS Containers, TLC

CONSTANTS cli, reader

\* Any program may run any operation.
Symmetry == Permutations({cli, reader})

\* Files of a project directory, and entries of the archives in it.
File(path, content) ==
    [path |-> path, kind |-> "file", method |-> "deflated", size |-> 1, packed |-> 1,
     content |-> content, entries |-> {}, consumed |-> FALSE]
Entry(of, depth, path, content) ==
    [path |-> path, of |-> of, depth |-> depth, kind |-> "file", method |-> "deflated",
     size |-> 1, packed |-> 1, content |-> content]
Zip(path, entries) == [File(path, "archive") EXCEPT !.entries = entries, !.size = 2]

Page  == File(<<"index.html">>, "bytes")
Wheel == Zip(<<"deps", "numpy.whl">>, {Entry("numpy.whl", 2, <<"numpy", "init.py">>, "bytes")})

\* What pack leaves behind, native code among it.
Tooling ==
    { File(<<".git", "hook">>, "native"), File(<<"node_modules", "esbuild">>, "native"),
      File(<<"src", "target", "tool">>, "native"), File(<<"poid.json">>, "bytes"),
      File(<<"old.poid">>, "archive") }

AppManifest == [ConvertedManifest EXCEPT !.size = 2]

Project(app, prog, perms, mode) ==
    [app |-> app, local |-> "local." \o prog, prog |-> prog, perms |-> perms, mode |-> mode,
     requires |-> FALSE, data |-> Absent, kind |-> "static", entry |-> FALSE,
     imports |-> {}, manifest |-> AppManifest, dir |-> {Page}]

Other == Project("other", "o0", {}, "embedded")

\* Additions to a project that a rule refuses: the limit of nesting,
\* prohibited content at each depth, and names.
Nested(e) == {Zip(<<"deps", "outer.whl">>, {[Entry("outer.whl", 2, <<"inner.whl">>, "archive") EXCEPT !.size = 2], e})}
Inner(path, content) == Entry("inner.whl", 3, path, content)
Flat(e) == {Zip(<<"a.zip">>, {e})}
Refused ==
    << {File(<<"tool.exe">>, "native")},
       Nested(Inner(<<"lib.so">>, "native")),
       Nested(Inner(<<"too", "deep.whl">>, "archive")),
       Nested(Inner(<<"too-deep.whl">>, "opaque")),
       Nested([Inner(<<"link">>, "bytes") EXCEPT !.kind = "link"]),
       Flat([Entry("a.zip", 2, <<"x">>, "bytes") EXCEPT !.method = "lzma"]),
       Flat(Entry("a.zip", 2, <<"..", "x">>, "bytes")),
       Flat([Entry("a.zip", 2, <<"bomb">>, "bytes") EXCEPT !.size = 30]),
       {Zip(<<"a.zip">>, {Entry("a.zip", 2, <<ToString(n)>>, "bytes") : n \in 1..10})},
       {File(<<"App.js">>, "bytes"), File(<<"app.js">>, "bytes")},
       {[File(<<"bomb">>, "bytes") EXCEPT !.size = 9]},
       {[File(<<"movie">>, "bytes") EXCEPT !.size = 99, !.packed = 99]},
       {File(<<n>>, "bytes") : n \in {"1", "2", "3", "4", "5", "6", "7", "8"}} >>

\* Manifests that validate or the rules of the type refuse, each with a file that
\* fills the budget: the manifest a conversion writes would not fit any more.
Tiny   == [AppManifest EXCEPT !.size = 0]
Filler == [File(<<"assets", "movie">>, "bytes") EXCEPT !.size = 38, !.packed = 38]

Malformed ==
    << [Tiny EXCEPT !.poid = "2.0"],
       [Tiny EXCEPT !.malformed = {"app"}],
       [Tiny EXCEPT !.given = @ \ {"permissions"}],
       [Tiny EXCEPT !.entry = <<"app", "main.html">>],
       [Tiny EXCEPT !.type = "workspace"],
       [Tiny EXCEPT !.type = "data", !.given = Required("data")] >>

\* Versions of one application in two storage modes, also converted, each asking
\* for what the other does not, and one without the connection it needs; an
\* application that ships data and keeps it in the vault, one that is not built,
\* and what the rules refuse.
MCProjects ==
    { [Project("kanban", "v1", {"network"}, "embedded") EXCEPT
         !.local = "local.kanban", !.data = {"k1"}, !.dir = {Page, Wheel} \cup Tooling],
      [Project("kanban", "v2", {"clipboard"}, "connection") EXCEPT
         !.local = "local.kanban", !.requires = TRUE,
         !.kind = "sources", !.entry = TRUE, !.imports = {"react"},
         !.dir = {Page, [File(<<"main.tsx">>, "bytes") EXCEPT !.consumed = TRUE]}],
      [Project("kanban", "v3", {"clipboard"}, "connection") EXCEPT !.kind = "sources"],
      [Project("solo", "v4", {"print"}, "vault") EXCEPT !.data = {"k1"}],
      [Other EXCEPT !.mode = "vault", !.kind = "sources", !.entry = TRUE, !.imports = {"legacy"}] }
    \cup {[Other EXCEPT !.app = "bad", !.prog = "file" \o ToString(i), !.dir = @ \cup Refused[i]] : i \in DOMAIN Refused}
    \cup {[Other EXCEPT !.app = "bad", !.prog = "manifest" \o ToString(i),
             !.manifest = Malformed[i], !.dir = @ \cup {Filler}] :
             i \in DOMAIN Malformed}

\* A value that compresses beyond the reader's cap, and one that does not.
MCWeight == [k1 |-> [size |-> 1, packed |-> 1], k2 |-> [size |-> 8, packed |-> 0]]

\* One package needs another; one needs what is not in the library.
MCStdlib == [s \in {"react", "scheduler", "legacy"} |->
               IF s = "react" THEN {"scheduler"} ELSE IF s = "legacy" THEN {"leftpad"} ELSE {}]

MCLower == [s \in {"App.js"} |-> "app.js"]
=============================================================================
