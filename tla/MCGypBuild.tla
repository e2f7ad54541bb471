----------------------------- MODULE MCGypBuild -----------------------------
EXTENDS XcodeProjects

CONSTANTS f1, f2, f3   \* build files

AllFiles == {f1, f2, f3}
TargetNames == (AllFiles \X {1}) \cup ({f1} \X (1..4)) \cup {<<f2, 2>>}

Kind(type, hard, sources, steps) ==
  [type |-> type, hard |-> hard, traverse |-> TRUE, sources |-> sources, steps |-> steps]

Program == Kind("executable", FALSE, TRUE, "none")
Library == Kind("static_library", FALSE, TRUE, "none")
Generator == Kind("none", FALSE, FALSE, "action")

\* Libraries that generate headers, hard and not, that generate only, and that
\* link or are linked; a target with settings only, one that is not gone through,
\* and rules.
Kinds ==
  {Program, Library, Generator,
   Kind("static_library", TRUE, TRUE, "action"), Kind("static_library", FALSE, TRUE, "rules"),
   Kind("static_library", FALSE, FALSE, "none"),
   Kind("shared_library", FALSE, TRUE, "action"), Kind("shared_library", FALSE, FALSE, "action"),
   Kind("none", FALSE, FALSE, "none"), Kind("none", FALSE, FALSE, "many_rules"),
   [Kind("none", FALSE, FALSE, "copy") EXCEPT !.traverse = FALSE],
   Kind("loadable_module", FALSE, TRUE, "copy"), Kind("executable", FALSE, FALSE, "none")}

Target(kind, needs, exports) ==
  [type |-> kind.type, hard |-> kind.hard, traverse |-> kind.traverse,
   sources |-> kind.sources, steps |-> kind.steps, deps |-> needs, exports |-> exports,
   wild |-> {}, without |-> {}, linkOnly |-> FALSE, pruneSelf |-> FALSE,
   suppressWildcard |-> FALSE]

Project(roots, broken, targets, wanted, parallel, check, formats) ==
  LET Depends(f) ==
        LET of == {targets[t] : t \in {u \in DOMAIN targets : BuildFile(u) = f}}
        IN {BuildFile(d) : d \in UNION {dict.deps : dict \in of}} \cup UNION {dict.wild : dict \in of}
  IN [roots |-> roots, broken |-> broken, targets |-> targets, wanted |-> wanted,
      parallel |-> parallel, check |-> check, formats |-> formats,
      contents |-> <<>>, builds |-> <<>>,
      depends |-> f1 :> Depends(f1) @@ f2 :> Depends(f2) @@ f3 :> Depends(f3)]

\* Three files of a target each, which is a library.  How they depend on each
\* other: in a chain, a diamond without its top, a cycle of two or of three,
\* and on themselves.
Graphs ==
  {(f1 :> {f2} @@ f2 :> {f3} @@ f3 :> {}),
   (f1 :> {f2, f3} @@ f2 :> {f3} @@ f3 :> {}),
   (f1 :> {f3} @@ f2 :> {f3} @@ f3 :> {}),
   (f1 :> {f2, f3} @@ f2 :> {f3} @@ f3 :> {f2}),
   (f1 :> {f2} @@ f2 :> {f3} @@ f3 :> {f1}),
   (f1 :> {f3} @@ f2 :> {} @@ f3 :> {f3})}

FileProject(graph, roots, broken, defined, parallel, check) ==
  Project(roots, broken, [t \in defined \X {1} |-> Target(Library, graph[t[1]] \X {1}, {})],
          {}, parallel, check, IF parallel \/ check THEN {"ninja"} ELSE Formats)

FileProjects ==
  {FileProject(graph, roots, broken, defined, parallel, check) :
     graph \in Graphs, roots \in {{f1}, {f1, f2}}, broken \in {{}, {f2}, {f3}},
     defined \in {AllFiles, {f1, f2}}, parallel \in BOOLEAN, check \in BOOLEAN}

\* And in all ways.
AnyGraphProjects ==
  {FileProject(graph, {f1}, {}, AllFiles, TRUE, check) :
     graph \in [AllFiles -> SUBSET AllFiles], check \in BOOLEAN}

\* Two targets of one file depend on each other's neighbour in another file:
\* the files make a cycle and the targets none.
CrossedProjects ==
  {Project({f1}, {}, (<<f1, 1>> :> Target(Library, {<<f2, 1>>}, {})
                      @@ <<f2, 1>> :> Target(Library, {<<f1, 2>>}, {})
                      @@ <<f1, 2>> :> Target(Library, {}, {})), wanted, FALSE, check, {"ninja"}) :
     wanted \in {{}, {<<f2, 1>>}, {<<f3, 1>>}}, check \in BOOLEAN}

\* Targets of one file, in an order in which they do not depend on later ones.
\* A target exports all its dependencies, or none.
One(name) == <<f1, name>>
OneFile(targets, wanted) == Project({f1}, {}, targets, wanted, FALSE, FALSE, Formats)

TripleProjects ==
  {OneFile((One(1) :> Target(low, {}, {})
            @@ One(2) :> Target(middle, {One(1)}, exported)
            @@ One(3) :> Target(high, needs, {})), {}) :
     low \in Kinds, middle \in Kinds, exported \in {{}, {One(1)}},
     high \in {Program, Library, Generator, Kind("shared_library", FALSE, TRUE, "action")},
     needs \in {{One(2)}, {One(1), One(2)}}}

\* A program, what it links, and what that needs in two steps.
ChainProjects ==
  {OneFile((One(1) :> Target(low, {}, {})
            @@ One(2) :> Target(second, {One(1)}, {d \in {One(1)} : exported})
            @@ One(3) :> Target(third, {One(2)}, {d \in {One(2)} : exported})
            @@ One(4) :> Target(Program, {One(3)}, {})), wanted) :
     low \in {Library, Generator, Kind("static_library", TRUE, TRUE, "action"),
              Kind("none", FALSE, TRUE, "none")},
     second \in {Library, Kind("none", FALSE, FALSE, "none"), Kind("static_library", TRUE, TRUE, "action")},
     third \in {Library, Kind("static_library", FALSE, FALSE, "none")},
     exported \in BOOLEAN,
     wanted \in {{}, {One(3)}, {One(4)}}}

\* A target that names all targets of another file, one of which may not want
\* that or serve linking only, and perhaps itself, and excludes one by name.
LinkProjects ==
  {Project({f2}, {}, (<<f2, 1>> :> [Target(kind, own, {}) EXCEPT
                                      !.wild = wild, !.without = without, !.pruneSelf = prune]
                      @@ One(1) :> [Target(Kind("static_library", TRUE, TRUE, "action"), {}, {}) EXCEPT
                                      !.linkOnly = linkOnly]
                      @@ One(2) :> [Target(Library, {One(1)}, {One(1)}) EXCEPT
                                      !.suppressWildcard = suppressed]), {}, FALSE, FALSE,
           IF suppressed THEN {"ninja", "android", "xcode"} ELSE {"ninja"}) :
     kind \in {Program, Library, Generator}, own \in {{}, {<<f2, 1>>}, {<<f3, 1>>}},
     wild \in {{f1}, {f2}, {f1, f3}}, without \in {{}, {One(1)}},
     prune \in BOOLEAN, linkOnly \in BOOLEAN, suppressed \in BOOLEAN}

\* A target exports settings of one it does not depend on, or does no longer.
FaultyProjects ==
  {OneFile((One(1) :> Target(Library, {}, {}) @@ One(2) :> Target(Library, {}, {One(1)})), {}),
   OneFile((One(2) :> [Target(Library, {One(4)}, {One(4)}) EXCEPT !.without = {One(4)}]
            @@ One(3) :> Target(Library, {One(2)}, {})), {})} \cup
  {OneFile((One(1) :> Target(Kind("static_library", TRUE, TRUE, "action"), {}, {})
            @@ One(2) :> [Target(Library, {One(1)}, {One(1)}) EXCEPT !.without = {One(1)}]
            @@ One(3) :> Target(Library, {One(2)}, {})), wanted) : wanted \in {{}, {One(3)}}}

EveryProject ==
  FileProjects \cup AnyGraphProjects \cup CrossedProjects
    \cup TripleProjects \cup ChainProjects \cup LinkProjects \cup FaultyProjects

=============================================================================
