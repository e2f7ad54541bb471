-------------------------- MODULE MCXcodeProjects --------------------------
EXTENDS MCGypBuild

Trees == {"$(INTERMEDIATE_DIR)", "$(BUILT_PRODUCTS_DIR)", "$(SDKROOT)", "$(SRCROOT)"}
Intermediates == {"$(INTERMEDIATE_DIR)"}
Localized == {"en.lproj", "de.lproj"}

Extensions ==
  ("a.c" :> "c") @@ ("b.c" :> "c") @@ ("g.c" :> "c") @@ ("p.c" :> "c") @@ ("x.in" :> "in")
    @@ ("y.in" :> "in") @@ ("h.h" :> "h") @@ ("m.xib" :> "xib") @@ ("n.png" :> "png")
    @@ ("libz.a" :> "a") @@ ("Cocoa.framework" :> "framework") @@ ("o.o" :> "o") @@ ("c.xcconfig" :> "xcconfig")
    @@ ("i.gypi" :> "gypi")
Prefixed == <<"lib", "libnet">> :> "net"

NoProduct == [name |-> {}, dir |-> {}, prefix |-> {}, extension |-> {}]
Configuration(name) ==
  [name |-> name, includes |-> <<>>, libraryDirs |-> <<>>, settings |-> <<>>, file |-> {}]
Content(name, sources) ==
  [name |-> name, bundle |-> "no", product |-> NoProduct, sources |-> sources, excluded |-> <<>>,
   resources |-> <<>>, headers |-> <<>>, privateHeaders |-> <<>>, libraries |-> <<>>, actions |-> <<>>,
   rules |-> <<>>, copies |-> <<>>, postbuilds |-> <<>>, configurations |-> <<Configuration("Debug")>>,
   run |-> FALSE, tests |-> FALSE]
Action(name, made, compiled) ==
  [name |-> name, inputs |-> <<<<"gen", "x.in">>>>, outputs |-> made, excluded |-> <<>>,
   asSources |-> compiled, asResources |-> FALSE]
Rule(name, sources, made) ==
  [name |-> name, extension |-> "in", sources |-> sources, outputs |-> made, inputs |-> <<>>,
   excluded |-> <<>>, asSources |-> TRUE, asResources |-> FALSE]

At(path, included) == [path |-> path, included |-> included, file |-> {}]
InDirs(first, second) ==
  f1 :> At(first, <<<<"i.gypi">>, <<"..", "build", "i.gypi">>>>) @@ f2 :> At(second, <<>>)
    @@ f3 :> At(<<"z", "z.xcodeproj">>, <<>>)
Apart == InDirs(<<"app", "app.xcodeproj">>, <<"lib", "lib.xcodeproj">>)

\* A project of which all targets have contents.
Xcode(roots, targets, contents, builds) ==
  [Project(roots, {}, targets, {}, FALSE, FALSE, {"xcode"}) EXCEPT !.contents = contents, !.builds = builds]

Two(name) == <<f2, name>>
Empty == Kind("none", FALSE, FALSE, "none")
Shared == Kind("shared_library", FALSE, TRUE, "none")
Module == Kind("loadable_module", FALSE, TRUE, "none")
Bundle(content) == [content EXCEPT !.bundle = "bundle"]

\* Two programs with libraries of another file, which depend on each other or not,
\* and a target that runs them, in whatever order they come.  A source of the
\* libraries is one of the programs', too, with other groups above it.
Suite(first, second, needs, run) ==
  Xcode({f1},
    One(1) :> Target(Program, {Two(1)}, {}) @@ One(2) :> Target(Program, {Two(2), One(1)}, {})
      @@ One(3) :> Target(Empty, {One(1), One(2)}, {})
      @@ Two(1) :> Target(first, {}, {}) @@ Two(2) :> Target(second, needs, {}),
    One(1) :> [Content("one", <<<<"one", "a.c">>>>) EXCEPT !.run = TRUE]
      @@ One(2) :> [Content("two", <<<<"two", "deep", "a.c">>>>) EXCEPT !.run = run]
      @@ One(3) :> [Content("test", <<>>) EXCEPT !.tests = TRUE]
      @@ Two(1) :> Content("base", <<<<"two", "a.c">>, <<"two", "more", "here", "b.c">>>>)
      @@ Two(2) :> Content("net", <<<<"two", "deep", "a.c">>>>),
    Apart)
Suites ==
  {Suite(Library, Library, {}, TRUE), Suite(Shared, Library, {Two(1)}, FALSE),
   Suite(Library, Module, {}, FALSE), Suite(Library, Shared, {Two(1)}, TRUE)}

Single(kind, contents) == Xcode({f1}, One(1) :> Target(kind, {}, {}), One(1) :> contents, Apart)
Full == Content("full", <<<<"src", "a.c">>>>)

\* One target with lists of all kinds.
Lists ==
  {Single(Program, Bundle([Full EXCEPT
     !.sources = <<<<"src", "a.c">>, <<"src", "x.in">>, <<"lib", "libz.a">>, <<"lib", "o.o">>>>,
     !.excluded = <<<<"src", "mac", "b.c">>>>,
     !.resources = <<<<"res", "en.lproj", "m.xib">>, <<"res", "de.lproj", "m.xib">>, <<"res", "art", "">>>>,
     !.headers = <<<<"src", "h.h">>>>, !.privateHeaders = <<<<"src", "mac", "h.h">>>>,
     !.libraries = <<<<"$(SDKROOT)", "lib", "Cocoa.framework">>>>,
     !.postbuilds = <<"strip">>,
     !.configurations = <<
       [Configuration("Debug") EXCEPT !.includes = <<<<"src">>>>, !.libraryDirs = <<<<"lib">>, <<"lib">>>>,
                                      !.file = {<<"cfg", "c.xcconfig">>}],
       [Configuration("Release") EXCEPT !.settings = [GCC |-> "O2"]]>>])),
   Single(Kind("static_library", FALSE, TRUE, "rules"), [Full EXCEPT
     !.headers = <<<<"src", "h.h">>>>,
     !.rules = <<Rule("in", <<<<"src", "x.in">>, <<"src", "y.in">>>>,
                      (<<"src", "x.in">> :> <<<<"$(INTERMEDIATE_DIR)", "x", "g.c">>>>)
                        @@ (<<"src", "y.in">> :> <<<<"$(INTERMEDIATE_DIR)", "y", "g.c">>>>)),
                 Rule("other", <<<<"src", "x.in">>>>, <<"src", "x.in">> :> <<<<"$(INTERMEDIATE_DIR)", "p.c">>>>)>>]),
   Single(Kind("none", FALSE, FALSE, "action"), [Content("make", <<>>) EXCEPT
     !.product.name = {"made"},
     !.actions = <<Action("first", <<<<"$(INTERMEDIATE_DIR)", "g.c">>>>, FALSE),
                   Action("second", <<<<"$(BUILT_PRODUCTS_DIR)", "p.c">>>>, FALSE)>>]),
   Single(Kind("none", FALSE, FALSE, "rules"), [Content("make", <<>>) EXCEPT
     !.rules = <<Rule("in", <<<<"src", "x.in">>>>, <<"src", "x.in">> :> <<<<"$(INTERMEDIATE_DIR)", "g.c">>>>),
                 Rule("other", <<<<"src", "x.in">>>>, <<"src", "x.in">> :> <<<<"$(INTERMEDIATE_DIR)", "p.c">>>>)>>]),
   Single(Kind("shared_library", FALSE, TRUE, "action"), [Full EXCEPT
     !.product = [name |-> {"libnet"}, dir |-> {"out"}, prefix |-> {}, extension |-> {".so"}],
     !.actions = <<Action("first", <<<<"$(INTERMEDIATE_DIR)", "g.c">>>>, TRUE)>>]),
   Single(Kind("loadable_module", FALSE, TRUE, "copy"), [Full EXCEPT
     !.copies = <<[to |-> <<"out">>, files |-> <<<<"src", "n.png">>>>],
                  [to |-> <<"$(BUILT_PRODUCTS_DIR)", "art">>, files |-> <<<<"src", "m.xib">>>>],
                  [to |-> <<"out">>, files |-> <<<<"src", "h.h">>>>]>>]),
   Single(Kind("executable", FALSE, TRUE, "none"), [Full EXCEPT
     !.sources = <<<<"$(INTERMEDIATE_DIR)", "x", "g.c">>, <<"Source", "a.c">>>>,
     !.product.extension = {".bin"}])}

\* Lists of paths, of which some cannot be put into groups, phases or ids.
Odd ==
  {Single(Program, [Full EXCEPT !.sources = sources, !.excluded = excluded]) :
     sources \in {<<<<"src", "a.c">>>>, <<<<"a.c">>, <<"src", "a.c">>>>, <<<<"src", "a.c">>, <<"src", "a.c">>>>},
     excluded \in {<<>>, <<<<"src", "dir", "">>>>, <<<<"src", "dir", "">>, <<"src", "dir", "">>>>,
                   <<<<"src", "a.c">>>>, <<<<"src", "dir", "">>, <<"src", "dir", "h.h">>>>}}

\* Things that have the same name or product, or are the same to what refers to them.
Alike ==
  {Xcode({f1}, One(1) :> Target(Library, {}, {}) @@ One(2) :> Target(kind, {}, {}),
         One(1) :> Content("net", <<<<"src", "a.c">>>>) @@ One(2) :> Content(name, <<<<"src", "a.c">>>>), Apart) :
     kind \in {Library, Shared}, name \in {"libnet", "other"}}
  \cup
  {Single(Generator, [Content("make", <<>>) EXCEPT
     !.actions = <<Action("first", <<>>, FALSE), Action(name, <<>>, FALSE)>>]) : name \in {"first", "second"}}
  \cup
  {Xcode({f3}, <<f3, 1>> :> Target(Empty, {One(1), Two(1)}, {}) @@ One(1) :> Target(Empty, {}, {})
                 @@ Two(1) :> Target(kind, {}, {}),
         <<f3, 1>> :> Content("all", <<>>) @@ One(1) :> Content("one", <<>>)
           @@ Two(1) :> Content("two", IF kind = Empty THEN <<>> ELSE <<<<"a.c">>>>),
         builds) :
     kind \in {Empty, Library},
     builds \in {Apart, InDirs(<<"app", "it.xcodeproj">>, <<"lib", "it.xcodeproj">>)}}

XcodeProjectsOnly == Suites \cup Lists \cup Odd \cup Alike
EveryProjectThere == EveryProject \cup XcodeProjectsOnly
ProjectsThere == EveryProjectThere
OnlyXcode == XcodeProjectsOnly
=============================================================================
