---------------------------- MODULE XcodeProjects ----------------------------
(***************************************************************************)
(* gyp with its xcode generator in detail: GenerateOutput of               *)
(* generator/xcode.py builds the objects of one Xcode project for each     *)
(* build file, target by target, then completes all projects, gives their  *)
(* objects ids and writes them.  XcodeWriter has the same targets as steps *)
(* of a build; here both are taken together, so that they can be compared. *)
(*                                                                         *)
(* Objects are followed in projects of build files that have contents.     *)
(* The generator's flags and --generator-output are not given.             *)
(***************************************************************************)
EXTENDS XcodeTurns, XcodeObjects

\* contents: of each target the lists that become objects.  builds: of each build file
\* where its .xcodeproj is, the files it includes and its xcode_config_file, if any.
Contents(t) == project.contents[t]
Build(f) == project.builds[f]

ASSUME ContentsAssumption ==
  \A p \in Projects :
    DOMAIN p.contents # {} =>
      DOMAIN p.contents = DOMAIN p.targets /\ DOMAIN p.builds = Files

xcodeVars == <<gyp, unready, xcode>>

XcodeInit ==
  /\ GypInit
  /\ unready = [first |-> {}, second |-> {}]
  /\ xcode = [heap |-> EmptyHeap, projects |-> <<>>, targets |-> <<>>, supports |-> <<>>,
              runners |-> <<>>, ids |-> <<>>]

-----------------------------------------------------------------------------
(* The project of each build file                                          *)

\* XcodeProject.__init__ and the group "Build", whose files are not hierarchical.
BuildGroup(h) == AppendNew(h, Prop(h, h.it, "mainGroup"), "PBXGroup", [name |-> <<"Build">>])
FilledGroup(h, group, paths) ==
  FoldLeft(LAMBDA a, path : AddOrGetFileByPath(a, group, path, FALSE), h, paths)
FilledIt(h, paths) == FilledGroup(h, h.it, paths)
NewXcodeProject(x, f) ==
  [x EXCEPT !.heap = FilledIt(BuildGroup(NewProject(@, Build(f).path)), Build(f).included),
            !.projects = f :> Len(x.heap.objects) + 1 @@ @]

\* data.iteritems() has the files in any order; so do the dictionaries below.
NewXcodeProjects(x) == FoldSet(LAMBDA f, a : NewXcodeProject(a, f), x, loaded)

-----------------------------------------------------------------------------
(* One target: the target object, and its support target                   *)

SourceExtensions == {"c", "cc", "cpp", "cxx", "m", "mm", "s"}
LibraryExtensions == {"a", "dylib", "framework", "o"}

\* _types
ProductTypeOf(type, bundle) ==
  CASE bundle = "xctest" -> "unittest"
    [] bundle # "xctest" /\ type = "executable" -> IF bundle = "no" THEN "tool" ELSE "application"
    [] bundle # "xctest" /\ type = "loadable_module" -> IF bundle = "no" THEN "so" ELSE "bundle"
    [] bundle # "xctest" /\ type = "shared_library" -> IF bundle = "no" THEN "dynamic" ELSE "framework"
    [] bundle = "no" /\ type = "static_library" -> "static"

ConfigurationNames(t) ==
  [i \in DOMAIN Contents(t).configurations |-> <<Contents(t).configurations[i].name>>]

\* A target of any class in a project, once it has a list of configurations.
ListedTarget(h, of) == Yields(AppendProperty(h, of, "targets", h.it), h.it)
TargetWith(h, of, class, props) == NewXCTarget(h, class, [buildConfigurationList |-> h.it] @@ props, of)

PlacedNative(h, t) == Product(WithPhases(h, h.it), h.it, Contents(t).product)

\* Its product_name, if there is one.
ProductName(t, suffix) ==
  IF Contents(t).product.name = {} THEN <<>>
  ELSE [productName |-> Forced(Contents(t).product.name, "") \o suffix]

TargetFor(h, t, of) ==
  IF Native(t)
  THEN PlacedNative(TargetWith(h, of, "PBXNativeTarget",
                               [name |-> <<Contents(t).name>>,
                                productType |-> ProductTypeOf(Dict(t).type, Contents(t).bundle)]
                               @@ ProductName(t, "")), t)
  ELSE TargetWith(h, of, "PBXAggregateTarget", [name |-> <<Contents(t).name>>] @@ ProductName(t, ""))
NewTarget(h, t, of) == ListedTarget(TargetFor(h, t, of), of)

Scripted(t) == Contents(t).actions # <<>> \/ Contents(t).rules # <<>>

NewSupport(h, t, of) ==
  ListedTarget(TargetWith(h, of, "PBXAggregateTarget",
                          [name |-> <<Contents(t).name \o " Support">>] @@ ProductName(t, " Support")), of)

KeptTarget(x, t, h) == [x EXCEPT !.heap = h, !.targets = t :> h.it @@ @]
TargetOf(x, t) ==
  KeptTarget(x, t, NewTarget(CreateXCConfigurationList(x.heap, ConfigurationNames(t)), t, x.projects[BuildFile(t)]))

KeptSupport(x, t, h) == [x EXCEPT !.heap = AddDependency(h, x.targets[t], h.it), !.supports = t :> h.it @@ @]
SupportOf(x, t) ==
  IF x.heap.fault # "none" \/ ~Native(t) \/ ~Scripted(t) THEN x
  ELSE KeptSupport(x, t, NewSupport(CreateXCConfigurationList(x.heap, ConfigurationNames(t)), t,
                                    x.projects[BuildFile(t)]))

-----------------------------------------------------------------------------
(* What a target lists, section after section: t is the target, o its      *)
(* object and s its support target, or 0.                                  *)

AddFileTo(h, path) == AddFile(h, h.it, path)
AddResourceToTarget(h, o, path) == AddFileTo(ResourcesOf(h, o), path)

\* Into the phase of sources or that of frameworks, or to no phase.
AddSourceToTarget(h, t, o, path) ==
  IF Native(t) /\ Ext(path) \in SourceExtensions \cup LibraryExtensions
  THEN AddFileTo(IF Ext(path) \in SourceExtensions THEN SourcesOf(h, o) ELSE FrameworksOf(h, o), path)
  ELSE AddOrGetFileInRootGroup(h, Ancestor(h, o), path)

AddSources(h, t, o, paths) == FoldLeft(LAMBDA a, p : AddSourceToTarget(a, t, o, p), h, paths)
AddResources(h, o, paths) == FoldLeft(LAMBDA a, p : AddResourceToTarget(a, o, p), h, paths)
AddFiles(h, o, paths) == FoldLeft(LAMBDA a, p : AddOrGetFileInRootGroup(a, Ancestor(a, o), p), h, paths)

\* Defect: a script goes before those that are there.
ScriptFirst(h, o, s) ==
  IF s # 0 THEN AppendProperty(h, s, "buildPhases", h.it)
  ELSE InsertProperty(h, o, "buildPhases", 0, h.it)

\* A phase that runs a script is the next one of the support target or, without one,
\* of those at prebuild_index, in front of all others.
Script(h, o, s) ==
  IF s # 0 THEN AppendProperty(h, s, "buildPhases", h.it)
  ELSE InsertProperty(h, o, "buildPhases", Len(PhaseOf(h, o, "PBXShellScriptBuildPhase")), h.it)
NewScript(h, o, s, name) == Script(NewPhase(h, "PBXShellScriptBuildPhase", [name |-> name], 0), o, s)

\* What a script makes is a source, a resource, or none.
AddMade(h, t, o, sources, resources, made) ==
  AddResources(AddSources(h, t, o, IF sources THEN made ELSE <<>>), o, IF resources THEN made ELSE <<>>)

WriteActions(h, t, o, s) ==
  FoldLeft(LAMBDA a, action :
             AddMade(NewScript(a, o, s, <<"Action ", action.name>>), t, o,
                     action.asSources, action.asResources, action.outputs),
           h, Contents(t).actions)

\* tgt_mac_bundle_resources
Bundled(t) == IF Contents(t).bundle = "no" THEN <<>> ELSE Contents(t).resources

\* Outputs of a rule are those of each of its sources.  The makefile that a rule's
\* script calls, with a step for each source, is not followed.
WriteRuleSource(h, t, o, rule, source) ==
  AddMade(AddFiles(h, o, rule.outputs[source]), t, o, rule.asSources,
          rule.asResources \/ Contains(Bundled(t), source), rule.outputs[source])
ScriptOf(h, o, s, rule) ==
  IF \A i \in DOMAIN rule.sources : rule.outputs[rule.sources[i]] = <<>> THEN h
  ELSE NewScript(h, o, s, <<"Rule ", rule.name>>)
WriteRule(h, t, o, s, rule) ==
  AddFiles(ScriptOf(FoldLeft(LAMBDA a, source : WriteRuleSource(a, t, o, rule, source), h, rule.sources),
                    o, s, rule),
           o, rule.inputs \o rule.excluded)
WriteRules(h, t, o, s) == FoldLeft(LAMBDA a, rule : WriteRule(a, t, o, s, rule), h, Contents(t).rules)

\* rules_by_ext
Ruled(t, path) == \E i \in DOMAIN Contents(t).rules : Contents(t).rules[i].extension = Ext(path)

WriteSources(h, t, o) ==
  FoldLeft(LAMBDA a, p : IF Ruled(t, p) THEN AddFiles(a, o, <<p>>) ELSE AddSourceToTarget(a, t, o, p),
           h, Contents(t).sources)

WriteResources(h, t, o) ==
  FoldLeft(LAMBDA a, p : IF Ruled(t, p) THEN AddFiles(a, o, <<p>>) ELSE AddResourceToTarget(a, o, p),
           h, Bundled(t))

\* AddHeaderToTarget
AddHeaderToTarget(h, path, attribute) == AddFileWith(h, h.it, path, [settings |-> attribute])
AddHeaders(h, o, paths, attribute) ==
  FoldLeft(LAMBDA a, p : AddHeaderToTarget(HeadersOf(a, o), p, attribute), h, paths)
WriteHeaders(h, t, o) ==
  AddHeaders(AddHeaders(h, o, IF Contents(t).bundle # "no" THEN Contents(t).privateHeaders ELSE <<>>, "Private"),
             o, IF Contents(t).bundle # "no" \/ Dict(t).type = "static_library" THEN Contents(t).headers
                ELSE <<>>, "Public")

\* A phase for each destination, by the first group of files with that, in front of
\* those there are.
AbsoluteDestination(path) == IF path[1] = "" \/ path[1] \in SourceTrees THEN path ELSE <<"$(SRCROOT)">> \o path
InsertCopies(h, o) ==
  Yields(InsertProperty(h, o, "buildPhases", Len(PhaseOf(h, o, "PBXShellScriptBuildPhase")), h.it), h.it)
NewCopies(h, o, to) ==
  InsertCopies(NewPhase(h, "PBXCopyFilesBuildPhase",
                        [name |-> <<"Copy to ">> \o to] @@ Destination(AbsoluteDestination(to)), o), o)
CopyFiles(h, phase, files, phases) == <<FoldLeft(LAMBDA a, p : AddFile(a, phase, p), h, files), phases>>
CopyInto(h, dir, files, phases) == CopyFiles(h, h.it, files, dir :> h.it @@ phases)
WriteCopy(h, o, group, dir, phases) ==
  CopyInto(IF dir \in DOMAIN phases THEN Yields(h, phases[dir]) ELSE NewCopies(h, o, group.to),
           dir, group.files, phases)
WriteCopies(h, o, copies) ==
  FoldLeft(LAMBDA a, group : WriteCopy(a[1], o, group, AbsoluteDestination(group.to), a[2]),
           <<h, <<>>>>, copies)[1]

\* Files that are only shown: excluded ones, and those of actions but for products.
WriteOtherFiles(h, t, o) ==
  LET OfAction(action) ==
        SelectSeq(action.inputs \o action.excluded \o action.outputs,
                  LAMBDA p : Len(p) = 1 \/ p[1] # "$(BUILT_PRODUCTS_DIR)")
      ofActions == FlattenSeq([i \in DOMAIN Contents(t).actions |-> OfAction(Contents(t).actions[i])])
  IN  AddFiles(h, o, Contents(t).excluded \o ofActions)

AppendPhase(h, o) == Yields(AppendProperty(h, o, "buildPhases", h.it), o)
WritePostbuilds(h, t, o) ==
  FoldLeft(LAMBDA a, n : AppendPhase(NewPhase(a, "PBXShellScriptBuildPhase", [name |-> <<"Postbuild ", n>>], 0), o),
           h, Contents(t).postbuilds)

\* The support target gets the same dependencies.
WriteDependencies(h, t, o, s, targets) ==
  FoldLeft(LAMBDA a, edge : AddDependency(a, edge[1], edge[2]), h,
           FlattenSeq([i \in DOMAIN flat |->
             IF flat[i] \notin deps[t] THEN <<>>
             ELSE <<<<o, targets[flat[i]]>>>> \o (IF s = 0 THEN <<>> ELSE <<<<s, targets[flat[i]]>>>>)]))

\* Libraries, each with the directory it is found in.
StandardLibraryDirs == {<<"$(SDKROOT)", "usr", "lib">>, <<"$(SDKROOT)", "usr", "local", "lib">>}
Sought(settings, dir) ==
  \/ dir \in StandardLibraryDirs
  \/ "LIBRARY_SEARCH_PATHS" \in DOMAIN settings /\ Contains(settings["LIBRARY_SEARCH_PATHS"], dir)
SeekIn(h, o, dir) ==
  IF Sought(Settings(h, Configurations(h, o)[1]), dir) THEN h
  ELSE AppendBuildSetting(h, o, "LIBRARY_SEARCH_PATHS", dir)
WriteLibraries(h, t, o) ==
  FoldLeft(LAMBDA a, p : SeekIn(AddFileTo(FrameworksOf(a, o), p), o, Front(p)), h, Contents(t).libraries)

\* The settings of each configuration, the later over the earlier ones.
Include(h, configuration, dirs) ==
  FoldLeft(LAMBDA a, dir : AppendIn(a, configuration, "HEADER_SEARCH_PATHS", dir), h, dirs)
Find(h, configuration, dirs) ==
  FoldLeft(LAMBDA a, dir : IF Sought(Settings(a, configuration), dir) THEN a
                           ELSE AppendIn(a, configuration, "LIBRARY_SEARCH_PATHS", dir), h, dirs)
BaseOn(h, o, configurations, file) ==
  IF file = {} \/ h.fault # "none" THEN h
  ELSE SetBaseConfiguration(AddFiles(h, o, SetToSeq(file)), configurations)
Configure(h, o, configuration, c) ==
  BaseOn(SetIn(Find(Include(h, configuration, c.includes), configuration, c.libraryDirs),
               configuration, c.settings), o, <<configuration>>, c.file)
WriteConfigurations(h, t, o) ==
  FoldLeftDomain(LAMBDA a, i : Configure(a, o, Configurations(a, o)[i], Contents(t).configurations[i]),
                 h, Contents(t).configurations)

\* One target of GenerateOutput, section by section.
WriteSections(h, t, o, s, targets) ==
  WriteConfigurations(
    WriteLibraries(
      WriteDependencies(
        WritePostbuilds(
          WriteOtherFiles(
            WriteCopies(
              WriteHeaders(
                WriteResources(
                  WriteSources(
                    WriteRules(
                      WriteActions(h, t, o, s), t, o, s), t, o), t, o), t, o), o, Contents(t).copies),
            t, o), t, o),
        t, o, s, targets), t, o), t, o)

SupportTarget(x, t) == IF t \in DOMAIN x.supports THEN x.supports[t] ELSE 0
Section(x, t) ==
  IF x.heap.fault # "none" THEN x
  ELSE [x EXCEPT !.heap = WriteSections(@, t, x.targets[t], SupportTarget(x, t), x.targets)]
WriteObjects(x, t) == Section(SupportOf(TargetOf(x, t), t), t)

-----------------------------------------------------------------------------
(* All targets are there: the projects are completed                       *)

FileTargets(f) == SetToSeq(BuildFileTargets(f))

ConfigurationsOf(h, targets) ==
  FoldLeft(LAMBDA names, n : IF Contains(names, n) THEN names ELSE Append(names, n), <<>>,
           FlattenSeq([i \in DOMAIN targets |->
                         [j \in DOMAIN Configurations(h, targets[i]) |->
                            Prop(h, Configurations(h, targets[i])[j], "name")]]))

\* The configurations of the project are those of its targets.
ListConfigurations(h, of) == UpdateProperties(h, of, [buildConfigurationList |-> h.it])
BaseProject(h, of, f) == BaseOn(h, of, Configurations(h, of), Build(f).file)
ProjectConfigurations(h, of, f) ==
  BaseProject(ListConfigurations(
                CreateXCConfigurationList(h, ConfigurationsOf(h, Prop(h, of, "targets"))), of), of, f)

\* A target that runs another one once it is built.
Depending(h, o, others) == Yields(FoldLeft(LAMBDA a, d : AddDependency(a, o, d), h, others), o)
DependingIt(h, others) == Depending(h, h.it, others)
NewAggregate(h, of, names, props, others) ==
  DependingIt(TargetWith(CreateXCConfigurationList(h, names), of, "PBXAggregateTarget", props), others)

Running(h, o) == AppendPhase(NewPhase(h, "PBXShellScriptBuildPhase", [name |-> <<"ShellScript">>], 0), o)
RunningIt(h) == Running(h, h.it)
KeptRunner(x, o, h) == [x EXCEPT !.heap = h, !.runners = o :> h.it @@ @]
RunTarget(x, of, names, o) ==
  KeptRunner(x, o, RunningIt(NewAggregate(x.heap, of, names,
    [name |-> <<"Run " \o Prop(x.heap, o, "name")[1]>>, productName |-> Prop(x.heap, o, "productName")], <<o>>)))
RunTargets(x, of, names, targets) ==
  FoldLeft(LAMBDA a, t : RunTarget(a, of, names, a.targets[t]), x,
           SelectSeq(targets, LAMBDA t : Contents(t).run))

\* A target, its support target and the one that runs it.
WithCompanions(x, t) ==
  <<x.targets[t]>> \o (IF SupportTarget(x, t) = 0 THEN <<>> ELSE <<SupportTarget(x, t)>>)
    \o (IF x.targets[t] \in DOMAIN x.runners THEN <<x.runners[x.targets[t]]>> ELSE <<>>)

Insert(h, of, n, o) == InsertProperty(h, of, "targets", n, o)
InsertNew(h, of, n) == Insert(h, of, n, h.it)

\* The targets "All" and "Run All Tests", where there are several to build or run.
AddAll(x, of, names, targets) ==
  LET wild == SelectSeq(targets, LAMBDA t : ~Dict(t).suppressWildcard)
  IN  IF Len(wild) < 2 \/ \E i \in DOMAIN targets : Contents(targets[i]).name \in {"all", "All"} THEN x
      ELSE [x EXCEPT !.heap = InsertNew(NewAggregate(@, of, names, [name |-> <<"All">>],
                                          [i \in DOMAIN wild |-> x.targets[wild[i]]]), of, 0)]
AddRunAll(x, of, names, targets) ==
  LET run == SelectSeq(targets, LAMBDA t : Contents(t).run)
  IN  IF Len(run) < 2 THEN x
      ELSE [x EXCEPT !.heap = InsertNew(NewAggregate(@, of, names, [name |-> <<"Run All Tests">>],
                                          [i \in DOMAIN run |-> x.runners[x.targets[run[i]]]]), of, 1)]

\* Finalize1, from the list of configurations on.  In between the project's groups take
\* over only children.
ListCompanions(x, of, targets) ==
  [x EXCEPT !.heap = SortGroups(RootGroupsTakeOverOnlyChildren(
     UpdateProperties(@, of, [targets |-> FlattenSeq([i \in DOMAIN targets |-> WithCompanions(x, targets[i])])]),
     of), of)]
Completed(x, of, names, targets) ==
  AddRunAll(AddAll(ListCompanions(RunTargets(x, of, names, targets), of, targets), of, names, targets),
            of, names, targets)
FinalizeProject(x, f) ==
  Completed([x EXCEPT !.heap = ProjectConfigurations(@, x.projects[f], f)], x.projects[f],
            ConfigurationsOf(x.heap, Prop(x.heap, x.projects[f], "targets")), FileTargets(f))

\* The targets, one after the other in an aggregate's dependencies, that are run by others.
RunnersBehind(x, o) ==
  LET Remote(d) == Prop(x.heap, Prop(x.heap, d, "targetProxy"), "remoteGlobalIDString")
      listed == Prop(x.heap, o, "dependencies")
      run == SelectSeq([i \in DOMAIN listed |-> Remote(listed[i])], LAMBDA d : d \in DOMAIN x.runners)
  IN  [i \in DOMAIN run |-> x.runners[run[i]]]

\* xcode_create_dependents_test_runner
InsertBehind(h, of, o) == InsertNew(h, of, SelectInSeq(Prop(h, of, "targets"), LAMBDA u : u = o))
AddTestRunner(x, of, t, run) ==
  IF ~Contents(t).tests \/ Native(t) \/ run = <<>> THEN x
  ELSE [x EXCEPT !.heap = InsertBehind(NewAggregate(@, of, <<<<"Debug">>, <<"Release">>>>,
          [name |-> <<"Run " \o Contents(t).name \o " Tests">>, productName |-> Contents(t).name], run),
          of, x.targets[t])]
AddTestRunners(x, of, targets) ==
  FoldLeft(LAMBDA a, t : AddTestRunner(a, of, t, RunnersBehind(a, a.targets[t])), x, targets)

\* Products that were added to a project after others referred to it.
ReferAgain(h, of) ==
  SortRemoteProductReferences(
    FoldLeft(LAMBDA a, other : AddOrGetProjectReference(a, of, other), h,
             PropOr(h, of, "projectReferences", <<>>)), of)

\* Finalize2, with the ids of the project's objects.
CheckedIDs(x, of, ids) ==
  [x EXCEPT !.ids = ids @@ @,
            !.heap = IF NoIDCollisions(ids, Descendants(@, of)) THEN @ ELSE Fail(@, "ids")]
Identify(x, of) ==
  IF x.heap.fault # "none" THEN x ELSE CheckedIDs(x, of, ComputeIDs(x.heap, of, <<>>))
ReferOnce(x, of) == [x EXCEPT !.heap = ReferAgain(@, of)]
IdentifyProject(x, of, targets) == Identify(ReferOnce(AddTestRunners(x, of, targets), of), of)

\* XCProjectFile.Print and _PrintObjects, which print all objects there are.
Printable(h, of) == \A o \in ToSet(Descendants(h, of)) : Prints(h, o)

-----------------------------------------------------------------------------
(* The generator, as actions: what each turn does to the objects.          *)

Follow(x) == xcode' = IF Followed' /\ stage' = "write" THEN x ELSE xcode

GoElsewhere == Elsewhere /\ UNCHANGED xcode
XcodeGenerate == Begin /\ Follow(NewXcodeProjects(xcode))
XcodeTarget(t) == OneTarget(t) /\ Follow(WriteObjects(xcode, t))
Finalize1(f) == CompleteOne(f) /\ xcode' = FinalizeProject(xcode, f)
Finalize2(f) == IdentifyOne(f) /\ xcode' = IdentifyProject(xcode, xcode.projects[f], FileTargets(f))
WriteProjects ==
  /\ WriteAll
  /\ xcode' = IF Followed /\ \E f \in loaded : ~Printable(xcode.heap, xcode.projects[f])
              THEN [xcode EXCEPT !.heap = Fail(@, "required")] ELSE xcode
Raise == Abort /\ UNCHANGED xcode

XcodeNext ==
  \/ GoElsewhere
  \/ XcodeGenerate
  \/ \E t \in ToSet(flat) : XcodeTarget(t)
  \/ \E f \in Files : Finalize1(f) \/ Finalize2(f)
  \/ WriteProjects
  \/ Raise

XcodeSpec == XcodeInit /\ [][XcodeNext]_xcodeVars

\* Threads and processes run on, every file is read in the end, and GenerateOutput goes
\* on.  Control is enabled if and only if XcodeNext is.
XcodeFairSpec == XcodeSpec /\ WF_control(Control)
-----------------------------------------------------------------------------
(* What the finished projects are to be like                               *)

Finished == stage = "done" /\ Followed

\* The path of each list of a target that is to be seen in its project: libraries are
\* elsewhere, and so are products.
PathsOfScripts(t) ==
  UNION {ToSet(a.inputs \o a.excluded) \cup {p \in ToSet(a.outputs) : p[1] # "$(BUILT_PRODUCTS_DIR)"} :
           a \in ToSet(Contents(t).actions)}
    \cup UNION {ToSet(r.inputs \o r.excluded) \cup UNION {ToSet(r.outputs[p]) : p \in ToSet(r.sources)} :
                  r \in ToSet(Contents(t).rules)}
PathsOfHeaders(t) ==
  (IF Contents(t).bundle = "no" THEN {} ELSE ToSet(Contents(t).privateHeaders))
    \cup (IF Contents(t).bundle = "no" /\ Dict(t).type # "static_library" THEN {} ELSE ToSet(Contents(t).headers))
PathsOf(t) ==
  {p \in ToSet(Contents(t).sources) : ~Native(t) \/ Ext(p) \notin LibraryExtensions \ {"o"}}
    \cup ToSet(Contents(t).excluded \o Bundled(t)) \cup PathsOfScripts(t) \cup PathsOfHeaders(t)
    \cup UNION {ToSet(c.files) : c \in ToSet(Contents(t).copies)}
    \cup UNION {c.file : c \in ToSet(Contents(t).configurations)}

\* A folder has a slash at its end in lists, and none in objects.
WithoutSlash(path) == IF Last(path) = "" THEN Front(path) ELSE path
PathsIn(f) ==
  {WithoutSlash(p) : p \in Build(f).file \cup UNION {PathsOf(t) : t \in BuildFileTargets(f)}}

\* The references below root groups of a project, and where they say their files are.
References(h, of, names) ==
  {o \in UNION {UNION {ToSet(Descendants(h, g)) : g \in ToSet(GroupNamed(h, Prop(h, of, "mainGroup"), n))} :
                  n \in names} :
     Class(h, o) = "PBXFileReference"}
InProject(f, names) == References(xcode.heap, xcode.projects[f], names)

\* What is hashed for a reference behind its project, of which the ids of all begin.
Behind(f, o) == SubSeq(xcode.ids[o], Len(xcode.ids[xcode.projects[f]]) + 1, Len(xcode.ids[o]))

SamePath(o, p) == FullPath(xcode.heap, o) = FullPath(xcode.heap, p)

\* Each file that a build file lists has one reference, at its place even when groups
\* took over their only children; and, as the comment on Hashables of
\* XCHierarchicalElement has it, its id depends on its path alone, whichever groups were
\* taken over.  Not so if a source tree, or a folder "Source", is taken over by the
\* root group.
ReferencesFollowPaths ==
  Finished =>
    /\ \A f \in loaded :
         /\ {FullPath(xcode.heap, o) : o \in InProject(f, {<<"Source">>, <<"Intermediates">>})} = PathsIn(f)
         /\ \A o, p \in InProject(f, {<<"Source">>, <<"Intermediates">>}) : SamePath(o, p) => o = p
    /\ \A f, g \in loaded : \A o \in InProject(f, {<<"Source">>}), p \in InProject(g, {<<"Source">>}) :
         FullPath(xcode.heap, o)[1] \notin {"Source"} \cup SourceTrees =>
           (SamePath(o, p) <=> Behind(f, o) = Behind(g, p))

\* The targets of a project for a target of gyp, and the phases that do one of its steps.
ObjectsOf(t) == {xcode.targets[t]} \cup (IF t \in DOMAIN xcode.supports THEN {xcode.supports[t]} ELSE {})
ScriptOfRule(h, t, o, n) ==
  SelectSeq(PhaseOf(h, o, "PBXShellScriptBuildPhase"),
            LAMBDA p : Prop(h, p, "name") = <<"Rule ", Contents(t).rules[n].name>>)
ScriptsOfActions(h, t, o) ==
  SelectSeq(PhaseOf(h, o, "PBXShellScriptBuildPhase"),
            LAMBDA p : \E a \in ToSet(Contents(t).actions) : Prop(h, p, "name") = <<"Action ", a.name>>)
PhasesFor(h, t, o, step) ==
  CASE step = "object" -> PhaseOf(h, o, "PBXSourcesBuildPhase")
    [] step = "binary" -> PhaseOf(h, o, "PBXFrameworksBuildPhase")
    [] step = "copy" -> PhaseOf(h, o, "PBXCopyFilesBuildPhase")
    [] step = "action" -> ScriptsOfActions(h, t, o)
    [] step = "rule" -> ScriptOfRule(h, t, o, 1)
    [] step = "rule_2" -> ScriptOfRule(h, t, o, 2)

\* Where a file is made: in a target, and there in a phase or behind all of them.
PlacesIn(phases, o, made) == {<<o, i>> : i \in {j \in DOMAIN phases : Contains(made, phases[j])}}
Places(h, file) ==
  CASE file[2] = "target" -> {<<xcode.targets[file[1]], Len(Prop(h, xcode.targets[file[1]], "buildPhases")) + 1>>}
    [] file[2] = "support" -> {<<xcode.supports[file[1]], Len(Prop(h, xcode.supports[file[1]], "buildPhases")) + 1>>}
    [] OTHER -> UNION {PlacesIn(Prop(h, o, "buildPhases"), o, PhasesFor(h, file[1], o, file[2])) : o \in ObjectsOf(file[1])}

RECURSIVE BuiltBefore(_, _)
BuiltBefore(h, S) ==
  LET more == S \cup {Prop(h, Prop(h, d, "targetProxy"), "remoteGlobalIDString") :
                        d \in UNION {ToSet(Prop(h, o, "dependencies")) : o \in S}}
  IN  IF more = S THEN S ELSE BuiltBefore(h, more)
Later(h, place, other) ==
  IF place[1] = other[1] THEN place[2] > other[2] ELSE other[1] \in BuiltBefore(h, {place[1]})

\* The targets, by their products, that a target links.
Remote(h, file) ==
  IF Class(h, file) = "PBXReferenceProxy" THEN Prop(h, Prop(h, file, "remoteRef"), "remoteGlobalIDString") ELSE file
LinkedProducts(h, o) ==
  {Remote(h, Prop(h, b, "fileRef")) : b \in UNION {ToSet(Prop(h, p, "files")) :
                                                    p \in ToSet(PhaseOf(h, o, "PBXFrameworksBuildPhase"))}}

\* What Xcode makes of the objects is what gyp's dependencies ask for: each step that
\* is to wait for others is in a later phase of the same target, or in a target that
\* depends, in one project or across several, on theirs; and the products of other
\* targets that are linked are those of the libraries it depends on.
ObjectsDoSteps ==
  Finished =>
    /\ \A e \in edges :
         /\ Places(xcode.heap, e.out) # {}
         /\ \A place \in Places(xcode.heap, e.out) : \A before \in e.needs :
              \A other \in Places(xcode.heap, before) : Later(xcode.heap, place, other)
    /\ \A t \in {u \in ToSet(flat) : Native(u)} :
         LinkedProducts(xcode.heap, xcode.targets[t])
             \cap {Prop(xcode.heap, xcode.targets[u], "productReference") : u \in {v \in ToSet(flat) : Native(v)}}
           = {Prop(xcode.heap, xcode.targets[file[1]], "productReference") : file \in LinkedBefore(t)}

\* What a product is called.
ProductFileFor(kind, prefix, name, forced) ==
  ProductFile(kind, prefix, Stripped(prefix, name \o (IF kind.tool THEN Forced(forced, "") ELSE "")), forced)
ProductIn(options, type, name) ==
  ProductFileFor(ProductFileTypes[type], Forced(options.prefix, ProductFileTypes[type].prefix), name,
                 Forcing(type, options.extension))
ProductOfTarget(t) ==
  ProductIn(Contents(t).product, ProductTypeOf(Dict(t).type, Contents(t).bundle),
            Forced(Contents(t).product.name, Contents(t).name))

Repeats(s) == \E i, j \in DOMAIN s : i < j /\ s[i] = s[j]
ProductsOf(f) ==
  LET native == SelectSeq(FileTargets(f), LAMBDA t : Native(t))
  IN  [i \in DOMAIN native |-> ProductOfTarget(native[i])]

\* The paths that are compiled, and a folder among the paths that are listed.
CompiledIn(t) ==
  SelectSeq(SelectSeq(Contents(t).sources, LAMBDA p : ~Ruled(t, p))
              \o FlattenSeq([i \in DOMAIN Contents(t).actions |->
                   IF Contents(t).actions[i].asSources THEN Contents(t).actions[i].outputs ELSE <<>>]),
            LAMBDA p : Ext(p) \in SourceExtensions)
FolderRepeats(paths) ==
  \E i, j \in DOMAIN paths : i # j /\ Last(paths[i]) = "" /\ IsPrefix(Front(paths[i]), paths[j])
ShownIn(f) ==
  FlattenSeq([i \in DOMAIN FileTargets(f) |->
    Contents(FileTargets(f)[i]).sources \o Contents(FileTargets(f)[i]).excluded \o Bundled(FileTargets(f)[i])])

\* The projects that one refers to.
OthersOf(f) == {BuildFile(d) : d \in UNION {deps[t] : t \in BuildFileTargets(f)}} \ {f}

\* What a project cannot have: two products of one name, two actions of a target with
\* one name, a source that is compiled twice, a folder that is listed twice or with
\* something in it, and two projects it refers to that are called the same and have
\* the same products.
Clash(f) ==
  \/ Repeats(ProductsOf(f))
  \/ \E t \in BuildFileTargets(f) :
       \/ Repeats([i \in DOMAIN Contents(t).actions |-> Contents(t).actions[i].name])
       \/ Native(t) /\ Repeats(CompiledIn(t))
  \/ FolderRepeats(ShownIn(f))
  \/ \E g, k \in OthersOf(f) :
       g # k /\ Last(Build(g).path) = Last(Build(k).path) /\ ProductsOf(g) = ProductsOf(k)

\* Exceptions in operations on objects are these clashes, and each of them is one: all
\* objects of any other project have ids of their own, whatever is named alike, and a
\* product is found by which another project's target is linked, also if that was added
\* after the two projects first referred to each other.
RefusedForAReason ==
  Followed /\ stage \in {"done", "objects"} =>
    (stage = "objects" <=> \E f \in loaded : Clash(f))
=============================================================================
