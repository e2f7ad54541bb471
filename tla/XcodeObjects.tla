---------------------------- MODULE XcodeObjects ----------------------------
(***************************************************************************)
(* The objects of an Xcode project file (xcodeproj_file.py): groups and    *)
(* references to files, targets with their phases, and projects that refer *)
(* to each other.  The heap has all objects of all projects; an object is  *)
(* its number there.  Each operator takes the heap and returns it changed, *)
(* with the object it is about as "it", and with a fault if it ends in an  *)
(* exception, behind which nothing more is done.                           *)
(*                                                                         *)
(* A path is a sequence of components, that of a directory with "" as the  *)
(* last one, that of an absolute path with "" as the first.  All are       *)
(* normal (posixpath.normpath).  Names are sequences of strings.  An id is *)
(* what is hashed for it, in order: no two of these have the same SHA-1.   *)
(* Alphabetical sorting is left out, and so is text that is only printed.  *)
(***************************************************************************)
EXTENDS Integers, SequencesExt

CONSTANTS
  SourceTrees,         \* components "$(X)" that a path in a source tree begins with
  IntermediateTrees,   \* those of generated files (source_tree_groups)
  LocalizedDirs,       \* components "x.lproj"
  Extension,           \* component -> what is behind its last dot
  Unprefixed           \* <<prefix, name>> -> the rest of a name with that prefix

EmptyHeap == [objects |-> <<>>, it |-> 0, fault |-> "none"]

Fail(h, fault) == IF h.fault = "none" THEN [h EXCEPT !.fault = fault] ELSE h
Yields(h, o) == [h EXCEPT !.it = o]

Class(h, o) == h.objects[o].class
Prop(h, o, key) == h.objects[o].props[key]
Has(h, o, key) == key \in DOMAIN h.objects[o].props
PropOr(h, o, key, default) == IF Has(h, o, key) THEN Prop(h, o, key) ELSE default

Groups == {"PBXGroup", "PBXVariantGroup"}
Hierarchical == Groups \cup {"PBXFileReference", "PBXReferenceProxy"}
Phases == {"PBXHeadersBuildPhase", "PBXResourcesBuildPhase", "PBXSourcesBuildPhase",
           "PBXFrameworksBuildPhase", "PBXShellScriptBuildPhase", "PBXCopyFilesBuildPhase"}
XCTargets == {"PBXNativeTarget", "PBXAggregateTarget"}

\* Of each schema the properties that are strong, whether lists or not.
StrongLists == <<"children", "files", "buildPhases", "dependencies", "targets", "buildConfigurations">>
StrongOnes == <<"mainGroup", "buildConfigurationList", "targetProxy", "remoteRef">>

\* The objects they refer to.
Strong(props) ==
  FoldLeft(LAMBDA all, key : IF key \in DOMAIN props THEN all \o props[key] ELSE all,
           SelectSeq([i \in DOMAIN StrongOnes |-> IF StrongOnes[i] \in DOMAIN props
                                                  THEN props[StrongOnes[i]] ELSE 0], LAMBDA o : o # 0),
           StrongLists)

\* Defaults of the schemas that are no objects.
Defaults(class) ==
  CASE class \in Groups -> [sourceTree |-> "<group>", children |-> <<>>]
    [] class \in Hierarchical \ Groups -> [sourceTree |-> "<group>"]
    [] class \in Phases -> [files |-> <<>>]
    [] class \in XCTargets -> [buildPhases |-> <<>>, dependencies |-> <<>>]
    [] class = "XCBuildConfiguration" -> [buildSettings |-> <<>>]
    [] class = "PBXProject" -> [targets |-> <<>>]
    [] OTHER -> <<>>

Required(class) ==
  CASE class \in {"PBXFileReference", "PBXReferenceProxy"} -> {"path"}
    [] class = "PBXBuildFile" -> {"fileRef"}
    [] class = "PBXCopyFilesBuildPhase" -> {"dstPath"}
    [] class = "PBXNativeTarget" -> {"name", "productName", "productReference", "productType"}
    [] class = "PBXAggregateTarget" -> {"name", "productName"}
    [] class \in {"XCBuildConfiguration", "PBXShellScriptBuildPhase"} -> {"name"}
    [] OTHER -> {}

Adopt(h, o, props) == FoldLeft(LAMBDA a, c : [a EXCEPT !.objects[c].parent = o], h, Strong(props))

UpdateProperties(h, o, props) ==
  Adopt([h EXCEPT !.objects[o].props = props @@ @], o, props)

AppendProperty(h, o, key, value) ==
  Adopt([h EXCEPT !.objects[o].props = key :> Append(PropOr(h, o, key, <<>>), value) @@ @],
        o, key :> <<value>>)

\* list.insert, behind the first n, with the parent set as all callers do.
InsertProperty(h, o, key, n, value) ==
  Adopt([h EXCEPT !.objects[o].props[key] = InsertAt(@, n + 1, value)], o, key :> <<value>>)

\* Of an object, paths and index are the dictionaries next to its properties: of a
\* group _children_by_path and _variant_children_by_name_and_path, of a phase
\* _files_by_path and _files_by_xcfilelikeelement, of a project _other_pbxprojects;
\* salt is _hashables.
Object(class, parent, props) ==
  [class |-> class, parent |-> parent, props |-> props, salt |-> <<>>,
   paths |-> <<>>, index |-> <<>>]

-----------------------------------------------------------------------------
(* Groups and files *)

Without(f, keys) == [k \in DOMAIN f \ keys |-> f[k]]

\* SourceTreeAndPathFromPath, of a path in a source tree.
InSourceTree(props, path) ==
  (IF Len(path) > 1 THEN [path |-> Tail(path)] @@ props
   ELSE IF "name" \in DOMAIN props THEN props
   ELSE [name |-> path] @@ Without(props, {"path"})) @@ [sourceTree |-> path[1]]

\* XCHierarchicalElement.__init__
Named(props) ==
  IF "path" \in DOMAIN props /\ "name" \notin DOMAIN props
     /\ Last(props["path"]) # "" /\ Len(props["path"]) > 1
  THEN [name |-> <<Last(props["path"])>>] @@ props ELSE props
Placed(props) ==
  IF \/ "path" \notin DOMAIN props \/ "sourceTree" \in DOMAIN props
     \/ props["path"][1] \notin SourceTrees
  THEN props ELSE InSourceTree(props, props["path"])

\* PBXFileReference.__init__, with the extension for the type.
Ext(path) == IF Last(path) \in DOMAIN Extension THEN Extension[Last(path)] ELSE ""
Typed(props) ==
  CASE "path" \notin DOMAIN props -> props
    [] "path" \in DOMAIN props /\ Last(props["path"]) = "" /\ Len(props["path"]) > 1 ->
         [path |-> Front(props["path"])] @@ props @@ [lastKnownFileType |-> "folder"]
    [] OTHER -> IF {"explicitFileType", "lastKnownFileType"} \cap DOMAIN props # {} THEN props
                ELSE IF Ext(props["path"]) \in {"dart", "gyp", "gypi"}
                THEN [explicitFileType |-> Ext(props["path"])] @@ props
                ELSE [lastKnownFileType |-> Ext(props["path"])] @@ props

Initial(class, props) ==
  CASE class = "PBXFileReference" -> Typed(Placed(Named(props)))
    [] class \in Hierarchical \ {"PBXFileReference"} -> Placed(Named(props))
    [] OTHER -> props

\* XCObject.__init__, with SetDefaults.
NewChild(h, class, props, parent) ==
  UpdateProperties([h EXCEPT !.objects = Append(@, Object(class, parent, <<>>)), !.it = Len(h.objects) + 1],
                   Len(h.objects) + 1, Initial(class, props) @@ Defaults(class))
New(h, class, props) == NewChild(h, class, props, 0)

\* XCHierarchicalElement.PathFromSourceTreeAndPath, <<>> for None.
PathFromSourceTreeAndPath(h, o) ==
  (IF Prop(h, o, "sourceTree") = "<group>" THEN <<>> ELSE <<Prop(h, o, "sourceTree")>>)
    \o PropOr(h, o, "path", <<>>)

\* posixpath.join
JoinPaths(a, b) ==
  IF b # <<>> /\ (a = <<"">> \/ (b[1] = "" /\ Len(b) > 1)) THEN b ELSE a \o b

\* FullPath: as long as there are parents, and until a path is not relative.
RECURSIVE PathFrom(_, _, _)
PathFrom(h, o, path) ==
  IF \/ o = 0 \/ Class(h, o) \notin Hierarchical
     \/ path # <<>> /\ (path[1] \in SourceTrees \/ (path[1] = "" /\ Len(path) > 1))
  THEN path
  ELSE PathFrom(h, h.objects[o].parent, JoinPaths(PathFromSourceTreeAndPath(h, o), path))
FullPath(h, o) == PathFrom(h, o, <<>>)

\* PBXProjectAncestor, which is itself for a project, and 0 for None.
RECURSIVE Ancestor(_, _)
Ancestor(h, o) ==
  IF o = 0 \/ Class(h, o) = "PBXProject" THEN o ELSE Ancestor(h, h.objects[o].parent)

\* _AddChildToDicts, of a child that AppendChild has appended.
AddChildToDicts(h, group, child, path) ==
  LET key == <<PropOr(h, child, "name", <<>>), path>>
      variant == Class(h, child) = "PBXVariantGroup"
  IN  IF \/ path \notin {<<>>, <<"">>} /\ path \in DOMAIN h.objects[group].paths
         \/ variant /\ key \in DOMAIN h.objects[group].index
      THEN Fail(h, "children")
      ELSE [h EXCEPT !.objects[group] =
              [@ EXCEPT !.paths = IF path \in {<<>>, <<"">>} THEN @ ELSE path :> child @@ @,
                        !.index = IF variant THEN key :> child @@ @ ELSE @]]

AppendChild(h, group, child) ==
  Yields(AddChildToDicts(AppendProperty(h, group, "children", child), group, child,
                         PathFromSourceTreeAndPath(h, child)), child)
AppendIt(h, group) == AppendChild(h, group, h.it)
AppendNew(h, group, class, props) == AppendIt(New(h, class, props), group)

\* GetChildByPath, and what a missing child is replaced by.
GetChild(h, group, path, class, props) ==
  IF path \in DOMAIN h.objects[group].paths
  THEN IF Class(h, h.objects[group].paths[path]) = class
       THEN Yields(h, h.objects[group].paths[path]) ELSE Fail(h, "class")
  ELSE AppendNew(h, group, class, props)

\* AddOrGetVariantGroupByNameAndPath
GetVariantGroup(h, group, name, path) ==
  IF <<name, path>> \in DOMAIN h.objects[group].index
  THEN Yields(h, h.objects[group].index[<<name, path>>])
  ELSE AppendNew(h, group, "PBXVariantGroup",
                 [name |-> name] @@ (IF path = <<>> THEN <<>> ELSE [path |-> path]))

\* One localization, with the group of all of them as the result.
AddVariant(h, variants, path) ==
  Yields(GetChild(h, variants, SubSeq(path, Len(path) - 1, Len(path)), "PBXFileReference",
                  [name |-> <<path[Len(path) - 1]>>, path |-> SubSeq(path, Len(path) - 1, Len(path))]), variants)

\* AddOrGetFileByPath: the reference, or the group of localizations, for a path in
\* a group, with the groups on the way there if these are to be hierarchical.
RECURSIVE AddOrGetFileByPath(_, _, _, _)
AddOrGetFileByPath(h, group, path, hierarchical) ==
  LET dir == Len(path) > 1 /\ Last(path) = ""
      localized == Len(path) > 1 /\ path[Len(path) - 1] \in LocalizedDirs
      Below(g) == AddOrGetFileByPath(g, g.it, Tail(path), hierarchical)
      Variant(g) == AddVariant(g, g.it, path)
  IN  CASE h.fault # "none" -> h
        [] h.fault = "none" /\ dir /\ localized -> Fail(h, "localized directory")
        [] OTHER ->
             IF hierarchical /\ Len(path) > IF dir \/ localized THEN 2 ELSE 1
             THEN Below(GetChild(h, group, <<path[1]>>, "PBXGroup", [path |-> <<path[1]>>]))
             ELSE IF localized
             THEN Variant(GetVariantGroup(h, group, <<Last(path)>>, SubSeq(path, 1, Len(path) - 2)))
             ELSE GetChild(h, group, path, "PBXFileReference", [path |-> path])

Name(h, o) == PropOr(h, o, "name", PropOr(h, o, "path", <<>>))

\* _GroupByName
GroupNamed(h, main, name) == SelectSeq(Prop(h, main, "children"), LAMBDA c : Name(h, c) = name)
FirstOr(h, found, created) == IF found = <<>> THEN created ELSE Yields(h, found[1])
GroupByName(h, project, name) ==
  FirstOr(h, GroupNamed(h, Prop(h, project, "mainGroup"), name),
          AppendNew(h, Prop(h, project, "mainGroup"), "PBXGroup", [name |-> name]))

\* RootGroupForPath
RootGroupForPath(h, project, path) ==
  GroupByName(h, project, IF path[1] \in IntermediateTrees THEN <<"Intermediates">> ELSE <<"Source">>)

AddTo(h, path, hierarchical) == AddOrGetFileByPath(h, h.it, path, hierarchical)

\* AddOrGetFileInRootGroup
AddOrGetFileInRootGroup(h, project, path) ==
  IF h.fault # "none" THEN h ELSE AddTo(RootGroupForPath(h, project, path), path, TRUE)

\* One round of TakeOverOnlyChild, by which a group becomes its only child.
TakenOver(h, group, child) ==
  LET old == h.objects[group].props
      new == h.objects[child].props
      path == JoinPaths(PropOr(h, group, "path", <<>>), PropOr(h, child, "path", <<>>))
      placed == IF new["sourceTree"] # "<group>" THEN new
                ELSE (IF path = <<>> THEN <<>> ELSE [path |-> path])
                       @@ [sourceTree |-> old["sourceTree"]] @@ new
      named == IF "name" \in DOMAIN old THEN [name |-> old["name"]] @@ placed ELSE placed
  IN  IF "name" \in DOMAIN named /\ "path" \in DOMAIN named /\ named["name"] = named["path"]
      THEN Without(named, {"name"}) ELSE named

\* Defect: the children keep the group they were in as their parent.
TakeOverLoosely(h, group, child) ==
  [h EXCEPT !.objects[group].props = TakenOver(h, group, child),
            !.objects[group].paths = h.objects[child].paths]

TakeOver(h, group, child) ==
  Adopt([h EXCEPT !.objects[group].props = TakenOver(h, group, child),
                  !.objects[group].paths = h.objects[child].paths],
        group, h.objects[child].props)

RECURSIVE TakeOverOnlyChild(_, _)
TakeOverOnlyChild(h, group) ==
  LET children == Prop(h, group, "children")
  IN  IF Len(children) = 1 /\ Class(h, children[1]) = "PBXGroup"
      THEN TakeOverOnlyChild(TakeOver(h, group, children[1]), group)
      ELSE FoldLeft(LAMBDA a, c : IF Class(a, c) = "PBXGroup" THEN TakeOverOnlyChild(a, c) ELSE a,
                    h, children)

-----------------------------------------------------------------------------
(* Build configurations *)

\* An XCConfigurationList without the default configurations of its schema, which all
\* callers replace.
NewConfigurationList(h, default) ==
  New(h, "XCConfigurationList", [buildConfigurations |-> <<>>, defaultConfigurationName |-> default])

\* CreateXCConfigurationList
CreateXCConfigurationList(h, names) ==
  LET list == Len(h.objects) + 1
      all == IF names = <<>> THEN <<<<"Default">>>> ELSE names
      Add(a) == AppendProperty(a, list, "buildConfigurations", a.it)
  IN  Yields(FoldLeft(LAMBDA a, name : Add(New(a, "XCBuildConfiguration", [name |-> name])),
                      NewConfigurationList(h, all[1]), all),
             list)

\* An XCTarget asks the list it has.
Configurations(h, o) == Prop(h, Prop(h, o, "buildConfigurationList"), "buildConfigurations")
Settings(h, configuration) == Prop(h, configuration, "buildSettings")

\* HasBuildSetting, of which callers tell apart 0 and anything else.
HasBuildSetting(h, o, key) ==
  \E i \in DOMAIN Configurations(h, o) : key \in DOMAIN Settings(h, Configurations(h, o)[i])

\* GetBuildSetting, where all configurations have the same.
GetBuildSetting(h, o, key) == Settings(h, Configurations(h, o)[1])[key]

SetIn(h, configuration, settings) ==
  [h EXCEPT !.objects[configuration].props["buildSettings"] = settings @@ @]

\* SetBuildSetting, of several settings.
SetBuildSettings(h, o, settings) ==
  FoldLeft(LAMBDA a, c : SetIn(a, c, settings), h, Configurations(h, o))

AppendIn(h, configuration, key, value) ==
  SetIn(h, configuration,
        key :> Append(IF key \in DOMAIN Settings(h, configuration)
                      THEN Settings(h, configuration)[key] ELSE <<>>, value))
AppendBuildSetting(h, o, key, value) ==
  FoldLeft(LAMBDA a, c : AppendIn(a, c, key, value), h, Configurations(h, o))

\* SetBaseConfiguration, of the object of the last operation.
SetBaseConfiguration(h, configurations) ==
  FoldLeft(LAMBDA a, c : UpdateProperties(a, c, [baseConfigurationReference |-> h.it]),
           h, configurations)

-----------------------------------------------------------------------------
(* Phases *)

\* PBXBuildFile, in no phase yet.
NewBuildFile(h, reference, settings) == New(h, "PBXBuildFile", [fileRef |-> reference] @@ settings)

\* XCBuildPhase.__init__, of a phase without files: both of its dictionaries are empty.
NewPhase(h, class, props, parent) == NewChild(h, class, props, parent)

\* _AddBuildFileToDicts, of a file whose path the caller gives.
AddBuildFileToDicts(h, phase, buildFile, reference, path) ==
  LET variant == Class(h, reference) = "PBXVariantGroup"
  IN  IF \/ variant /\ path \in DOMAIN h.objects[phase].paths
         \/ /\ reference \in DOMAIN h.objects[phase].index
            /\ h.objects[phase].index[reference] # buildFile
      THEN Fail(h, "build files")
      ELSE [h EXCEPT !.objects[phase] =
              [@ EXCEPT !.paths = IF variant THEN path :> buildFile @@ @ ELSE @,
                        !.index = reference :> buildFile @@ @]]

\* AppendBuildFile, of the build file made last.
AppendBuildFile(h, phase, reference, path) ==
  AddBuildFileToDicts(AppendProperty(h, phase, "files", h.it), phase, h.it, reference, path)

\* AddFile, from the reference on: the localizations of a file are built as one.
AddReference(h, phase, path, settings) ==
  IF h.fault # "none" THEN h
  ELSE IF h.it \in DOMAIN h.objects[phase].index /\ Class(h, h.it) = "PBXVariantGroup"
  THEN AddBuildFileToDicts(h, phase, h.objects[phase].index[h.it], h.it, path)
  ELSE AppendBuildFile(NewBuildFile(h, h.it, settings), phase, h.it, path)

\* Libraries that are no objects go to a group without hierarchy (FileGroup).
AddFileWith(h, phase, path, settings) ==
  IF h.fault # "none" THEN h
  ELSE IF Class(h, phase) = "PBXFrameworksBuildPhase" /\ Ext(path) # "o"
  THEN AddReference(AddTo(GroupByName(h, Ancestor(h, phase), <<"Frameworks">>), path, FALSE),
                    phase, path, settings)
  ELSE AddReference(AddOrGetFileInRootGroup(h, Ancestor(h, phase), path), phase, path, settings)
AddFile(h, phase, path) == AddFileWith(h, phase, path, <<>>)

PhaseOf(h, target, class) ==
  SelectSeq(Prop(h, target, "buildPhases"), LAMBDA p : Class(h, p) = class)

\* The phase of a class, which goes before those of other classes if it is new.
InsertPhase(h, target, at) ==
  InsertProperty(h, target, "buildPhases",
                 IF at = 0 THEN Len(Prop(h, target, "buildPhases")) ELSE at - 1, h.it)
OnlyPhase(h, target, found, class, behind) ==
  CASE Len(found) = 1 -> Yields(h, found[1])
    [] Len(found) > 1 -> Fail(h, "phases")
    [] OTHER -> InsertPhase(NewPhase(h, class, <<>>, 0), target,
                  SelectInSeq(Prop(h, target, "buildPhases"), LAMBDA p : Class(h, p) \in behind))
Phase(h, target, class, behind) == OnlyPhase(h, target, PhaseOf(h, target, class), class, behind)

SourcesOf(h, target) == Phase(h, target, "PBXSourcesBuildPhase", {})
FrameworksOf(h, target) == Phase(h, target, "PBXFrameworksBuildPhase", {})
ResourcesOf(h, target) ==
  Phase(h, target, "PBXResourcesBuildPhase", {"PBXSourcesBuildPhase", "PBXFrameworksBuildPhase"})
HeadersOf(h, target) ==
  Phase(h, target, "PBXHeadersBuildPhase",
        {"PBXResourcesBuildPhase", "PBXSourcesBuildPhase", "PBXFrameworksBuildPhase"})

\* SetDestination of a phase that copies, for a path that is not relative.
Destination(path) ==
  CASE path[1] = "$(BUILT_PRODUCTS_DIR)" -> [dstSubfolderSpec |-> "products", dstPath |-> Tail(path)]
    [] path[1] = "" -> [dstSubfolderSpec |-> "root", dstPath |-> Tail(path)]
    [] OTHER -> [dstSubfolderSpec |-> "root", dstPath |-> path]

-----------------------------------------------------------------------------
(* Targets and their products *)

\* _product_filetypes, by the last words of a product's type; the bundles Apple has
\* no type for are "so".
ProductType(wrapper, tool, prefix, suffix) ==
  [wrapper |-> wrapper, tool |-> tool, prefix |-> prefix, suffix |-> suffix]
ProductFileTypes ==
  [application |-> ProductType(TRUE, FALSE, "", ".app"),
   bundle |-> ProductType(TRUE, FALSE, "", ".bundle"),
   framework |-> ProductType(TRUE, FALSE, "", ".framework"),
   dynamic |-> ProductType(FALSE, FALSE, "lib", ".dylib"),
   static |-> ProductType(FALSE, FALSE, "lib", ".a"),
   tool |-> ProductType(FALSE, TRUE, "", ""),
   unittest |-> ProductType(TRUE, FALSE, "", ".xctest"),
   so |-> ProductType(FALSE, FALSE, "", ".so")]

\* XCTarget.__init__: the project is the parent at once, before it lists the target.
Titled(h, target, title) ==
  IF HasBuildSetting(h, target, "PRODUCT_NAME") THEN h
  ELSE SetBuildSettings(h, target, [PRODUCT_NAME |-> title])
TitledIt(h) == Titled(h, h.it, Prop(h, h.it, "productName"))
NewXCTarget(h, class, props, project) ==
  TitledIt(NewChild(h, class, props @@ [productName |-> props["name"][1]], project))

\* The default phases of a PBXNativeTarget.
WithPhases(h, target) == Yields(FrameworksOf(SourcesOf(h, target), target), target)

\* The rest of PBXNativeTarget.__init__: what the product is called, and where it is.
\* Options are sets that are empty or have one member.
Forced(option, default) == IF option = {} THEN default ELSE CHOOSE o \in option : TRUE

ProductNamed(h, target, name) ==
  SetBuildSettings(UpdateProperties(h, target, [productName |-> name]), target, [PRODUCT_NAME |-> name])

Stripped(prefix, name) ==
  IF <<prefix, name>> \in DOMAIN Unprefixed THEN Unprefixed[<<prefix, name>>] ELSE name

\* The extension that is asked for, with its dot; one of a "so" is there always.
Forcing(type, extension) == IF type = "so" /\ extension = {} THEN {".so"} ELSE extension

ProductSettings(type, kind, prefix, forced, dir) ==
  (IF type = "so" THEN [MACH_O_TYPE |-> "mh_bundle", DYLIB_CURRENT_VERSION |-> "",
                        DYLIB_COMPATIBILITY_VERSION |-> ""] ELSE <<>>)
    @@ (IF forced = {} THEN <<>>
        ELSE (IF kind.wrapper THEN "WRAPPER_EXTENSION" ELSE "EXECUTABLE_EXTENSION") :> Forced(forced, ""))
    @@ (IF kind.wrapper THEN "WRAPPER_PREFIX" ELSE "EXECUTABLE_PREFIX") :> prefix
    @@ (IF dir = {} THEN <<>> ELSE [TARGET_BUILD_DIR |-> Forced(dir, "")])

\* A tool with an extension has that in its name.
ProductFile(kind, prefix, name, forced) ==
  prefix \o name \o
    (CASE kind.tool /\ forced # {} -> "" [] kind.wrapper -> kind.suffix [] OTHER -> Forced(forced, kind.suffix))
LongName(h, target, kind, forced) ==
  Prop(h, target, "productName") \o (IF kind.tool THEN Forced(forced, "") ELSE "")

Refer(h, target) == UpdateProperties(h, target, [productReference |-> h.it])
ReferToProduct(h, target, type, file) ==
  Yields(Refer(AppendNew(h, h.it, "PBXFileReference",
                         [explicitFileType |-> type, sourceTree |-> "$(BUILT_PRODUCTS_DIR)", path |-> <<file>>]),
               target), target)
Renamed(h, target, name) ==
  IF name = Prop(h, target, "productName") THEN h ELSE ProductNamed(h, target, name)
PutProduct(h, target, type, kind, prefix, name, forced, dir) ==
  ReferToProduct(
    GroupByName(
      UpdateProperties(
        SetBuildSettings(Renamed(h, target, name), target, ProductSettings(type, kind, prefix, forced, dir)),
        target, [productType |-> IF type = "so" THEN "dynamic" ELSE type]),
      Ancestor(h, target), <<"Products">>),
    target, type, ProductFile(kind, prefix, name, forced))
NameProduct(h, target, type, kind, prefix, forced, dir) ==
  PutProduct(h, target, type, kind, prefix, Stripped(prefix, LongName(h, target, kind, forced)), forced, dir)
ProductOf(h, target, options, type) ==
  NameProduct(h, target, type, ProductFileTypes[type], Forced(options.prefix, ProductFileTypes[type].prefix),
              Forcing(type, options.extension), options.dir)
Product(h, target, options) == ProductOf(h, target, options, Prop(h, target, "productType"))

\* PBXContainerItemProxy: what stands for a target or a product of a project, whose portal
\* is that project itself or a reference to its file.
NewProxy(h, portal, remote) ==
  New(h, "PBXContainerItemProxy", [containerPortal |-> portal, remoteGlobalIDString |-> remote])

\* XCTarget's AddDependency, once the portal to the other target's project is known.
Depend(h, target) == Yields(AppendProperty(h, target, "dependencies", h.it), h.it)
Dependency(h, props) == New(h, "PBXTargetDependency", [targetProxy |-> h.it] @@ props)
DependThrough(h, target, other, portal, props) ==
  Depend(Dependency(NewProxy(h, portal, other), props), target)

-----------------------------------------------------------------------------
(* Ids *)

\* Name, of those that are not XCHierarchicalElements too, <<>> for None.
RECURSIVE NameOf(_, _)
ProjectName(h, o) == <<Last(Prop(h, o, "path"))>>
BuildFileName(h, o) == NameOf(h, Prop(h, o, "fileRef")) \o <<" in ">> \o NameOf(h, h.objects[o].parent)
ListName(h, o) ==
  <<"Build configuration list for ", Class(h, h.objects[o].parent)>> \o NameOf(h, h.objects[o].parent)
NameOf(h, o) ==
  LET class == Class(h, o)
  IN  CASE class \in Hierarchical -> Name(h, o)
        [] class \in XCTargets \cup {"XCBuildConfiguration"} -> Prop(h, o, "name")
        [] class = "PBXProject" -> ProjectName(h, o)
        [] class = "PBXBuildFile" -> BuildFileName(h, o)
        [] class = "XCConfigurationList" -> ListName(h, o)
        [] OTHER -> PropOr(h, o, "name", <<class>>)

\* XCObject.Hashables
ObjectHashables(h, o) ==
  <<<<Class(h, o)>>>> \o (IF NameOf(h, o) = <<>> THEN <<>> ELSE <<NameOf(h, o)>>) \o h.objects[o].salt

\* XCHierarchicalElement.Hashables, which HashablesForChild of a group gives.
PathHashables(class, path) ==
  FlattenSeq([i \in DOMAIN path |-> <<<<class, ".path">>, <<path[i]>>>>])
ElementHashables(h, o) ==
  IF o = Prop(h, Ancestor(h, o), "mainGroup") THEN ObjectHashables(h, o)
  ELSE (IF Has(h, o, "name") THEN <<<<Class(h, o), ".name">>, Prop(h, o, "name")>> ELSE <<>>)
         \o PathHashables(Class(h, o), PathFromSourceTreeAndPath(h, o)) \o h.objects[o].salt

\* What the Hashables of a group has besides: the names of its children.
ChildNames(h, group) ==
  SelectSeq([i \in DOMAIN Prop(h, group, "children") |-> Name(h, Prop(h, group, "children")[i])],
            LAMBDA n : n # <<>>)

\* Hashables of all classes, and of a file with all groups above it.
RECURSIVE Hashables(_, _), HashablesFrom(_, _)
BuildFileHashables(h, o) == ObjectHashables(h, o) \o HashablesFrom(h, Prop(h, o, "fileRef"))
ProxyHashables(h, o) ==
  ObjectHashables(h, o) \o Hashables(h, Prop(h, o, "containerPortal"))
    \o Hashables(h, Prop(h, o, "remoteGlobalIDString"))
DependencyHashables(h, o) == ObjectHashables(h, o) \o Hashables(h, Prop(h, o, "targetProxy"))
Hashables(h, o) ==
  LET class == Class(h, o)
  IN  CASE class \in Groups -> ElementHashables(h, o) \o ChildNames(h, o)
        [] class \in Hierarchical \ Groups -> ElementHashables(h, o)
        [] class = "PBXBuildFile" -> BuildFileHashables(h, o)
        [] class = "PBXContainerItemProxy" -> ProxyHashables(h, o)
        [] class = "PBXTargetDependency" -> DependencyHashables(h, o)
        [] OTHER -> ObjectHashables(h, o)
HashablesFrom(h, o) ==
  IF o = 0 \/ Class(h, o) \notin Hierarchical THEN <<>>
  ELSE HashablesFrom(h, h.objects[o].parent) \o Hashables(h, o)

\* Children, for a project with the groups of other projects' products.
Children(h, o) ==
  Strong(h.objects[o].props) \o
  (IF Class(h, o) # "PBXProject" THEN <<>>
   ELSE [i \in DOMAIN PropOr(h, o, "projectReferences", <<>>) |->
           h.objects[o].index[Prop(h, o, "projectReferences")[i]].group])

RECURSIVE Descendants(_, _)
Descendants(h, o) ==
  FoldLeft(LAMBDA all, c : all \o Descendants(h, c), <<o>>, Children(h, o))

\* XCObject.Print, which begins with VerifyHasRequiredProperties; the text is left out.
Prints(h, o) == Required(Class(h, o)) \subseteq DOMAIN h.objects[o].props

\* ComputeIDs: object -> its id, for an object and all its descendants.
RECURSIVE ComputeIDs(_, _, _)
ComputeIDs(h, o, seed) ==
  LET below == seed \o (IF Class(h, o) \in Groups THEN ElementHashables(h, o) ELSE Hashables(h, o))
  IN  FoldLeft(LAMBDA ids, c : ComputeIDs(h, c, below) @@ ids, o :> seed \o Hashables(h, o), Children(h, o))

\* EnsureNoIDCollisions does not raise.
NoIDCollisions(ids, descendants) ==
  Cardinality({ids[o] : o \in ToSet(descendants)}) = Len(descendants)

-----------------------------------------------------------------------------
(* Projects *)

\* A PBXProject, at the path of its .xcodeproj, with the group that its schema makes.
GroupOf(h, project) == Yields(UpdateProperties(h, project, [mainGroup |-> h.it]), project)
NewProject(h, path) ==
  GroupOf(New(New(h, "PBXProject", [path |-> path]), "PBXGroup", <<>>), Len(h.objects) + 1)

\* RelativePath (common.py)
RelativeTo(path, dir) ==
  LET common == Len(LongestCommonPrefix({path, dir}))
  IN  [i \in 1..(Len(dir) - common) |-> ".."] \o SubSeq(path, common + 1, Len(path))

\* GetChildByRemoteObject, for all there are.
ByRemoteObject(h, group, remote) ==
  SelectSeq(Prop(h, group, "children"),
            LAMBDA c : /\ Class(h, c) = "PBXReferenceProxy"
                       /\ Prop(h, Prop(h, c, "remoteRef"), "remoteGlobalIDString") = remote)

NativeTargets(h, project) ==
  SelectSeq(Prop(h, project, "targets"), LAMBDA t : Class(h, t) = "PBXNativeTarget")
ProductReferences(h, project) ==
  [i \in DOMAIN NativeTargets(h, project) |-> Prop(h, NativeTargets(h, project)[i], "productReference")]

\* _SetUpProductReferences: a proxy for each product that has none yet.
ProxyFor(h, group, product) ==
  AppendNew(h, group, "PBXReferenceProxy",
            [fileType |-> Prop(h, product, "explicitFileType"), path |-> Prop(h, product, "path"),
             sourceTree |-> Prop(h, product, "sourceTree"), remoteRef |-> h.it])
RefersTo(h, group, reference, product) ==
  IF ByRemoteObject(h, group, product) # <<>> THEN h
  ELSE ProxyFor(NewProxy(h, reference, product), group, product)
SetUpProductReferences(h, other, entry) ==
  FoldLeft(LAMBDA a, product : RefersTo(a, entry.group, entry.reference, product),
           h, ProductReferences(h, other))

\* Only the salt of the group of another project's products tells it from others.
Salted(h, salt) == [h EXCEPT !.objects[h.it].salt = salt]
ProductGroup(h, project, salt) ==
  Salted(NewChild(h, "PBXGroup", [name |-> <<"Products">>], project), salt)

\* The group and the reference are entered into _other_pbxprojects.
EnterReference(h, project, other, group) ==
  [h EXCEPT !.objects[project].index = other :> [group |-> group, reference |-> h.it] @@ @]
FileOfProject(h, path) ==
  AppendNew(h, h.it, "PBXFileReference",
            [lastKnownFileType |-> "pb-project", path |-> path, sourceTree |-> "$(SOURCE_ROOT)"])
ReferToProject(h, project, other) ==
  EnterReference(
    FileOfProject(GroupByName(h, project, <<"Projects">>),
                  RelativeTo(Prop(h, other, "path"), Front(Prop(h, project, "path")))),
    project, other, h.it)
NewProjectReference(h, project, other) ==
  AppendProperty(ReferToProject(ProductGroup(h, project, Hashables(h, other)), project, other),
                 project, "projectReferences", other)
CompleteReference(h, project, other) ==
  SetUpProductReferences(h, other, h.objects[project].index[other])

\* Defect: a project that is referred to already is not looked at again.
ProjectReferenceOnce(h, project, other) ==
  IF other \in DOMAIN h.objects[project].index THEN h
  ELSE CompleteReference(NewProjectReference(h, project, other), project, other)

\* AddOrGetProjectReference; what it returns is in the index.
AddOrGetProjectReference(h, project, other) ==
  CompleteReference(IF other \in DOMAIN h.objects[project].index THEN h
                    ELSE NewProjectReference(h, project, other), project, other)

\* AddDependency of XCTarget.  Only targets of other projects are named.
DependElsewhere(h, target, other, project, there) ==
  DependThrough(h, target, other, h.objects[project].index[there].reference, [name |-> Prop(h, other, "name")])
DependFrom(h, target, other, project, there) ==
  IF project = there THEN DependThrough(h, target, other, project, [target |-> other])
  ELSE DependElsewhere(AddOrGetProjectReference(h, project, there), target, other, project, there)
AddTargetDependency(h, target, other) ==
  DependFrom(h, target, other, Ancestor(h, target), Ancestor(h, other))

\* What PBXNativeTarget's AddDependency links: libraries, unless they only can be loaded.
Linked(h, target, other) ==
  /\ Class(h, target) = "PBXNativeTarget" /\ Class(h, other) = "PBXNativeTarget"
  /\ Prop(h, target, "productType") # "static"
  /\ \/ Prop(h, other, "productType") = "static"
     \/ /\ Prop(h, other, "productType") \in {"dynamic", "framework"}
        /\ \/ ~HasBuildSetting(h, other, "MACH_O_TYPE")
           \/ GetBuildSetting(h, other, "MACH_O_TYPE") # "mh_bundle"

Listed(h, phase) == AppendProperty(h, phase, "files", h.it)
LinkFile(h, phase, references) ==
  IF references = <<>> THEN Fail(h, "remote")
  ELSE Listed(NewBuildFile(h, references[1], <<>>), phase)

\* A product of another project is linked by the proxy for it.
ProductToLink(h, product, project, there) ==
  IF project = there THEN <<product>>
  ELSE ByRemoteObject(h, h.objects[project].index[there].group, product)
LinkProduct(h, target, other) ==
  LinkFile(h, h.it, ProductToLink(h, Prop(h, other, "productReference"), Ancestor(h, target), Ancestor(h, other)))
LinkIf(linked, h, target, other) == IF linked THEN LinkProduct(FrameworksOf(h, target), target, other) ELSE h

AddDependency(h, target, other) ==
  IF h.fault # "none" THEN h
  ELSE LinkIf(Linked(h, target, other), AddTargetDependency(h, target, other), target, other)

\* RootGroupsTakeOverOnlyChildren
RootGroupsTakeOverOnlyChildren(h, project) ==
  FoldLeft(LAMBDA a, g : IF Class(a, g) \in Groups THEN TakeOverOnlyChild(a, g) ELSE a,
           h, Prop(h, Prop(h, project, "mainGroup"), "children"))

\* SortGroups, of which only the order of products is kept, with what it asserts.
SortGroups(h, project) ==
  LET groups == SelectSeq(Prop(h, Prop(h, project, "mainGroup"), "children"),
                          LAMBDA g : Class(h, g) \in Groups /\ Name(h, g) = <<"Products">>)
      products == ProductReferences(h, project)
      Sort(a, g) == IF /\ ToSet(products) \subseteq ToSet(Prop(a, g, "children"))
                       /\ Len(products) = Len(Prop(a, g, "children"))
                    THEN UpdateProperties(a, g, [children |-> products]) ELSE Fail(a, "products")
  IN  FoldLeft(Sort, h, groups)

\* SortRemoteProductReferences
SortedRemote(h, group, products) ==
  UpdateProperties(h, group,
    [children |-> FoldLeft(LAMBDA all, p : all \o ByRemoteObject(h, group, p), <<>>, products)])
SortRemoteProductReferences(h, project) ==
  FoldLeft(LAMBDA a, other : SortedRemote(a, a.objects[project].index[other].group, ProductReferences(a, other)),
           h, PropOr(h, project, "projectReferences", <<>>))
=============================================================================
