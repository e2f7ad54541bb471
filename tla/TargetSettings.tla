--------------------------- MODULE TargetSettings ---------------------------
(***************************************************************************)
(* What input.py does to whole dictionaries between the rounds of          *)
(* evaluation: it copies targets for toolsets, puts defaults under them,   *)
(* publishes settings to dependents, builds configurations, filters lists  *)
(* and validates.  Each operator takes the heap and returns the new one.   *)
(***************************************************************************)
EXTENDS GypTrees

Entry(h, id, name) == h.dicts[id][Key(name)]
Has(h, id, name) == Key(name) \in DOMAIN h.dicts[id]
ItemsAt(h, id, name) == IF Has(h, id, name) THEN h.lists[Entry(h, id, name).at] ELSE <<>>
NameIn(s) == s.atoms[1].base
NameStr(name) == Str(<<Word(<<>>, name, "")>>)
DictsIn(h, items) == SelectSeq(items, LAMBDA v: v.kind = "dict")

-----------------------------------------------------------------------------
(* Toolsets and defaults *)

\* Defect: the copies share what is below the target.
ForToolsetsShallow(h, target, several) ==
  LET wanted == IF Has(h, target, "toolsets") THEN ItemsAt(h, target, "toolsets") ELSE <<NameStr("target")>>
      plain == DropKeys(h, target, {Key("toolsets")})
      n == Len(h.dicts)
      copied == FoldLeft(LAMBDA a, build: NewDict(a, Key("toolset") :> build @@ a.dicts[target]), plain, Tail(wanted))
  IN  IF Has(h, target, "toolset") \/ wanted = <<>> THEN <<h, <<DictAt(target)>>>>
      ELSE <<SetKey(copied, target, Key("toolset"), wanted[1]),
             [i \in 1..(Len(wanted) - 1) |-> DictAt(n + i)] \o <<DictAt(target)>>>>

\* The targets a target stands for: a copy for each further toolset, then itself.
ForToolsets(h, target, several) ==
  IF Has(h, target, "toolset") /\ ~Has(h, target, "toolsets") THEN <<h, <<DictAt(target)>>>>
  ELSE LET wanted == IF several /\ Has(h, target, "toolsets") THEN ItemsAt(h, target, "toolsets")
                     ELSE <<NameStr("target")>>
           plain == DropKeys(h, target, {Key("toolsets")})
           copies == FoldLeft(LAMBDA a, build:
                                LET p == Place(a[1], Tree(a[1], DictAt(target)))
                                IN  <<SetKey(p[1], p[2].at, Key("toolset"), build), Append(a[2], p[2])>>,
                              <<plain, <<>>>>, SubSeq(wanted, 2, Len(wanted)))
           Itself(c) == <<SetKey(c[1], target, Key("toolset"), wanted[1]), Append(c[2], DictAt(target))>>
       IN  IF wanted = <<>> THEN <<plain, <<>>>> ELSE Itself(copies)

RECURSIVE ProcessToolsetsInDict(_, _, _)
ProcessToolsetsInDict(h, id, several) ==
  LET Add(a, r) == <<r[1], a[2] \o r[2]>>
      spread == FoldLeft(LAMBDA a, t: Add(a, ForToolsets(a[1], t.at, several)), <<h, <<>>>>, ItemsAt(h, id, "targets"))
      Listed(r) == SetKey(NewList(r[1], r[2]), id, Key("targets"), ListAt(Len(r[1].lists) + 1))
      h1 == IF Has(h, id, "targets") THEN Listed(spread) ELSE h
      cases == FlattenSeq([i \in DOMAIN ItemsAt(h, id, "conditions") |->
                             DictsIn(h, h.lists[ItemsAt(h, id, "conditions")[i].at])])
  IN  FoldLeft(LAMBDA a, d: ProcessToolsetsInDict(a, d.at, several), h1, cases)

\* Each target is merged into a copy of target_defaults of its own, which takes its place.
MergeTargetDefaults(h, root, dir) ==
  LET targets == Entry(h, root, "targets").at
      OnDefaults(a, i) ==
        LET p == Place(a, Tree(a, Entry(a, root, "target_defaults")))
        IN  [MergeDicts(p[1], p[2].at, Tree(a, a.lists[targets][i]).of, dir, dir) EXCEPT !.lists[targets][i] = p[2]]
  IN  IF ~Has(h, root, "target_defaults") THEN h
      ELSE IF ~Has(h, root, "targets") THEN Fail(h)
      ELSE DropKeys(FoldLeft(OnDefaults, h, [i \in 1..Len(h.lists[targets]) |-> i]),
                    root, {Key("target_defaults")})

-----------------------------------------------------------------------------
(* Settings of dependencies *)

SettingsTypes == <<"all_dependent_settings", "direct_dependent_settings", "link_settings">>

\* publishers[type][i]: the targets whose settings of that type target i takes.
DoDependentSettings(h, type, targets, publishers, dir) ==
  FoldLeft(LAMBDA a, pair:
             IF ~Has(a, targets[pair[2]].at, type) THEN a
             ELSE MergeDicts(a, targets[pair[1]].at, Tree(a, Entry(a, targets[pair[2]].at, type)).of, dir, dir),
           h, FlattenSeq([i \in DOMAIN targets |->
                            [j \in DOMAIN publishers[type][i] |-> <<i, publishers[type][i][j]>>]]))

PublishSettings(h, targets, publishers, dir) ==
  FoldLeft(LAMBDA a, type:
             FoldLeft(LAMBDA b, t: DropKeys(b, t.at, {Key(type)}),
                      DoDependentSettings(a, type, targets, publishers, dir), targets),
           h, SettingsTypes)

-----------------------------------------------------------------------------
(* Configurations *)

NonConfigurationKeys ==
  {"actions", "configurations", "copies", "default_configuration", "dependencies",
   "dependencies_original", "libraries", "postbuilds", "product_dir", "product_extension",
   "product_name", "product_prefix", "rules", "run_as", "sources", "standalone_static_library",
   "suppress_wildcard", "target_name", "toolset", "toolsets", "type", "variables"} \union ExtraKeys

InvalidConfigurationKeys ==
  {"actions", "all_dependent_settings", "configurations", "dependencies", "direct_dependent_settings",
   "libraries", "link_settings", "sources", "standalone_static_library", "target_name", "type"}

KeySuffixes == {"", "=", "+", "?", "!", "/"}
Propagated(key) == key[2] \notin KeySuffixes \/ key[1] \notin NonConfigurationKeys

Configurations(h, target) == h.dicts[Entry(h, target, "configurations").at]

\* Defect: a configuration is merged before its parents.
RECURSIVE MergeConfigBeforeParents(_, _, _, _, _, _)
MergeConfigBeforeParents(h, new, dir, target, config, visited) ==
  IF config \in visited \/ ~h.ok THEN h
  ELSE IF Key(config) \notin DOMAIN Configurations(h, target) THEN Fail(h)
  ELSE LET id == Configurations(h, target)[Key(config)].at
       IN  FoldLeft(LAMBDA a, p: MergeConfigBeforeParents(a, new, dir, target, NameIn(p), visited \union {config}),
                    DropKeys(MergeDicts(h, new, Tree(h, DictAt(id)).of, dir, dir), new, {Key("abstract")}),
                    ItemsAt(h, id, "inherit_from"))

\* The parents of a configuration are merged before it, each along the path to it once.
RECURSIVE MergeConfigWithInheritance(_, _, _, _, _, _)
MergeConfigWithInheritance(h, new, dir, target, config, visited) ==
  IF config \in visited \/ ~h.ok THEN h
  ELSE IF Key(config) \notin DOMAIN Configurations(h, target) THEN Fail(h)
  ELSE LET id == Configurations(h, target)[Key(config)].at
           inherited == FoldLeft(LAMBDA a, p: MergeConfigWithInheritance(a, new, dir, target, NameIn(p),
                                                                         visited \union {config}),
                                 h, ItemsAt(h, id, "inherit_from"))
       IN  DropKeys(MergeDicts(inherited, new, Tree(h, DictAt(id)).of, dir, dir), new, {Key("abstract")})

Defaulted(h, target) ==
  LET h1 == IF Has(h, target, "configurations") THEN h
            ELSE SetKey(NewDict(NewDict(h, <<>>), Key("Default") :> DictAt(Len(h.dicts) + 1)),
                        target, Key("configurations"), DictAt(Len(h.dicts) + 2))
      configs == Configurations(h1, target)
      concrete == SelectSeq(Alphabet, LAMBDA c: Key(c) \in DOMAIN configs /\ ~Has(h1, configs[Key(c)].at, "abstract"))
  IN  IF Has(h1, target, "default_configuration") THEN h1
      ELSE IF concrete = <<>> THEN Fail(h1)
      ELSE SetKey(h1, target, Key("default_configuration"), NameStr(concrete[1]))

\* Every concrete configuration becomes a copy of the target with the
\* configuration and its parents merged in; the rest of the target's
\* propagated keys and the abstract configurations go.
SetUpConfigurations(h, target, dir) ==
  LET configs == Configurations(h, target)
      Concrete == {k \in DOMAIN configs : ~Has(h, configs[k].at, "abstract")}
      moved == {k \in DOMAIN h.dicts[target] : Propagated(k)}
      copy == DictOf([x \in moved |-> Tree(h, h.dicts[target][x])])
      Merge(k, of, p) ==
        <<MergeConfigWithInheritance(p[1], p[2].at, dir, target, k[1], {}), k :> p[2] @@ of>>
      Replace(r) ==
        DropKeys([r[1] EXCEPT !.dicts[Entry(h, target, "configurations").at] = r[2]], target, moved)
      Checked(done) ==
        IF \E k \in Concrete : \E name \in InvalidConfigurationKeys : Has(done, Configurations(done, target)[k].at, name)
        THEN Fail(done) ELSE done
  IN  Checked(Replace(FoldSet(LAMBDA k, a: Merge(k, a[2], Place(a[1], copy)), <<h, <<>>>>, Concrete)))

-----------------------------------------------------------------------------
(* Filters of lists *)

Matches(pattern, item) ==
  \E i \in DOMAIN item.atoms : LET p == pattern.atoms[1]  w == item.atoms[i]
                               IN  p.ext = w.ext /\ p.base \in {"", w.base}

\* Defect: what is excluded by name stays excluded.
ActionOnUnlisted(item, exclusions, expressions) ==
  IF Contains(exclusions, item) THEN 0
  ELSE FoldLeft(LAMBDA a, e: IF Matches(e[2], item) THEN (IF NameIn(e[1]) = "exclude" THEN 0 ELSE 1) ELSE a, -1, expressions)

\* What the exclusion list and then the regular expressions say of an item, the
\* last one that matches deciding: -1 nothing, 0 excluded, 1 included.
ActionOn(item, exclusions, expressions) ==
  FoldLeft(LAMBDA a, e: IF Matches(e[2], item) THEN (IF NameIn(e[1]) = "exclude" THEN 0 ELSE 1) ELSE a,
           IF Contains(exclusions, item) THEN 0 ELSE -1, expressions)

FilterList(h, id, name) ==
  LET list == Entry(h, id, name).at
      ListOr(key) == IF key \in DOMAIN h.dicts[id] THEN h.lists[h.dicts[id][key].at] ELSE <<>>
      expressions == [i \in DOMAIN ListOr(<<name, "/">>) |-> h.lists[ListOr(<<name, "/">>)[i].at]]
      Dropped(item) == ActionOn(item, ListOr(<<name, "!">>), expressions) = 0
      excluded == SelectSeq(h.lists[list], Dropped)
      left == DropKeys([h EXCEPT !.lists[list] = SelectSeq(@, LAMBDA x: ~Dropped(x))],
                       id, {<<name, "!">>, <<name, "/">>})
  IN  IF Has(h, id, name \o "_excluded") \/ \E e \in Range(expressions) : NameIn(e[1]) \notin {"exclude", "include"}
      THEN Fail(h)
      ELSE IF excluded = <<>> THEN left
      ELSE SetKey(NewList(left, excluded), id, Key(name \o "_excluded"), ListAt(Len(left.lists) + 1))

RECURSIVE ProcessListFiltersInDict(_, _), ProcessListFiltersInList(_, _)
FiltersInValue(h, v) ==
  CASE v.kind = "dict" -> ProcessListFiltersInDict(h, v.at)
    [] v.kind = "list" -> ProcessListFiltersInList(h, v.at)
    [] OTHER -> h
ProcessListFiltersInList(h, id) == FoldLeft(FiltersInValue, h, h.lists[id])
ProcessListFiltersInDict(h, id) ==
  LET entries == h.dicts[id]
      filters == {k \in DOMAIN entries : k[2] \in {"!", "/"}}
      idle == {k \in filters : Key(k[1]) \notin DOMAIN entries}
      named == {k[1] : k \in filters \ idle}
      Fits(k) == entries[k].kind = "list" /\ (k \in idle \/ entries[Key(k[1])].kind = "list")
      h1 == FoldSet(LAMBDA n, a: IF a.ok THEN FilterList(a, id, n) ELSE a, DropKeys(h, id, idle), named)
  IN  IF \E k \in filters : ~Fits(k) THEN Fail(h)
      ELSE FoldSet(LAMBDA k, a: IF a.ok THEN FiltersInValue(a, h1.dicts[id][k]) ELSE a, h1, DOMAIN h1.dicts[id])

-----------------------------------------------------------------------------
(* Validation *)

TypeIn(h, target, types) == Has(h, target, "type") /\ NameIn(Entry(h, target, "type")) \in types

ValidateTargetType(h, target) ==
  /\ TypeIn(h, target, {"executable", "loadable_module", "static_library", "shared_library", "none"})
  /\ Has(h, target, "standalone_static_library") => TypeIn(h, target, {"static_library"})

CompiledExtensions == {".c", ".cc", ".cpp", ".cxx", ".m", ".mm", ".s", ".S"}

ValidateSourcesInTarget(h, target) ==
  LET sources == ItemsAt(h, target, "sources")
      Compiled == {i \in DOMAIN sources : sources[i].atoms[1].ext \in CompiledExtensions}
  IN  TypeIn(h, target, {"static_library", "shared_library"}) =>
        \A i, j \in Compiled : i # j => NameIn(sources[i]) # NameIn(sources[j])

\* Names and extensions of rules are unique; each rule gets its sources.
RuleName(h, rule) == NameIn(Entry(h, rule.at, "rule_name"))
RuleExtension(h, rule) == Entry(h, rule.at, "extension").atoms[1].ext
ValidateRulesInTarget(h, target) ==
  LET rules == ItemsAt(h, target, "rules")
      Distinct(Op(_)) == \A i, j \in DOMAIN rules : i # j => Op(rules[i]) # Op(rules[j])
      Sources(rule) == SelectSeq(ItemsAt(h, target, "sources"), LAMBDA s: s.atoms[1].ext = RuleExtension(h, rule))
      Filled(a, rule) == IF Sources(rule) = <<>> THEN a
                         ELSE SetKey(NewList(a, Sources(rule)), rule.at, Key("rule_sources"), ListAt(Len(a.lists) + 1))
  IN  IF /\ Distinct(LAMBDA r: RuleName(h, r))
         /\ Distinct(LAMBDA r: RuleExtension(h, r))
         /\ \A i \in DOMAIN rules : ~Has(h, rules[i].at, "rule_sources")
      THEN FoldLeft(Filled, h, rules) ELSE Fail(h)

ValidateRunAsInTarget(h, target) ==
  LET run == Entry(h, target, "run_as")
      Fits(name, kind) == Has(h, run.at, name) => Entry(h, run.at, name).kind = kind
  IN  Has(h, target, "run_as") =>
        /\ run.kind = "dict"
        /\ \/ h.dicts[run.at] = <<>>
           \/ /\ Has(h, run.at, "action") /\ Fits("action", "list") /\ ItemsAt(h, run.at, "action") # <<>>
              /\ Fits("working_directory", "str") /\ Fits("environment", "dict")

ValidateActionsInTarget(h, target) ==
  \A i \in DOMAIN ItemsAt(h, target, "actions") :
    LET action == ItemsAt(h, target, "actions")[i].at
    IN  Has(h, action, "action_name") /\ Has(h, action, "inputs")

ValidateTarget(h, target) ==
  IF /\ ValidateTargetType(h, target)
     /\ ValidateSourcesInTarget(h, target)
     /\ ValidateRunAsInTarget(h, target)
     /\ ValidateActionsInTarget(h, target)
  THEN ValidateRulesInTarget(h, target) ELSE Fail(h)
=============================================================================
