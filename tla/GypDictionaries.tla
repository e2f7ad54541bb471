-------------------------- MODULE GypDictionaries ---------------------------
(***************************************************************************)
(* How input.py evaluates a build file: it reads the file with what it     *)
(* includes, expands variables and conditions in every dictionary, puts    *)
(* defaults and the settings of dependencies into the targets, and         *)
(* evaluates each target twice more, around the making of configurations   *)
(* and the filtering of lists.                                             *)
(*                                                                         *)
(* ProcessVariablesAndConditionsInDict and ...InList call each other; the  *)
(* calls under way are the stack frames.  A call works on an object of the *)
(* heap in place, while the variables of the calls above it refer to the   *)
(* same lists.  Dictionaries are iterated in any order, as in Python 2.    *)
(***************************************************************************)
EXTENDS GypEvaluation

CONSTANTS Projects,          \* build files with the settings they are run with
          MultipleToolsets,  \* generator_supports_multiple_toolsets
          RecursionLimit     \* of nested expansions, Python's abstracted

ASSUME RecursionLimitAssumption == RecursionLimit \in Nat \ {0}

VARIABLES project,  \* the member of Projects that is being read
          heap,     \* the dictionaries and lists
          data,     \* file -> its dictionary
          frames,   \* the calls under way, the outermost first
          stage,    \* of Load
          next,     \* of the targets in turn
          subject,  \* the dictionary evaluated last
          written   \* for the properties: what it, or each target, held before

vars == <<project, heap, data, frames, stage, next, subject, written>>

Dir(file) == project.dir[file]
Root == data[project.main]
Targets == ItemsAt(heap, Root, "targets")

Phases == [early |-> "<", late |-> ">", latelate |-> "^"]
Phase == Phases[stage]
ConditionsKey == CasesKey(Phase)

-----------------------------------------------------------------------------
(* Expansion *)

Expansion(h, list, items) == [heap |-> h, list |-> list, items |-> items]

\* The value of string s in scope: itself, another string, or, for a reference
\* that is the whole string and expands to a list, a list.  A list that is
\* referred to is itself expanded, in place and in this scope.  It holds strings;
\* under a name with / also lists, and then its copy holds the same lists.
RECURSIVE ExpandVariables(_, _, _, _, _), ExpandItems(_, _, _, _, _)
ExpandVariables(h, s, phase, scope, n) ==
  LET refs == {i \in DOMAIN s.atoms : IsRef(s.atoms[i]) /\ s.atoms[i].ref = phase}
      last == CHOOSE i \in refs : \A j \in refs : j <= i
      atom == s.atoms[last]
      filter == atom.name[2] \in {"!", "/"}
      value == Get(scope, atom.name, ListOf(<<>>))
      aslist == value.kind = "list"
      absent == "items" \in DOMAIN value
      held == IF absent THEN <<>> ELSE h.lists[value.at]
      h1 == IF aslist /\ ~absent THEN ExpandItems(h, value.at, phase, scope, n - 1) ELSE h
      items == CASE absent -> <<>>
                 [] aslist /\ ~absent -> h1.lists[value.at]
                 [] OTHER -> IF atom.all THEN [i \in DOMAIN value.atoms |-> Str(<<value.atoms[i]>>)] ELSE <<value>>
      text == Str(SubSeq(s.atoms, 1, last - 1) \o TextOf(items) \o SubSeq(s.atoms, last + 1, Len(s.atoms)))
      Nested(e) == Expansion(NewList(e.heap, e.items), TRUE, <<ListAt(Len(e.heap.lists) + 1)>>)
      Item(x, h2) == LET e == ExpandVariables(h2, Str(TextOf(<<x>>)), phase, scope, n - 1)
                     IN  IF e.list THEN Nested(e) ELSE e
      copy == IF items # <<>> /\ items[1].kind = "list" THEN Expansion(h1, TRUE, items)
              ELSE FoldLeft(LAMBDA a, x: LET e == Item(x, a.heap) IN Expansion(e.heap, TRUE, a.items \o e.items),
                            Expansion(h1, TRUE, <<>>), items)
  IN  IF refs = {} THEN Expansion(h, FALSE, <<s>>)
      ELSE IF \/ n = 0 \/ ~h.ok
              \/ atom.name \notin DOMAIN scope /\ ~filter
              \/ value.kind = "dict"
              \/ aslist /\ atom.name[2] # "/" /\ \E i \in DOMAIN held : held[i].kind # "str"
           THEN Expansion(Fail(h), FALSE, <<>>)
      ELSE IF ~h1.ok THEN Expansion(h1, FALSE, <<>>)
      ELSE IF atom.all /\ Len(s.atoms) = 1 THEN copy
      ELSE ExpandVariables(h1, text, phase, scope, n - 1)

\* Expands the strings of a list, and of the lists in it, where they stand.
ExpandItems(h, id, phase, scope, n) ==
  LET Item(x, h1) ==
        CASE x.kind = "str" -> ExpandVariables(h1, x, phase, scope, n)
          [] x.kind = "list" -> Expansion(ExpandItems(h1, x.at, phase, scope, n), TRUE, <<x>>)
      r == FoldLeft(LAMBDA a, x: LET e == Item(x, a.heap) IN Expansion(e.heap, TRUE, a.items \o e.items),
                    Expansion(h, TRUE, <<>>), h.lists[id])
  IN  IF r.heap.ok THEN [r.heap EXCEPT !.lists[id] = r.items] ELSE r.heap

Expand(s, scope) == ExpandVariables(heap, s, Phase, scope, RecursionLimit)

-----------------------------------------------------------------------------
(* Scopes *)

Keys(entries, kinds) == {k \in DOMAIN entries : entries[k].kind \in kinds}

LoadAutomaticVariablesFromDict(scope, entries) ==
  [n \in {Automatic(k) : k \in Keys(entries, {"str", "list"})} |->
     entries[CHOOSE k \in DOMAIN entries : Automatic(k) = n]] @@ scope

VariablesOf(h, entries) ==
  IF Key("variables") \in DOMAIN entries THEN h.dicts[entries[Key("variables")].at] ELSE <<>>

\* A variable x% is set only if x is not, and by an x beside the block of
\* variables if that is in one itself.
LoadVariablesFromVariablesDict(h, scope, entries, key) ==
  LET own == VariablesOf(h, entries)
      plain == {k \in Keys(own, {"str", "list"}) : k[2] # "%"}
      defaults == {Key(k[1]) : k \in Keys(own, {"str", "list"}) \ plain} \ (DOMAIN scope \union plain)
  IN  [n \in plain \union defaults |->
         IF n \in plain THEN own[n]
         ELSE IF key = Key("variables") /\ n \in DOMAIN entries THEN entries[n]
         ELSE own[<<n[1], "%">>]] @@ scope

Scope(h, given, entries, key) ==
  LoadVariablesFromVariablesDict(h, LoadAutomaticVariablesFromDict(given, entries), entries, key)

-----------------------------------------------------------------------------
(* Calls *)

Call(id, key, given) ==
  [of |-> "dict", id |-> id, key |-> key, given |-> given, scope |-> given,
   at |-> "enter", todo |-> {}, rest |-> <<>>]
ListCall(id, scope) == [of |-> "list", id |-> id, scope |-> scope, index |-> 1]

Top == Last(frames)
Entries == heap.dicts[Top.id]
Below(frame) == Append(Front(frames), frame)
At(place) == heap.ok /\ frames # <<>> /\ Top.of = "dict" /\ Top.at = place
Reloaded(h) == Scope(h, Top.given, h.dicts[Top.id], Top.key)

\* The variables block is evaluated first, all of it in scope.
EnterVariables ==
  /\ At("enter")
  /\ LET automatics == LoadAutomaticVariablesFromDict(Top.given, Entries)
         scope == VariablesOf(heap, Entries) @@ automatics
         frame == [Top EXCEPT !.at = "variables", !.scope = scope]
     IN  frames' = IF Key("variables") \in DOMAIN Entries
                   THEN Append(Below(frame), Call(Entries[Key("variables")].at, Key("variables"), scope))
                   ELSE Below(frame)
  /\ UNCHANGED <<project, heap, data, stage, next, subject, written>>

LoadVariables ==
  /\ At("variables")
  /\ frames' = Below([Top EXCEPT !.at = "strings", !.todo = Keys(Entries, {"str"}),
                                 !.scope = LoadVariablesFromVariablesDict(heap, @, Entries, Top.key)])
  /\ UNCHANGED <<project, heap, data, stage, next, subject, written>>

ExpandString(k) ==
  /\ At("strings") /\ k \in Top.todo
  /\ LET e == Expand(Entries[k], Top.scope)
     IN  heap' = IF e.list THEN Fail(e.heap)
                 ELSE IF ~e.heap.ok THEN e.heap ELSE SetKey(e.heap, Top.id, k, e.items[1])
  /\ frames' = Below([Top EXCEPT !.todo = @ \ {k}])
  /\ UNCHANGED <<project, data, stage, next, subject, written>>

\* The strings may have changed the automatic variables; the conditions are unhooked.
StringsDone ==
  /\ At("strings") /\ Top.todo = {}
  /\ heap' = DropKeys(heap, Top.id, {ConditionsKey})
  /\ frames' = Below([Top EXCEPT !.at = "conditions", !.scope = Reloaded(heap'),
                                 !.rest = IF ConditionsKey \in DOMAIN Entries
                                          THEN heap.lists[Entries[ConditionsKey].at] ELSE <<>>])
  /\ UNCHANGED <<project, data, stage, next, subject, written>>

\* A condition is [test, dict] or [test, dict, dict]: the dictionary to merge, if any.
EvalCondition(condition, scope) ==
  LET test == condition[1].atoms[1]
      index == IF scope[test.test] = NameStr(test.is) THEN 2 ELSE 3
  IN  IF index \in DOMAIN condition THEN <<condition[index]>> ELSE <<>>

\* The dictionary chosen is evaluated in this scope before it is merged.
Condition ==
  /\ At("conditions") /\ Top.rest # <<>>
  /\ LET condition == heap.lists[Head(Top.rest).at]
         defined == condition[1].atoms[1].test \in DOMAIN Top.scope
         chosen == EvalCondition(condition, Top.scope)
     IN  /\ heap' = IF defined THEN heap ELSE Fail(heap)
         /\ frames' = IF ~defined THEN frames
                      ELSE IF chosen = <<>> THEN Below([Top EXCEPT !.rest = Tail(@)])
                      ELSE Append(Below([Top EXCEPT !.at = "merge", !.rest = chosen \o Tail(@)]),
                                  Call(chosen[1].at, Key(""), Top.scope))
  /\ UNCHANGED <<project, data, stage, next, subject, written>>

MergeCondition ==
  /\ At("merge")
  /\ heap' = MergeDicts(heap, Top.id, Tree(heap, Head(Top.rest)).of, <<>>, <<>>)
  /\ frames' = Below([Top EXCEPT !.at = "conditions", !.rest = Tail(@)])
  /\ UNCHANGED <<project, data, stage, next, subject, written>>

\* Defect: the scope stays what it was before the conditions were merged.
ConditionsDoneStale ==
  /\ At("conditions") /\ Top.rest = <<>>
  /\ frames' = Below([Top EXCEPT !.at = "children", !.todo = Keys(Entries, {"dict", "list"}) \ {Key("variables")}])
  /\ UNCHANGED <<project, heap, data, stage, next, subject, written>>

\* What was merged may define variables: the scope is built again.
ConditionsDone ==
  /\ At("conditions") /\ Top.rest = <<>>
  /\ frames' = Below([Top EXCEPT !.at = "children", !.scope = Reloaded(heap),
                                 !.todo = Keys(Entries, {"dict", "list"}) \ {Key("variables")}])
  /\ UNCHANGED <<project, heap, data, stage, next, subject, written>>

\* Below is called for the values that are not strings, in any order.
Child(k) ==
  /\ At("children") /\ k \in Top.todo
  /\ frames' = Append(Below([Top EXCEPT !.todo = @ \ {k}]),
                      IF Entries[k].kind = "dict" THEN Call(Entries[k].at, k, Top.scope)
                      ELSE ListCall(Entries[k].at, Top.scope))
  /\ UNCHANGED <<project, heap, data, stage, next, subject, written>>

InList == heap.ok /\ frames # <<>> /\ Top.of = "list"

\* A string of a list gives way to what it expands to, a dictionary or list is evaluated.
ListItem ==
  /\ InList /\ Top.index <= Len(heap.lists[Top.id])
  /\ LET list == heap.lists[Top.id]
         item == list[Top.index]
         e == Expand(item, Top.scope)
         taken == SubSeq(e.heap.lists[Top.id], 1, Top.index - 1) \o e.items
                    \o SubSeq(e.heap.lists[Top.id], Top.index + 1, Len(list))
     IN  IF item.kind = "str"
         THEN /\ heap' = IF e.heap.ok THEN [e.heap EXCEPT !.lists[Top.id] = taken] ELSE e.heap
              /\ frames' = Below([Top EXCEPT !.index = @ + Len(e.items)])
         ELSE /\ heap' = heap
              /\ frames' = Append(Below([Top EXCEPT !.index = @ + 1]),
                                  IF item.kind = "dict" THEN Call(item.at, Key(""), Top.scope)
                                  ELSE ListCall(item.at, Top.scope))
  /\ UNCHANGED <<project, data, stage, next, subject, written>>

Return ==
  /\ \/ At("children") /\ Top.todo = {}
     \/ InList /\ Top.index > Len(heap.lists[Top.id])
  /\ frames' = Front(frames)
  /\ UNCHANGED <<project, heap, data, stage, next, subject, written>>

-----------------------------------------------------------------------------
(* Reading: LoadBuildFileIncludesIntoDict calls itself for the dictionaries below
   and, through LoadOneBuildFile, for the files it includes *)

IncludeCall(h, id, file, includes) ==
  [of |-> "include", id |-> id, file |-> file,
   rest |-> includes \o [i \in DOMAIN ItemsAt(h, id, "includes") |-> NameIn(ItemsAt(h, id, "includes")[i])]]
Unhooked(h, id) == DropKeys(h, id, {Key("includes")})

\* The file read as a new dictionary, and the call that merges in what it includes.
LoadOneBuildFile(file, includes, callers) ==
  LET p == Place(heap, project.text[file])
      skip == Has(p[1], p[2].at, "skip_includes")
  IN  /\ data' = file :> p[2].at @@ data
      /\ heap' = IF skip THEN p[1] ELSE Unhooked(p[1], p[2].at)
      /\ frames' = IF skip THEN callers ELSE Append(callers, IncludeCall(p[1], p[2].at, file, includes))

Including == heap.ok /\ frames # <<>> /\ Top.of = "include"

\* A file is read once and merged, with its includes, into each dictionary that names it.
Include ==
  /\ Including /\ Top.rest # <<>>
  /\ LET file == Head(Top.rest)
     IN  IF file \in DOMAIN data
         THEN /\ heap' = MergeDicts(heap, Top.id, Tree(heap, DictAt(data[file])).of, Dir(Top.file), Dir(file))
              /\ frames' = Below([Top EXCEPT !.rest = Tail(@)])
              /\ UNCHANGED data
         ELSE LoadOneBuildFile(file, <<>>, frames)
  /\ UNCHANGED <<project, stage, next, subject, written>>

\* The dictionaries that are values of the dictionary id, or items of its lists.
RECURSIVE InValue(_, _)
InValue(h, v) ==
  CASE v.kind = "dict" -> {v.at}
    [] v.kind = "list" -> UNION {InValue(h, h.lists[v.at][i]) : i \in DOMAIN h.lists[v.at]}
    [] OTHER -> {}
DictsBelow(h, id) == UNION {InValue(h, h.dicts[id][k]) : k \in DOMAIN h.dicts[id]}

IncludeBelow ==
  /\ Including /\ Top.rest = <<>>
  /\ LET below == SetToSeq(DictsBelow(heap, Top.id))
     IN  /\ frames' = Front(frames) \o [i \in DOMAIN below |-> IncludeCall(heap, below[i], Top.file, <<>>)]
         /\ heap' = FoldLeft(Unhooked, heap, below)
  /\ UNCHANGED <<project, data, stage, next, subject, written>>

-----------------------------------------------------------------------------
(* The stages of Load *)

Begin(h, id) ==
  /\ frames' = <<Call(id, Key(""), project.variables)>>
  /\ subject' = id
  /\ written' = Tree(h, DictAt(id))

Idle(s) == heap.ok /\ stage = s /\ frames = <<>>

Read ==
  /\ Idle("read") /\ data = <<>>
  /\ LoadOneBuildFile(project.main, project.includes, frames)
  /\ UNCHANGED <<project, stage, next, subject, written>>

Early ==
  /\ Idle("read") /\ data # <<>>
  /\ heap' = ProcessToolsetsInDict(heap, Root, MultipleToolsets)
  /\ stage' = "early"
  /\ Begin(heap', Root)
  /\ UNCHANGED <<project, data, next>>

Defaults ==
  /\ Idle("early")
  /\ LET spread == ProcessToolsetsInDict(heap, Root, MultipleToolsets)
         Publish(h) == IF ~h.ok THEN h
                       ELSE PublishSettings(h, ItemsAt(h, Root, "targets"), project.publishers, Dir(project.main))
     IN  heap' = Publish(MergeTargetDefaults(spread, Root, Dir(project.main)))
  /\ stage' = "late" /\ next' = 1
  /\ UNCHANGED <<project, data, frames, subject, written>>

NextTarget ==
  /\ Idle("late") \/ Idle("latelate")
  /\ next <= Len(Targets)
  /\ Begin(heap, Targets[next].at)
  /\ next' = next + 1
  /\ UNCHANGED <<project, heap, data, stage>>

OnTargets(Op(_, _)) == FoldLeft(LAMBDA a, t: IF a.ok THEN Op(a, t.at) ELSE a, heap, Targets)

Configure ==
  /\ Idle("late") /\ next > Len(Targets)
  /\ heap' = OnTargets(LAMBDA a, id: SetUpConfigurations(Defaulted(a, id), id, Dir(project.main)))
  /\ stage' = "filter"
  /\ written' = Tree(heap, Entry(heap, Root, "targets"))
  /\ UNCHANGED <<project, data, frames, next, subject>>

Filter ==
  /\ Idle("filter")
  /\ heap' = OnTargets(ProcessListFiltersInDict)
  /\ stage' = "latelate" /\ next' = 1
  /\ written' = Tree(heap, Entry(heap, Root, "targets"))
  /\ UNCHANGED <<project, data, frames, subject>>

Validate ==
  /\ Idle("latelate") /\ next > Len(Targets)
  /\ heap' = OnTargets(ValidateTarget)
  /\ stage' = "done"
  /\ UNCHANGED <<project, data, frames, next, subject, written>>

\* Load has returned or raised.
Ended == (stage = "done" \/ ~heap.ok) /\ UNCHANGED vars

Init ==
  /\ project \in Projects
  /\ heap = EmptyHeap /\ data = <<>> /\ frames = <<>>
  /\ stage = "read" /\ next = 1 /\ subject = 0 /\ written = DictOf(<<>>)

Next ==
  \/ Read \/ Include \/ IncludeBelow \/ Early \/ EnterVariables \/ LoadVariables \/ StringsDone
  \/ Condition \/ MergeCondition \/ ConditionsDone \/ ListItem \/ Return
  \/ Defaults \/ NextTarget \/ Configure \/ Filter \/ Validate \/ Ended
  \/ frames # <<>> /\ Top.of = "dict" /\ \E k \in Top.todo : ExpandString(k) \/ Child(k)

Spec == Init /\ [][Next]_vars

-----------------------------------------------------------------------------
(* Properties *)

\* Who holds what in v: <<holder, place in it, held dictionary or list>>.
RECURSIVE Holdings(_, _)
Holdings(h, v) ==
  LET entries == IF v.kind = "dict" THEN h.dicts[v.at] ELSE h.lists[v.at]
      held == {k \in DOMAIN entries : entries[k].kind # "str"}
  IN  IF v.kind = "str" THEN {}
      ELSE UNION {{<<<<v.kind, v.at>>, k, entries[k]>>} \union Holdings(h, entries[k]) : k \in held}

\* Every dictionary and list is held in one place only: "having the same dict
\* ref pointed to twice in the tree isn't what anyone wants considering that the
\* dicts may subsequently be modified".  MergeDicts, the defaults, the toolsets
\* and the configurations copy what they take; a condition being merged is held
\* by its call alone.  Only a list of strings within lists may be held by several
\* of them: ExpandVariables copies a list of lists by its outer list.
OneHolder ==
  LET InFile(f) == {<<<<"file", f>>, 0, DictAt(data[f])>>} \union Holdings(heap, DictAt(data[f]))
      Pending(i) == IF frames[i].of = "dict" THEN frames[i].rest ELSE <<>>
      InCall(i) == UNION {{<<<<"call", i>>, j, Pending(i)[j]>>} \union Holdings(heap, Pending(i)[j]) : j \in DOMAIN Pending(i)}
      all == UNION {InFile(f) : f \in DOMAIN data} \union UNION {InCall(i) : i \in DOMAIN frames}
      Rule(l) == l.kind = "list" /\ \A i \in DOMAIN heap.lists[l.at] : heap.lists[l.at][i].kind = "str"
      copied == {x \in all : x[1][1] = "list" /\ Rule(x[3])}
      Held(holdings) == {x[3] : x \in holdings}
  IN  heap.ok => /\ Cardinality(Held(all \ copied)) = Cardinality(all \ copied)
                 /\ Held(all \ copied) \intersect Held(copied) = {}

\* An evaluation has just returned.
Returned == heap.ok /\ frames = <<>> /\ (stage = "early" \/ (stage \in {"late", "latelate"} /\ next > 1))

\* Evaluating in place, in the order the keys come in and with the variables of
\* the calls above pointing at the lists being changed, gives every dictionary
\* the value its text has, unless the text has a contested list.
EvaluatesAsWritten ==
  Returned /\ ~Contested(written, Phase) =>
    Tree(heap, DictAt(subject)) = Evaluated(written, Phase, project.variables, Key(""), RecursionLimit)

\* "Pass a copy of the variables dict so that subdicts can't influence parents":
\* a list of strings of the dictionary evaluated means what it does in that
\* dictionary, whatever the dictionaries below it say.
SubdictsCannotInfluenceParents ==
  Returned =>
    \A k \in DOMAIN written.of :
      written.of[k].kind = "list" /\ Within(written.of[k]) = {} =>
        Tree(heap, heap.dicts[subject][k]) =
          Evaluated(written, Phase, project.variables, Key(""), RecursionLimit).of[k]

RECURSIVE Says(_, _, _, _)
ConfigIn(target, c) == target.of[Key("configurations")].of[Key(c)].of
Parents(config) ==
  IF Key("inherit_from") \in DOMAIN config THEN config[Key("inherit_from")].items ELSE <<>>
Says(target, c, key, visited) ==
  LET config == ConfigIn(target, c)
      Later(a, p) == LET s == Says(target, NameIn(p), key, visited \union {c}) IN IF s = <<>> THEN a ELSE s
  IN  CASE c \in visited -> <<>>
        [] c \notin visited /\ key \in DOMAIN config -> <<config[key]>>
        [] OTHER -> FoldLeft(Later, <<>>, Parents(config))

RECURSIVE Above(_, _)
Above(target, seen) ==
  LET more == seen \union UNION {{NameIn(p) : p \in Range(Parents(ConfigIn(target, c)))} : c \in seen}
  IN  IF more = seen THEN seen ELSE Above(target, more)

\* Each concrete configuration says of a setting what it says itself, or the last
\* of its parents that says anything, or the target; its lists hold the target's
\* and what each configuration it inherits from adds, after it, once, unless one of
\* them prepends to the list, replaces it or only fills it in.
ConfigurationsInherit ==
  heap.ok /\ stage = "filter" =>
    \A i \in DOMAIN Targets :
      LET before == written.items[i]
          now == Tree(heap, Targets[i]).of[Key("configurations")].of
          Plain(k) == k[2] = "" /\ k \notin {Key("abstract"), Key("inherit_from")}
          From(f, k) == IF k \in DOMAIN f THEN Range(f[k].items) ELSE {}
          Forced(c, k) == \E a \in Above(before, {c[1]}) : \E e \in ListPolicies : <<k[1], e>> \in DOMAIN ConfigIn(before, a)
      IN  Key("configurations") \in DOMAIN before.of =>
          \A c \in DOMAIN now : \A k \in DOMAIN now[c].of :
            LET value == now[c].of[k]
                said == Says(before, c[1], k, {})
            IN  Plain(k) =>
                /\ value.kind = "str" => value = IF said = <<>> THEN before.of[k] ELSE said[1]
                /\ value.kind = "list" /\ ~Forced(c, k) =>
                     /\ k \in DOMAIN before.of => IsPrefix(before.of[k].items, value.items)
                     /\ Range(value.items) =
                          From(before.of, k) \union UNION {From(ConfigIn(before, a), k) : a \in Above(before, {c[1]})}

\* A filtered list keeps, in order, what no filter or last an include matches;
\* the rest is kept, in order too, as excluded.
FiltersDecide ==
  heap.ok /\ stage = "latelate" /\ next = 1 =>
    \A i \in DOMAIN Targets :
      LET before == written.items[i].of
          now == Tree(heap, Targets[i]).of
          Listed(f, k) == IF k \in DOMAIN f THEN f[k].items ELSE <<>>
          Out(name, x) ==
            LET rules == Listed(before, <<name, "/">>)
                hits == {j \in DOMAIN rules : Matches(rules[j].items[2], x)}
            IN  IF hits = {} THEN x \in Range(Listed(before, <<name, "!">>))
                ELSE \E j \in hits : (\A l \in hits : l <= j) /\ NameIn(rules[j].items[1]) = "exclude"
      IN  \A k \in DOMAIN before : k[2] = "" /\ {<<k[1], "!">>, <<k[1], "/">>} \intersect DOMAIN before # {} =>
            /\ now[k].items = SelectSeq(before[k].items, LAMBDA x: ~Out(k[1], x))
            /\ Listed(now, Key(k[1] \o "_excluded")) = SelectSeq(before[k].items, LAMBDA x: Out(k[1], x))
=============================================================================
