------------------------------ MODULE GypTrees ------------------------------
(***************************************************************************)
(* The data of gyp's input.py: build files are dictionaries and lists of   *)
(* strings.  A tree is such a value written out; in the heap every         *)
(* dictionary and list is an object with an identity, because input.py     *)
(* changes them in place while variables still refer to them.              *)
(*                                                                         *)
(* A key is <<name, suffix>>.  A string is a sequence of atoms: words (a   *)
(* path with its directory, its base name and its extension), references   *)
(* to variables and, in conditions, a test of a variable.                  *)
(***************************************************************************)
EXTENDS Integers, SequencesExt

CONSTANTS PathNames,    \* names ending in _dir, _file, _path or their plurals
          ExtraPaths,   \* path_sections the generator adds
          ExtraKeys,    \* non_configuration_keys the generator adds
          Alphabet      \* the names of configurations, sorted

Key(name) == <<name, "">>
Word(dir, base, ext) == [dir |-> dir, base |-> base, ext |-> ext]
Ref(symbol, all, name) == [ref |-> symbol, all |-> all, name |-> name]
Test(name, value) == [test |-> name, is |-> value]
Str(atoms) == [kind |-> "str", atoms |-> atoms]
ListOf(items) == [kind |-> "list", items |-> items]
DictOf(entries) == [kind |-> "dict", of |-> entries]
IsRef(atom) == "ref" \in DOMAIN atom
IsTest(atom) == "test" \in DOMAIN atom

EmptyHeap == [dicts |-> <<>>, lists |-> <<>>, ok |-> TRUE]
Fail(h) == [h EXCEPT !.ok = FALSE]
DictAt(id) == [kind |-> "dict", at |-> id]
ListAt(id) == [kind |-> "list", at |-> id]
NewDict(h, entries) == [h EXCEPT !.dicts = Append(@, entries)]
NewList(h, items) == [h EXCEPT !.lists = Append(@, items)]
SetKey(h, id, key, value) == [h EXCEPT !.dicts[id] = key :> value @@ @]
Without(f, keys) == [k \in DOMAIN f \ keys |-> f[k]]
DropKeys(h, id, keys) == [h EXCEPT !.dicts[id] = Without(@, keys)]
Get(f, key, default) == IF key \in DOMAIN f THEN f[key] ELSE default

\* What an object of the heap holds, all the way down.
RECURSIVE Tree(_, _)
Tree(h, v) ==
  CASE v.kind = "str" -> v
    [] v.kind = "list" -> ListOf([i \in DOMAIN h.lists[v.at] |-> Tree(h, h.lists[v.at][i])])
    [] v.kind = "dict" -> DictOf([k \in DOMAIN h.dicts[v.at] |-> Tree(h, h.dicts[v.at][k])])

\* A fresh object that holds the tree t: <<heap, value>>.  With Tree, a deep copy.
RECURSIVE Place(_, _)
Place(h, t) ==
  CASE ~h.ok \/ t.kind = "str" -> <<h, t>>
    [] h.ok /\ t.kind = "list" ->
         LET r == FoldLeft(LAMBDA a, x: LET p == Place(a[1], x) IN <<p[1], Append(a[2], p[2])>>,
                           <<h, <<>>>>, t.items)
         IN  <<NewList(r[1], r[2]), ListAt(Len(r[1].lists) + 1)>>
    [] h.ok /\ t.kind = "dict" ->
         LET r == FoldSet(LAMBDA k, a: LET p == Place(a[1], t.of[k]) IN <<p[1], k :> p[2] @@ a[2]>>,
                          <<h, <<>>>>, DOMAIN t.of)
         IN  <<NewDict(r[1], r[2]), DictAt(Len(r[1].dicts) + 1)>>

-----------------------------------------------------------------------------
(* Paths and merging *)

BasePathSections == {"destination", "files", "include_dirs", "inputs", "libraries", "outputs", "sources"}

\* Every suffix but / (and the % of a variable) leaves a section of paths one.
IsPathSection(key) ==
  /\ key[1] \in BasePathSections \union ExtraPaths \union PathNames
  /\ key[2] \notin {"/", "%"}

Normal(dir) ==
  FoldLeft(LAMBDA a, d: IF d = ".." /\ a # <<>> /\ Last(a) # ".." THEN Front(a) ELSE Append(a, d), <<>>, dir)

RelativePath(dir, from) ==
  LET common == Len(LongestCommonPrefix({dir, from}))
  IN  [i \in 1..(Len(from) - common) |-> ".."] \o SubSeq(dir, common + 1, Len(dir))

IsFlag(s) == s.atoms # <<>> /\ ~IsRef(s.atoms[1]) /\ ~IsTest(s.atoms[1]) /\ s.atoms[1].dir = <<"-">>

\* A string that starts with a reference or a flag is left alone.
MakePathRelative(to, fro, s) ==
  IF to = fro \/ s.atoms = <<>> \/ IsRef(s.atoms[1]) \/ IsTest(s.atoms[1]) \/ IsFlag(s) THEN s
  ELSE [s EXCEPT !.atoms[1].dir = Normal(RelativePath(fro, to) \o @)]

\* What adding item does to a list: the first of equal strings stays (append),
\* or it moves to the front part being built (prepend); flags may repeat.
Appended(list, item) ==
  IF item.kind = "str" /\ ~IsFlag(item) /\ Contains(list, item) THEN list ELSE Append(list, item)
Prepended(list, item, front) ==
  LET rest == IF item.kind = "str" /\ ~IsFlag(item) THEN SelectSeq(list, LAMBDA x: x # item) ELSE list
      n == IF front > Len(rest) THEN Len(rest) ELSE front
  IN  SubSeq(rest, 1, n) \o <<item>> \o SubSeq(rest, n + 1, Len(rest))

RECURSIVE MergeDicts(_, _, _, _, _), MergeLists(_, _, _, _, _, _, _)

\* <<heap, item>>: a dictionary or list is copied by merging it into an empty one.
ItemToMerge(h, item, to, fro, paths) ==
  CASE item.kind = "str" -> <<h, IF paths THEN MakePathRelative(to, fro, item) ELSE item>>
    [] item.kind = "dict" -> LET n == Len(h.dicts) + 1
                             IN  <<MergeDicts(NewDict(h, <<>>), n, item.of, to, fro), DictAt(n)>>
    [] item.kind = "list" -> LET n == Len(h.lists) + 1
                             IN  <<MergeLists(NewList(h, <<>>), n, item.items, to, fro, FALSE, TRUE), ListAt(n)>>

MergeLists(h, id, items, to, fro, paths, append) ==
  IF ~h.ok THEN h ELSE
  FoldLeft(LAMBDA a, x:
             LET m == ItemToMerge(a[1], x, to, fro, paths)
             IN  <<[m[1] EXCEPT !.lists[id] = IF append THEN Appended(@, m[2]) ELSE Prepended(@, m[2], a[2])],
                   a[2] + 1>>,
           <<h, 0>>, items)[1]

ListPolicies == {"=", "+", "?"}
Incompatible(key) ==
  {<<key[1], e>> : e \in CASE key[2] = "=" -> {"", "?"}
                           [] key[2] = "+" -> {"=", "?"}
                           [] key[2] = "?" -> {"", "=", "+"}
                           [] key[2] = "" -> {"=", "?"}
                           [] OTHER -> {}}

MergeList(h, id, key, v, keys, to, fro) ==
  LET base == IF key[2] \in ListPolicies THEN Key(key[1]) ELSE key
      old == h.dicts[id]
      fresh == SetKey(NewList(h, <<>>), id, base, ListAt(Len(h.lists) + 1))
      kept == base \in DOMAIN old /\ key[2] # "="
      h1 == IF kept THEN h ELSE fresh
  IN  CASE Incompatible(key) \intersect keys # {} -> Fail(h)
        [] kept /\ key[2] = "?" -> h
        [] kept /\ key[2] # "?" /\ old[base].kind # "list" -> Fail(h)
        [] OTHER -> MergeLists(h1, h1.dicts[id][base].at, v.items, to, fro, IsPathSection(base), key[2] # "+")

MergeKey(h, id, key, v, keys, to, fro) ==
  LET old == h.dicts[id]
      n == Len(h.dicts) + 1
  IN  CASE ~h.ok -> h
        [] h.ok /\ key \in DOMAIN old /\ old[key].kind # v.kind -> Fail(h)
        [] OTHER ->
             CASE v.kind = "str" ->
                    SetKey(h, id, key, IF IsPathSection(key) THEN MakePathRelative(to, fro, v) ELSE v)
               [] v.kind = "dict" ->
                    IF key \in DOMAIN old THEN MergeDicts(h, old[key].at, v.of, to, fro)
                    ELSE MergeDicts(SetKey(NewDict(h, <<>>), id, key, DictAt(n)), n, v.of, to, fro)
               [] v.kind = "list" -> MergeList(h, id, key, v, keys, to, fro)

\* Merges the entries of a tree read in directory fro into the dictionary id of
\* directory to.
MergeDicts(h, id, entries, to, fro) ==
  IF ~h.ok THEN h ELSE
  FoldSet(LAMBDA k, a: MergeKey(a, id, k, entries[k], DOMAIN entries, to, fro), h, DOMAIN entries)
=============================================================================
