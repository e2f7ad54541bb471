---------------------------- MODULE GypEvaluation ---------------------------
(***************************************************************************)
(* What the files of gyp mean, without objects: the value of a tree of     *)
(* dictionaries, lists and strings in a scope, which maps names to trees.  *)
(* Nothing here is changed in place, no list is expanded in a scope but    *)
(* the one that refers to it, and no order of keys is chosen.              *)
(***************************************************************************)
EXTENDS TargetSettings

Automatic(key) == <<"_" \o key[1], key[2]>>

MergedTrees(to, fro) ==
  LET p == Place(EmptyHeap, to) IN Tree(MergeDicts(p[1], p[2].at, fro.of, <<>>, <<>>), p[2])

\* What values are as a part of a string: a list is quoted whole, as one word.
TextOf(items) ==
  FlattenSeq([i \in DOMAIN items |-> IF items[i].kind = "str" THEN items[i].atoms ELSE <<Word(<<>>, "[]", "")>>])

\* The values that s stands for: not one string only if it is one reference with @.
\* Of a list whose first value is not a list, the others are strings.
RECURSIVE Strings(_, _, _, _), Values(_, _, _, _)
Strings(s, phase, scope, n) ==
  LET Active(a) == IsRef(a) /\ a.ref = phase
      Whole(t) == Len(t.atoms) = 1 /\ Active(t.atoms[1]) /\ t.atoms[1].all
      Named(a) == IF a.name \in DOMAIN scope THEN scope[a.name] ELSE ListOf(<<>>)
      Plain(items) ==
        IF items # <<>> /\ items[1].kind = "list" THEN items ELSE [i \in DOMAIN items |-> Str(TextOf(<<items[i]>>))]
      OfWord(word) == LET values == Strings(word, phase, scope, n - 1)
                      IN  IF Whole(word) THEN <<ListOf(values)>> ELSE values
      Items(a) == LET v == Named(a)
                  IN  CASE v.kind = "list" -> Plain(Values(v.items, phase, scope, n - 1))
                        [] v.kind = "str" -> FlattenSeq([i \in DOMAIN v.atoms |-> OfWord(Str(<<v.atoms[i]>>))])
      Text(a) == IF ~Active(a) THEN <<a>>
                 ELSE IF Named(a).kind = "str" THEN Named(a).atoms ELSE TextOf(Items(a))
  IN  IF ~\E i \in DOMAIN s.atoms : Active(s.atoms[i]) THEN <<s>>
      ELSE IF n = 0 THEN <<>>
      ELSE IF Whole(s) THEN Items(s.atoms[1])
      ELSE Strings(Str(FlattenSeq([i \in DOMAIN s.atoms |-> Text(s.atoms[i])])), phase, scope, n - 1)

Values(items, phase, scope, n) ==
  FlattenSeq([i \in DOMAIN items |->
    CASE items[i].kind = "str" -> Strings(items[i], phase, scope, n)
      [] items[i].kind = "list" -> <<ListOf(Values(items[i].items, phase, scope, n))>>])

\* What a name means in a dictionary that is the value of key where given holds:
\* its own variables come first, then its other entries, then what is given,
\* then its defaults.
Meaning(given, entries, key) ==
  LET IsValue(v) == v.kind \in {"str", "list"}
      own == IF Key("variables") \in DOMAIN entries THEN entries[Key("variables")].of ELSE <<>>
      plain == {n \in DOMAIN own : n[2] # "%" /\ IsValue(own[n])}
      automatic == {n \in DOMAIN entries : IsValue(entries[n])}
      defaults == {n \in DOMAIN own : n[2] = "%" /\ IsValue(own[n])}
      Said(n) ==
        LET entry == {k \in automatic : Automatic(k) = n}
        IN  CASE n \in plain -> own[n]
              [] n \notin plain /\ entry # {} -> entries[CHOOSE k \in entry : TRUE]
              [] n \notin plain /\ entry = {} /\ n \in DOMAIN given -> given[n]
              [] OTHER -> IF key = Key("variables") /\ n \in DOMAIN entries THEN entries[n] ELSE own[<<n[1], "%">>]
  IN  [n \in DOMAIN given \union plain \union {Automatic(k) : k \in automatic}
               \union {Key(k[1]) : k \in defaults} |-> Said(n)]

RECURSIVE Evaluated(_, _, _, _, _), ValueOf(_, _, _, _, _)
ValueOf(v, phase, given, key, n) ==
  CASE v.kind = "dict" -> Evaluated(v, phase, given, key, n)
    [] v.kind = "str" -> v
    [] v.kind = "list" ->
         ListOf(FlattenSeq([i \in DOMAIN v.items |->
                  IF v.items[i].kind = "str" THEN Strings(v.items[i], phase, given, n)
                  ELSE <<ValueOf(v.items[i], phase, given, Key(""), n)>>]))

CasesKey(phase) ==
  CASE phase = "<" -> Key("conditions") [] phase = ">" -> Key("target_conditions") [] OTHER -> Key("")

Chosen(condition, scope) ==
  LET test == condition.items[1].atoms[1]
      else == IF Len(condition.items) = 3 THEN <<condition.items[3]>> ELSE <<>>
  IN  IF scope[test.test] = NameStr(test.is) THEN <<condition.items[2]>> ELSE else

\* Strings take their values first, then the conditions add theirs, then what is
\* below is evaluated with all of that in scope.
Evaluated(t, phase, given, key, n) ==
  LET conditions == CasesKey(phase)
      blocks == {Key("variables")} \intersect DOMAIN t.of
      before == (IF blocks = {} THEN <<>> ELSE t.of[Key("variables")].of)
                  @@ Meaning(given, Without(t.of, {Key("variables")}), key)
      own == [b \in blocks |-> Evaluated(t.of[b], phase, before, b, n)] @@ t.of
      inside == Meaning(before, own, key)
      strings == [k \in {x \in DOMAIN own : own[x].kind = "str"} |-> Strings(own[k], phase, inside, n)[1]] @@ own
      outside == Meaning(given, strings, key)
      cases == IF conditions \in DOMAIN strings THEN strings[conditions].items ELSE <<>>
      merged == FoldLeft(LAMBDA a, c:
                           LET d == Chosen(c, outside)
                           IN  IF d = <<>> THEN a ELSE MergedTrees(a, Evaluated(d[1], phase, outside, Key(""), n)),
                         DictOf(Without(strings, {conditions})), cases)
      below == Meaning(given, merged.of, key)
  IN  DictOf([k \in DOMAIN merged.of |->
                IF k = Key("variables") THEN merged.of[k] ELSE ValueOf(merged.of[k], phase, below, k, n)])

-----------------------------------------------------------------------------
(* Lists that are not evaluated where they stand.  input.py expands a list *)
(* in place for whoever refers to it first, so that one that is read in    *)
(* two scopes has the value of the scope that comes first, for both.       *)

\* The dictionaries in a value, and the names it refers to.
RECURSIVE Within(_), NamesIn(_, _)
Within(v) ==
  CASE v.kind = "str" -> {}
    [] v.kind = "list" -> UNION {Within(v.items[i]) : i \in DOMAIN v.items}
    [] v.kind = "dict" -> {v} \union UNION {Within(v.of[k]) : k \in DOMAIN v.of}
NamesIn(v, phase) ==
  CASE v.kind = "str" -> {a.name : a \in {x \in Range(v.atoms) : IsRef(x) /\ x.ref = phase}}
    [] v.kind = "list" -> UNION {NamesIn(v.items[i], phase) : i \in DOMAIN v.items}
    [] v.kind = "dict" -> UNION {NamesIn(v.of[k], phase) : k \in DOMAIN v.of}

NamesOf(key) == {key, Key(key[1]), Automatic(key)}

\* The names that dictionaries in v give a meaning of their own.
DefinedIn(v) == UNION {NamesOf(k) : k \in UNION {DOMAIN d.of : d \in Within(v)}}

\* names, with those that their values in t refer to.
RECURSIVE Used(_, _, _)
Used(t, names, phase) ==
  LET Referred(d) == UNION {NamesIn(d.of[k], phase) : k \in {x \in DOMAIN d.of : NamesOf(x) \intersect names # {}}}
      more == names \union UNION {Referred(d) : d \in Within(t)}
  IN  IF more = names THEN names ELSE Used(t, more, phase)

\* The list under key in d uses names, and it is read in a dictionary below d that
\* has meanings of its own for one of them, or before d has its variables or has
\* merged its conditions.
ReadElsewhere(t, d, key, phase) ==
  LET used == Used(t, NamesIn(d.of[key], phase), phase)
      Reads(v) == NamesOf(key) \intersect Used(t, NamesIn(v, phase), phase) # {}
      conditions == {CasesKey(phase)} \intersect DOMAIN d.of
      strings == IF conditions = {} THEN {} ELSE {k \in DOMAIN d.of : d.of[k].kind = "str"}
      early == conditions \union strings \union ({Key("variables")} \intersect DOMAIN d.of)
  IN  /\ used # {}
      /\ \/ \E c \in Within(d) \ {d} : Reads(c) /\ DefinedIn(c) \intersect used # {}
         \/ \E k \in early : Reads(d.of[k])

\* Lists of strings that stand in lists of d: a reference may have put them there,
\* and into lists of other dictionaries.
InnerLists(d) ==
  {l \in UNION {Range(d.of[k].items) : k \in {x \in DOMAIN d.of : d.of[x].kind = "list"}} :
     l.kind = "list" /\ \A i \in DOMAIN l.items : l.items[i].kind = "str"}

Contested(t, phase) ==
  \E d \in Within(t) :
    \/ \E k \in DOMAIN d.of : d.of[k].kind = "list" /\ ReadElsewhere(t, d, k, phase)
    \/ \E e \in Within(t) \ {d} : \E l \in InnerLists(d) \intersect InnerLists(e) : NamesIn(l, phase) # {}
=============================================================================
