------------------------- MODULE MCGypDictionaries --------------------------
(* Small build files for TLC, in families that vary one thing each. *)
EXTENDS GypDictionaries

K(name) == Key(name)
S(name) == NameStr(name)
L(names) == ListOf([i \in DOMAIN names |-> S(names[i])])
R(symbol, name) == Str(<<Ref(symbol, FALSE, K(name))>>)
Each(symbol, name) == Str(<<Ref(symbol, TRUE, K(name))>>)
D(entries) == DictOf(entries)
Case(name, value, then) == ListOf(<<Str(<<Test(K(name), value)>>), then>>)
CaseElse(name, value, then, else) == ListOf(<<Str(<<Test(K(name), value)>>), then, else>>)
None == [i \in 1..2 |-> <<>>]

Alone(root, variables) ==
  [text |-> "a.gyp" :> root, dir |-> "a.gyp" :> <<>>, main |-> "a.gyp", includes |-> <<>>, variables |-> variables,
   publishers |-> [t \in Range(SettingsTypes) |-> None]]
Target(name, entries) ==
  D(entries @@ K("target_name") :> S(name) @@ K("type") :> S("static_library"))
OneTarget(entries) == D(K("targets") :> ListOf(<<Target("t", entries)>>))

\* Variables of a target, given, defaulted or both, used by its strings, its
\* lists, a condition and a dictionary below it.
Scoping ==
  {Alone(D(K("variables") :> D(K("w") :> S(w) @@ K("l") :> ListOf(<<R("<", "w"), S("m")>>)) @@
           K("targets") :> ListOf(<<Target("t",
             K("variables") :> D(<<"v", "%">> :> R("<", "w") @@ K("u") :> R("<", own)) @@
             K("conditions") :> ListOf(<<CaseElse("v", "a",
               D(<<"defines", policy>> :> L(<<"c">>) @@ K("variables") :> D(K("u") :> S("cond"))),
               D(K("defines") :> ListOf(<<R("<", "u")>>)))>>) @@
             K("defines") :> ListOf(<<Each("<", "l"), R("<", "v"), R(">", "_type"), R("^", "_target_name")>>) @@
             K("below") :> D(K("flags") :> ListOf(<<R("<", "u"), Each("<", "_defines")>>)))>>)), given)
   : w \in {"a", "b"}, own \in {"v", "w"}, policy \in {"", "+", "=", "?"}, given \in {<<>>, K("v") :> S("a")}}

\* Blocks of variables inside blocks of variables, with a default that the block
\* around it, the command line or a condition overrides.
Nesting ==
  {Alone(D(K("variables") :> D(K("variables") :> D(<<"os", "%">> :> S("linux") @@
                                                   K("conditions") :> ListOf(<<Case("arch", "arm", D(K("os") :> S("none")))>>)) @@
                               around @@ <<"os", "%">> :> R("<", "os") @@ K("ls") :> L(<<"p", "q">>)) @@
           K("targets") :> ListOf(<<Target("t",
             K("conditions") :> ListOf(<<Case("os", "linux", D(K("defines") :> ListOf(<<Each("<", "ls"), R("<", "ls")>>))),
                                         Case("os", "mac", D(K("libraries") :> L(<<"z">>) @@
                                           K("conditions") :> ListOf(<<Case("arch", "x86", D(K("os") :> S("never")))>>)))>>) @@
             K("target_conditions") :> ListOf(<<CaseElse("_kind", "linux", D(<<"defines", "+">> :> ListOf(<<R(">", "_kind")>>)),
                                                         D(K("kind") :> S("other")))>>) @@
             K("kind") :> R("<", "os"))>>)),
         K("arch") :> S(arch) @@ given)
   : around \in {<<>>, K("arch") :> S("x86")}, arch \in {"x86", "arm"}, given \in {<<>>, K("os") :> S("mac")}}

\* Two files that include a third, defaults under the targets and toolsets, with
\* the policies of lists and paths of two directories.
File(name) == Str(<<Word(<<>>, name, "")>>)
P(dir, base, ext) == Str(<<Word(dir, base, ext)>>)
Included(policy, type) ==
  [text |-> "a.gyp" :> D(K("includes") :> ListOf(<<File("b.gypi"), File("c.gypi")>>) @@
                         K("target_defaults") :> D(K("defines") :> L(<<"base", "own">>) @@ K("x_dir") :> P(<<>>, "out", "")) @@
                         K("targets") :> ListOf(<<
                           Target("t", K("toolsets") :> L(<<"target", "host">>) @@ <<"defines", policy>> :> L(<<"own">>) @@
                                       K("includes") :> ListOf(<<File("c.gypi")>>)),
                           Target("u", K("sources") :> ListOf(<<P(<<"sub">>, "m", ".c"), P(<<>>, "m", ".h")>>))>>)) @@
            "b.gypi" :> D(K("includes") :> ListOf(<<File("c.gypi")>>) @@
                          K("target_defaults") :> D(K("include_dirs") :> ListOf(<<P(<<"..">>, "inc", ""), Each(">", "_flags")>>) @@
                                                    K("flags") :> ListOf(<<P(<<"-">>, "O", ""), P(<<"-">>, "O", "")>>) @@
                                                    K("x_dir") :> P(<<"d">>, "gen", ""))) @@
            "c.gypi" :> D(<<"sources", policy>> :> ListOf(<<P(<<>>, "m", ".c")>>) @@
                          K("target_defaults") :> D(K("defines") :> type)),
   dir |-> "a.gyp" :> <<"app">> @@ "b.gypi" :> <<"lib">> @@ "c.gypi" :> <<"lib", "d">>,
   main |-> "a.gyp", includes |-> <<>>, variables |-> <<>>,
   publishers |-> [t \in Range(SettingsTypes) |-> <<<<>>, <<>>, <<>>>>]]
Inclusion == {Included(policy, type) : policy \in {"", "+", "=", "?"}, type \in {L(<<"inc">>), S("inc")}}

\* Configurations that inherit over a diamond, with filters of their lists.
Configured ==
  {Alone(OneTarget(K("defines") :> L(<<"t">>) @@ K("level") :> S("0") @@ K("mode") :> S("t") @@
           K("libraries") :> L(<<"z">>) @@
           K("configurations") :> D(
             K("Base") :> D(K("abstract") :> S("1") @@ K("level") :> S("1") @@ K("defines") :> L(<<"t", "base">>)) @@
             K("Debug") :> D(K("inherit_from") :> L(<<"Base">>) @@ K("mode") :> S("debug") @@ own) @@
             K("Release") :> D(K("inherit_from") :> L(parents) @@ K("level") :> S("2")))), <<>>)
   : parents \in {<<"Base", "Debug">>, <<"Debug", "Base">>, <<"Release", "Base">>, <<>>},
     own \in {K("defines") :> L(<<"debug">>), K("sources") :> L(<<"bad">>)}
              \union {<<"defines", policy>> :> L(<<"base">>) : policy \in {"!", "+", "=", "?"}}}

Rule(action, base, ext) == ListOf(<<S(action), P(<<>>, base, ext)>>)
Filtering ==
  {Alone(OneTarget(K("sources") :> ListOf(<<P(<<>>, "a", ".c"), P(<<>>, "b", ".c"), P(<<>>, "b", ".h")>>) @@
                   <<"sources", "/">> :> ListOf(<<Rule(first, "", ".c"), Rule(second, "b", ext)>>) @@
                   <<"sources", "!">> :> ListOf(<<P(<<>>, "b", ".h")>>) @@
                   <<"inputs", "!">> :> L(<<"x">>) @@ more), <<>>)
   : first \in {"exclude", "include"}, second \in {"exclude", "include"}, ext \in {".c", ".h"},
     more \in {<<>>, K("sources_excluded") :> L(<<"x">>)}}

\* A target that publishes settings to another, and what is found wrong at the end.
Publishing ==
  {[Alone(D(K("targets") :> ListOf(<<
      Target("t", K("defines") :> L(<<"x">>)),
      Target("u", K(type) :> D(K("defines") :> ListOf(<<S("pub"), R(">", "_target_name")>>)) @@
                  K("direct_dependent_settings") :> D(K("defines") :> L(<<"direct">>)) @@
                  (wrong @@ K("sources") :> ListOf(<<P(<<>>, "g", ".y")>>) @@
                   K("rules") :> ListOf(<<D(K("rule_name") :> S("r") @@ K("extension") :> P(<<>>, "", ".y"))>>)))>>)), <<>>)
    EXCEPT !.publishers[type] = <<<<2>>, <<>>>>]
   : type \in {"all_dependent_settings", "link_settings"},
     wrong \in {<<>>, K("run_as") :> D(K("environment") :> D(<<>>)), K("actions") :> ListOf(<<D(K("action_name") :> S("x"))>>),
                 K("standalone_static_library") :> S("1") @@ K("type") :> S("none"), K("type") :> S("library"),
                 K("sources") :> ListOf(<<P(<<>>, "g", ".c"), P(<<"d">>, "g", ".cc")>>),
                 K("rules") :> ListOf(<<D(K("rule_name") :> S("r") @@ K("extension") :> P(<<>>, "", ".y")),
                                        D(K("rule_name") :> S("q") @@ K("extension") :> P(<<>>, "", ".y"))>>)}}

\* An action that takes over the filters of its target's sources, rules of which
\* refer to a variable that the action may define for itself.
Ruling ==
  {Alone(OneTarget(K("variables") :> D(K("v") :> P(<<>>, "b", ".h")) @@
                   K("sources") :> ListOf(<<P(<<>>, "a", ".c"), P(<<>>, "b", ".h")>>) @@
                   <<"sources", "/">> :> ListOf(<<ListOf(<<S("exclude"), R(symbol, "v")>>), Rule("include", "a", ".c")>>) @@
                   K("actions") :> ListOf(<<D(own @@ K("action_name") :> S("x") @@ K("inputs") :> L(<<"i">>) @@
                     K("action") :> ListOf(<<P(<<>>, "a", ".c"), P(<<>>, "b", ".h")>>) @@
                     <<"action", "!">> :> ListOf(<<Str(<<Ref(">", TRUE, <<"_libraries", "!">>)>>)>>) @@
                     <<"action", "/">> :> ListOf(<<Str(<<Ref(reader, TRUE, <<"_sources", "/">>)>>)>>))>>)), <<>>)
   : symbol \in {"<", ">"}, reader \in {"<", ">"},
     own \in {<<>>, K("variables") :> D(K("v") :> P(<<>>, "a", ".c"))}}

\* A list that is read by a dictionary below, which may have variables of its own,
\* and by a string, before conditions that change the variable it uses.
ListRead(symbol, own, more) ==
  Alone(OneTarget(K("variables") :> D(<<"v", "%">> :> S("a")) @@ K("l") :> ListOf(<<R(symbol, "v"), S("m")>>) @@
                  K("below") :> D(own @@ K("flags") :> ListOf(<<Each(symbol, "_l")>>)) @@ more), <<>>)
OwnVariables == {<<>>, K("variables") :> D(K("w") :> S("b")), K("variables") :> D(K("v") :> S("b"))}
Reading(symbol) ==
  {ListRead(symbol, own, string @@ cases)
   : own \in OwnVariables, string \in {<<>>, K("s") :> R(symbol, "_l")},
     cases \in {<<>>, CasesKey(symbol) :> ListOf(<<Case("_type", "static_library",
                                                      D(K("variables") :> D(K("v") :> S("c"))))>>)}}

\* A string of the command line that stands for a list, in a list that is read.
Splitting ==
  {Alone(OneTarget(K("variables") :> D(K("ls") :> L(<<"p", "q">>)) @@
                   K("m") :> ListOf(first \o <<Each("<", "s")>>) @@
                   K("defines") :> ListOf(<<Str(<<Ref("<", all, K("_m"))>>)>>)),
         K("s") :> Each("<", "ls"))
   : first \in {<<>>, <<S("x")>>}, all \in BOOLEAN}

MCAlphabet == <<"Base", "Debug", "Default", "Release">>
MCProjects == Scoping \union Nesting \union Inclusion \union Configured \union Filtering \union Publishing
              \union Ruling \union Reading("<") \union Reading(">") \union Splitting

\* Nothing but a dictionary below reads the list before its turn.
MCParents == {ListRead(">", own, <<>>) : own \in OwnVariables}
=============================================================================
