# Verification of opentelemetry-cpp-contrib

This directory holds TLA+ models of the parts of opentelemetry-cpp-contrib whose
correctness depends on the order of events, the TLC configurations that check
them on small instances, and TLAPS proofs of the results that matter most.
Paths below are relative to the root of the repository; W stands for
`instrumentation/otel-webserver-module`, F for `exporters/fluentd` and G for
`W/scripts/gyp/r1919/pylib/gyp`, the build tool that the agent's tree carries.

## The system

The repository is a collection of instrumentations, which start and end spans
around the work of a host program, and exporters, which carry finished data to
a back end.  They share no code with each other; what they have in common is
the OpenTelemetry C++ API and SDK, which are not in the repository.

| Component | State | Operations | What makes it hard |
| --- | --- | --- | --- |
| Request processing (`W/src/core/api/RequestProcessingEngine.cpp`, `W/include/core/RequestContext.h`, `W/src/core/sdkwrapper`) | a RequestContext per request: root span, stack of interactions; the thread's context stack in the API | startRequest, endRequest, startInteraction, endInteraction | parents are implicit in the thread; nginx interleaves requests on one thread; hooks may never return |
| Agent contexts (`W/src/core/api/WSAgent.cpp`, `W/src/core/AgentCore.cpp`) | initPid under initMutex, tenants added before init, one context with its kernel and engine per name | initDependency, init, term, addWSContextToCore, the four request calls | several threads initialise at once; readers take no lock |
| Agent configuration (`ApiUtils.cpp`, `SdkHelperFactory.cpp`, `TenantConfig.h`) | a TenantConfig, an SDK pipeline | read settings, build exporter, processor, sampler, propagators | none: sequential, once |
| Span naming (`SpanNamer.cpp`, `SpanNamingUtils.cpp`) | a naming rule | getSpanName | boundaries of the segment rules |
| Apache module (`W/src/apache/ApacheHooks.cpp`, `HookContainer.cpp`) | the handle in the request's notes, the configuration in the process pool | hooks around the modules of each stage, initialisation of each child by its first requests | threads share the child, hooks that are skipped, lazy initialisation |
| Apache configuration (`W/src/apache/ApacheConfig.cpp`) | m_webServerContexts and m_reportAllStages, of the whole process; one record per location | directives, the merge of records | .htaccess files run directives while requests are served |
| nginx web server module (`W/src/nginx`, `opentelemetry_ngx_api.cpp`) | module context per request, a fixed array of contexts | worker start-up, wrapped phase handlers | one thread interleaves requests; redirects run the phases inside a handler and clear its context |
| nginx instrumentation (`instrumentation/nginx`) | context per request and location, script variables | StartNgxSpan, FinishNgxSpan | redirects, subrequests, cancelled requests |
| httpd instrumentation (`instrumentation/httpd`) | span and scope in the request pool | hooks, proxy hooks | pool lifetime, proxied requests |
| Fluentd exporters (`F/src/trace`, `F/src/log`) | connected_, socket_, is_shutdown_ | Export, Send, Connect, Disconnect, Shutdown | retries, broken connections, descriptors |
| Socket tools (`F/include/.../socket_tools.h`) | a descriptor; the Reactor's socket list and thread | connect, writeall, close; addSocket, removeSocket, stop | callbacks under a lock, events of removed sockets |
| Geneva metrics exporter (`exporters/geneva`) | transport socket, buffer | Export, Send, Connect | failures of single sends |
| Prometheus push exporter (`exporters/prometheus`) | bounded metric collection | Export, Collect, Shutdown | capacity, the gateway's collecting thread |
| user_events exporters, log sinks, recordables | none or one flag | Export, log | none |
| gyp input (`G/input.py`) | the data of the build files loaded, the graph of targets, `ParallelState` | load build files in a pool of processes, check for cycles, order and prune targets, adjust static libraries; evaluate variables and conditions, merge includes, defaults and configurations, filter lists | callbacks of the pool's thread; rewriting a graph while going through it; dictionaries that are changed in place while variables refer to them |
| gyp generators (`G/generator/ninja.py`, `make.py`, `android.py`, `cmake.py`, `xcode.py`, `msvs.py`) | what others may wait for, of each target written | write the steps of each target, and what building everything builds | order is handed on through targets that have no outputs, and each generator does it its own way |
| Xcode project objects (`G/xcodeproj_file.py`, `G/generator/xcode.py`) | the tree of objects of each project: groups and references, targets with phases, configurations, references to other projects | build the objects target by target, complete the projects, give ids, print | objects refer to those of other projects, which are not complete yet; groups are rewritten in place; an id is a hash of what an object is found by |
| gyp's emulation of compilers, its dump generators, examples, build files | | | conversions, or no behaviour |

How they interact: the Apache and nginx modules call WSAgent, WSAgent finds the
engine of the request's context in AgentCore and forwards the call to it, the
engine starts spans through SdkWrapper, and the spans attach and detach contexts
on the calling thread.  The SDK, from its own thread or the one that ends a
span, calls Export on an exporter; the exporter owns its connection.  gyp is a
program of its own: input.py loads the build files and hands the list of targets
to a generator.

What makes each component correct:

- Request processing: a trace holds the spans of one request; every span that is
  started is ended, once; a thread that serves no request holds no context.
- Agent contexts: an engine is ready before a request looks for it, and never
  replaced.
- Web server modules: each request that starts is ended once, on every path
  through the server's phases, and interactions nest within it.
- Exporters: Export's answer says what was sent, packets stay whole and in order,
  Export returns, no descriptor is lost, nothing is sent after Shutdown.
- gyp: every build file needed is loaded once, a cycle is reported if and only if
  there is one, and the build that is written starts no step before what it
  relies on is there, can come to its end, and then has built what was asked for.
- Reactor: a callback is made only for a registered socket, and stop returns.

## Modules

| Module | Models |
| --- | --- |
| `RuntimeContext` | the thread-local context stack of the API: what Attach and Detach do to it (external) |
| `RequestProcessing` | the engine's four operations and the spans' attach and detach calls |
| `OrderedDelivery` | what a caller of a Fluentd exporter may rely on (abstract) |
| `FluentdExporter` | both Fluentd exporters with their sockets, and the collector's faults |
| `NginxModule` | the wrapped phase handlers of the nginx web server module, driving RequestProcessing on one worker |
| `AgentContexts` | WSAgent's initialisation and AgentCore's contexts in one process |
| `ApacheModule` | the hooks of the Apache module on the threads of one child, driving AgentContexts and RequestProcessing |
| `ClosureLoading` | what gyp promises of loading build files (abstract) |
| `BuildFileLoading` | the sequential and the parallel loader of gyp |
| `GypInput` | what input.py makes of the files loaded: cycles, order, pruning, static libraries |
| `GypTrees` | dictionaries, lists and strings, as trees and as objects of a heap, and how they are merged |
| `TargetSettings` | what is done to whole targets: toolsets, defaults, settings of dependencies, configurations, filters, validation |
| `GypEvaluation` | what the text of a build file means (the reference definition) |
| `GypDictionaries` | how input.py reads a file and evaluates it in place, in three phases |
| `BuildSteps` | what the generators share: the steps and what they wait for, what building everything builds |
| `NinjaWriter`, `MakeWriter`, `AndroidWriter`, `CMakeWriter`, `XcodeWriter`, `MsvsWriter` | the six generators, on the targets of GypInput |
| `GypBuild` | gyp as a whole: the build it writes comes to its end and its links are complete, whoever writes it |
| `BuildOrder` | in what order the steps of such a build can run, and what building everything runs |
| `XcodeObjects` | the objects of Xcode projects: paths and groups, phases, products, ids, references between projects |
| `XcodeTurns` | the turns of GenerateOutput of the xcode generator, whatever the objects are, as part of gyp as a whole |
| `XcodeProjects` | GenerateOutput of the xcode generator on these objects, turn by turn, and what finished projects are to be like |
| `MC*` | the instances TLC checks |
| `*_proofs` | the theorems and their proofs |

### RequestProcessing

`stack[t]` is the context stack of thread `t`.  For a request `r`, `phase[r]`
follows the handle (none, given out, in endRequest, deleted), `home[r]` is the
thread that runs it, `token[r]` the context ServerSpan attached, `active[r]` the
RequestContext's stack of interactions and `spans[r]` every span it started, the
root first, with parent, status and whether it is ended.

StartRequest, StartInteraction, EndInteraction are one action each: each runs to
its end on one thread, and another thread can see only the spans, which it does
not read.  endRequest is split in EndRequest, EndRequestUnwind (one turn of its
loop) and EndRequestFinish, so that properties are checked between the turns;
`Free(t)` keeps a thread from doing anything else in between, as the code does.
EndRequestFinish makes the three detaches of the code: by ServerSpan::End, by the
destructor of its token and by the destructor of the root's scope.

Two facts of the environment are constants.  `SharedThreads` says whether a
thread may serve several unfinished requests (nginx) or one at a time (Apache's
worker and prefork).  `ExtractKeeps` says whether the propagators return the
context they were given when the carrier holds no valid parent (later releases
of the API), in which case ServerSpan attaches a context that is on the stack
already, or a new context with an invalid span (the release the Dockerfile pins).

Names, attributes, header text and the error messages are left out; a response
is abstracted to the class of its status code.

### FluentdExporter

`pc` is where Send stands; `packet` of `total` is being sent with `retries`
attempts left; `result` is Export's.  `connected` and `sock` are the members,
`fds` what the kernel knows of each descriptor, `stream` what reached the
transport, `sent` that writeall has written a part of the packet so far, and `torn`
that the connection ends within a packet that was given up.  The log
exporter sends one packet per call, the trace exporter a batch of spans and then
one packet per event name.  Both share every action; they differ in what Connect
does with a socket it could not connect (ConnectFails).

Each system call is a step of its own, so that the collector may go away, come
back or drop the connection between any two of them.  A dropped TCP connection
leaves a pending error, which getsockopt(SO_ERROR) or a failed send returns and
clears; a unix one leaves none and fails every send.  A send may also be
interrupted (EINTR) with or without a part of the packet taken.

Initialize runs in the constructor and is not modelled; udp:// endpoints are
not, since one send is one datagram there; the sends of one writeall that each take
a part of the packet are one step.  One thread calls Export (the SDK's processors guarantee
it), Shutdown may come from another at any time.

OrderedDelivery has no sockets, retries or faults: a call begins, delivers its
packets one by one and succeeds with the last one, or fails before it.

### NginxModule

The module EXTENDS RequestProcessing with `SharedThreads = TRUE`: a thread is an
nginx worker, and what the handlers ask of the agent are RequestProcessing's
actions.  nginx is external: `at[r]` is the phase a request is in, or where it
waits; `internal[r]` is `r->internal`; `enabled[r]` the `NginxModuleEnabled` of
its location.  `handle[r]` says that the request's module context holds the
agent's handle, `calls[r]` is the stack of wrapped handlers the worker is in, each
with what it saved on entry, and `ready`, `crashed` belong to the worker.  `lost`
is a history variable: a redirect cleared the handle for good.

The handlers between entry and the call they wrap are Monitor (rewrite only) and
Enter, and after it one of Leave, LeaveIndex, LeaveTryFiles and
LeaveTryFilesFreed; the log handler is LogHandler, LogUnwinds and LogFinishes.
The wrapped handlers fall into five kinds, since the agent sees of a handler only
whether it redirects (index and random_index, try_files), rewrites (rewrite),
or may be followed by a wait.  A redirect runs the phases from the rewrite phase
inside the handler, clears the context and may choose a location with other
settings; if try_files redirected and the response is complete, it frees the
request before its wrapper goes on.  The wrapper then reads freed memory, which
the model takes to hold what it held, as the code does.  A worker takes up another
request only when it is out of the present one (`Idle`).

Left out: the directives, headers, variables and payloads, and how the wrappers
get into the phase arrays.  Subrequests are internal and have contexts of their
own, so the agent does nothing for them.

### AgentContexts and ApacheModule

AgentContexts has no specification of its own: its actions are the steps that a
web server module composes.  `holder` is the caller that holds initMutex while
it makes the contexts in `todo`; `core[n]` is "bare" between createContext and
initContext, when another thread would find a context without a kernel.
`tenants` are the contexts added before the initialisation.  initDependency and
addWSContextToCore with nothing to do hold the mutex for one step only.

ApacheModule EXTENDS it and RequestProcessing with `SharedThreads = FALSE`: a
thread has one request at a time.  `at[r]` is where the thread is with its
request.  "walk" is the walk to the location, which runs the directives of
.htaccess files (Configure); "begin" to "publish" are the header-parser hook up
to the point where the configuration is in the process pool, taken by every
request that finds none there; "plain", "handler" and "log" are the stages in
which modules run, and "end", "ending" the last logging hook.  `hook[r]` stands in
otel_startInteraction between the check of the flag, the end of a leftover
interaction and the start of the new one, since the flag, which belongs to the
process, may change in between.  A module may answer in any stage, so EnterLog is
possible from each.

A `Site` says what the merged configuration of a location leaves: refused by
otel_cfg::validate, off or on, the context's name, and what an .htaccess file
sets.  The race of an .htaccess file's insertion with a thread that reads the
table is undefined in C++; the model lets the reader find the new context, miss
it, or die.  Apache is external, and so is the reason an initialisation fails:
InitFails may happen whenever the mutex is free.  Internal redirects and subrequests are not
initial requests, and every hook returns at once for them, so they are no
requests here.  One child process is modelled: children share nothing.

Left out: the event MPM, which may write a response out on another thread;
where insertHooksForStage puts the hooks; the payloads and the output filter;
term, which runs as the child exits.

### ClosureLoading, BuildFileLoading and GypInput

`project` is what the build files hold and is chosen at the start.
BuildFileLoading has both loaders.  The sequential one is LoadFile, once per file.
In the parallel one `main` is the main thread of LoadTargetBuildFilesParallel,
`dependencies`, `scheduled`, `pending` and `error` are ParallelState's, and `jobs` the
calls made so far, each with its file and how far it has got.  The main thread holds
the condition except while it waits; Callback and CallbackFails, of the pool's
thread, take it (`Unlocked`).  The pool is external.  ClosureLoading is what both
come to: the least set of files that holds the roots and what its readable files
ask for, or a failure that an unreadable one among them explains.

GypInput goes on with Load: `stage` says what it is about, or how it failed,
`flat` is flat_list, `zeros` in_degree_zeros, `next` the index of the target at
hand and `deps` the dependencies as rewritten so far.  Lists of targets are sets,
so the order in which FlattenToList takes nodes is left open.  The walks along the
graph (DeepDependencies, imported dependencies, what is linked) differ in what they
follow; each is `Reached`, the least closed set.  `KeepWanted` is the end of the
graph: the list is pruned, and DoDependentSettings looks up all that the targets
kept import, which is an exception if one was pruned or does not exist.  Of the steps before
the graph it has what decides about order: wildcards, exclusion lists,
prune_self_dependency and link_dependency.

Left out here: what the dictionaries hold, which is the next section's;
wildcards in export sections, an interrupt from the keyboard, and a pool process
that is killed.

### GypTrees, TargetSettings, GypEvaluation and GypDictionaries

These model what happens to the contents of one build file.  A tree
(`DictOf`, `ListOf`, `Str`) is a value written out; in `heap` every dictionary and list is an
object with a number, as in Python, because input.py changes them in place while the
variables of the calls under way refer to the same lists.  `frames` is the stack of
those calls: ProcessVariablesAndConditionsInDict (one frame, whose `at` says how far it
is: variables, strings, conditions, children), ...InList, and
LoadBuildFileIncludesIntoDict while the file is read.  Python 2 iterates over a
dictionary in an order of its own, so ExpandString and Child take any key.
`stage` is where Load stands: "read", "early", "late", "filter", "latelate", "done".
A GypError or TypeError is `heap.ok = FALSE`.

A key is a name with a suffix (a list policy, a filter or the % of a default), a string a
sequence of atoms: a word, with directory, base name and extension; a reference to a
variable, with the symbol of its phase and whether it has an @; the test of a condition.
TargetSettings has the steps between the rounds as operators on the heap, since nothing
else runs meanwhile: ProcessToolsetsInDict, the defaults, DoDependentSettings,
SetUpConfigurations, ProcessListFiltersInDict, the validations.

GypEvaluation says what a file means without objects, frames or orders: a function from a
tree and the values given to a tree.  It is what EvaluatesAsWritten compares with.

A list is expanded in place by whoever refers to it first, in the scope of that
reference.  If it is read in two scopes that disagree about a variable it uses, its value
depends on the order of the keys.  `Contested` says, of the text alone, which files have such a list:
it is read from below by a dictionary that defines one of the names that the list uses; or it is read by a string,
the conditions or the block of variables of its own dictionary, before that has its
variables or has merged its conditions (`ReadElsewhere`); or it is an inner list that
several dictionaries share.  EvaluatesAsWritten exempts these files and claims all others;
SubdictsCannotInfluenceParents claims what the comment in the code says of them, and is a finding.

A reference to a name that ends in `/`, such as `>@(_sources/)`, may find a list of lists, the rules of a
filter.  ExpandVariables expands the inner lists in place and copies the outer list only
(`G/input.py:951`, 972, 1002), so that each rule is held by both lists from then on.  OneHolder exempts
such rules (lists of strings that stand in lists) and nothing else.  A string that
itself splits into a reference to a list becomes a list in the list it stands in.

Left out: dictionaries in a list that a `/` name refers to, commands (`<!`) and files (`<|`) in references, references within references,
integers, conditions other than one comparison, the syntax check of files, extra sources for
rules and the leniency for ARM, command lines of rules and actions.  What depends on which
target depends on which is a parameter here (`publishers`); GypInput computes it.

Two things met while modelling are not properties, since the code and its comments say
nothing else, but a user should know them: a list policy in a dictionary chosen by a
condition is lost when that condition was itself merged from an include or from
target_defaults under a key that is merged as a list; and the note at `G/input.py:1203` about variables
set in conditions is overtaken by the reload at line 1243.

### BuildSteps, the six writers, GypBuild and BuildOrder

`Generate` is the step from Load to a generator: `generator` is the format chosen,
`needed` what AllTargets finds.  That goes by the dependencies as they are now and,
for static libraries, as they were (dependencies_original).  The generator then takes one target after the
other from `flat` and adds to `edges` the steps it writes, each with the file it
makes and those it waits for; `outputs` holds what it keeps of a target for those to
come.  The actions named `...Write` (WriteSpec for ninja) are one target each; below
them there is an operator for each method that writes, and `...All` says what
building everything asks for.

| Generator | A target waits for those it depends on through |
| --- | --- |
| ninja | the Target objects written before: final output, else what these waited for; a stamp is the set of files it stands for |
| make, android | two tables of outputs and of link dependencies, in which a missing target is an exception |
| cmake | add_dependencies between targets and custom targets, by name, and target_link_libraries |
| xcode | dependencies between targets, whose phases run one by one; scripts are in a support target of their own where something is compiled |
| msvs | references between projects, in which custom build steps come first |

What the tools do with that is external: a step may run when the files it waits for
are there, and not before.  Where a tool builds whole targets, all the steps of a
target wait for the targets before it (`Whole`).

GypBuild composes the loader, GypInput and the generators (`GypSpec`).  It has the properties
that are proved as well, LinksComplete and BuildNeverStuck; the latter says with an order
(`ComesBefore`: the place of a target in the list, and in it that of the file) that no step
waits for itself.  `Raised` is the end that the objects of xcode may bring, from any turn of that generator.

BuildOrder has the three properties about what is far behind a step (CompileAfterActions,
ActionsAfterDependencies, AllBuilds).  `Before` takes as many steps back as there can be
files in a row.  Only the exemptions say which generator they are about:

- `LinkedOnly`: with ninja and android a program or library without sources is linked without
  waiting for its own actions.
- `Hollow`: with make and android a library without anything of its own waits for the
  libraries it links only, so that what comes after it does not wait for the rest of what is before it.
- `UsedProducts`: with ninja, make and android nothing waits for the objects of a target of type
  "none", which are linked into nothing.
- `Asked`: android and xcode leave targets with suppress_wildcard out of everything.

Left out: commands, flags, paths and the formats written; several toolsets, bundles and
precompiled headers; the shards and shims that msvs adds; generators under which ninja
builds; CMake's own refusal of libraries without sources.

### XcodeObjects and XcodeProjects

XcodeWriter has what Xcode does with a target as steps of a build; these two have the
project file that makes Xcode do it.  `xcode.heap` holds the objects of all projects, each with
its class, parent, properties, its dictionaries of children or build files (`paths`, `index`)
and `_hashables` (`salt`).  An operator of XcodeObjects is a method: it takes the heap and
returns it changed, with the object it is about as `it`; a method that raises sets `fault`,
and whatever is called on that heap later leaves it alone.  A path is a sequence of components
and an id the sequence of what is hashed for it, so that equal ids are equal sequences.

XcodeTurns says what is done next, and XcodeProjects what that does to the objects.
XcodeGenerate makes a project for each build
file; XcodeTarget(t) is one turn of the loop over targets, with all its sections in their order;
Finalize1(f) and Finalize2(f) complete one project and take files in any order, as `data` is a
dictionary (`unready` has the files still due); WriteProjects prints.  Raise is the end by an
exception, in `stage` "objects".  Other generators pass through GoElsewhere,
XcodeGenerate, XcodeTarget and WriteProjects without objects.  Each of these actions has its turn in
XcodeTurns as a conjunct and adds what becomes of `xcode`.  `Control` is XcodeNext without
the objects: both are enabled in the same states, and fairness is stated of Control because
TLC would have to build all objects to see whether XcodeNext is enabled.

- `ReferencesFollowPaths`: each file that a build file lists has exactly one reference in its project,
  whose full path is that of the file also after groups took over only children, and its
  id depends on nothing but its path.
- `ObjectsDoSteps`: every step that waits for others in the build of XcodeWriter is in a later
  phase of the same target or in a target that depends on theirs, across projects too, and
  a target links the products of the libraries it depends on and of no others.
- `RefusedForAReason`: an exception is raised for the clashes that `Clash` names and for nothing else.

Left out: alphabetical sorting, except for what SortGroups asserts; the encoding and layout of
the file; the makefiles that scripts of rules call; xcode's own generator flags,
--generator-output and what depends on the version of Xcode.  Copy is called for defaults of
schemas only, where the model makes the object anew.
Dependencies of one target are added in the order of `flat`.

What else these modules show of xcodeproj_file.py, which no property is about: an absolute path among the sources
makes another group with an empty name each time; the ids of files below Intermediates, and below a
folder called Source at the top, do change when groups are taken over, against the
comment at `G/xcodeproj_file.py:955`; copies to several destinations end up in reverse order,
since prebuild_index is not moved on; TakeOverOnlyChild does not take over the dictionary of variant groups;
and "com.apple.product-type-bundle.unit.test" (`G/xcodeproj_file.py:2310`) is spelled so that its branch
is never taken.

## Runs

| Run | Bounds | Shows |
| --- | --- | --- |
| `rp_own` | 2 threads, 2 requests placed in every way, 2 interactions each | TypeOK, OwnContext (the inductive invariant), OwnAncestry, IdleThreadIsClean, OpenSpansAreTracked, ClosedSpansAreFinal, SpansEnd hold with one request at a time per thread |
| `rp_shared_ancestry` | 1 thread, 2 requests | OwnAncestry does not hold then: a finding |
| `ng_requests` | 1 worker, 2 requests, 2 interactions and 2 redirects each | HandleIsLive, InteractionsMirrorCalls, EndedUnlessLost, StopsItsOwn and ParentStillOpen hold for every interleaving of waits, rewrites and redirects |
| `ng_try_files` | 1 worker, 1 request | TryFilesEndsRequest does not hold: a finding |
| `fl_export` | both exporters, 2 attempts, 3 calls of up to 2 packets, 4 descriptors, 1 interrupted send, 2 resets | ConnectedIsOpen, LeaksAreKnown, Framing, ExportReturns, and the refinement of OrderedDelivery |
| `fl_reconnect` | log exporter | a connection whose error was consumed is written to again: a finding |
| `fl_delivered` | log exporter | an interrupted packet is repeated on the same connection and reported delivered: a finding |
| `ap_requests` | 2 threads, 2 requests, 2 interactions each, 5 kinds of location | EngineBeforeUse, ThreadToItself, InteractionsStopped, DiesOfConfiguration, ContextsAreKept and RequestsAreServed hold while one thread initialises the child and the other runs (159,314 states) |
| `ap_default_context` | the same without .htaccess files | DefaultContextServes does not hold: a finding |
| `gyp_load` | 3 files of up to 4 targets, 2 processes, some 4,000 projects, 36 of them with the contents of Xcode projects | LoadsOnce, FlatOrdered, CyclesFound, CompileAfterActions, ActionsAfterDependencies, LinksComplete, AllBuilds, BuildNeverStuck, GypEnds and the refinement of ClosureLoading, with every generator, and ReferencesFollowPaths, ObjectsDoSteps and RefusedForAReason (187,463 states) |
| `gyp_dict` | 138 projects of ten families, expansions nested up to 6 deep | OneHolder, EvaluatesAsWritten, ConfigurationsInherit and FiltersDecide hold in whatever order dictionaries are gone through (99,018 states) |
| `gyp_subdicts` | 3 projects, one list read from below | SubdictsCannotInfluenceParents does not hold: a finding |

The type invariants of NginxModule, ApacheModule and FluentdExporter are proved and not
checked again by the runs.

Why the bounds are enough.  Two requests on one thread give every relative order
of their attaches and detaches; a third shows what is left after two have been
undone out of order; two interactions give a nest whose inner part is closed and
whose outer part is left open.  Two redirects nest an index redirect in a
try_files one, either way round, and put one after a rewrite.  A retry count of 2 (the default of
FluentdExporterOptions) gives a first attempt and a retry; three calls show what
a call inherits from a call that failed; two packets give a batch that fails in
the middle; four descriptors can be exhausted by the leaks within the run, so
that a connect for want of a descriptor happens too.

Two threads of a child are enough for one to overtake the other at every step of the
initialisation; the locations are one that is set up, one that turns the agent
off, one whose name no section declares, one without settings, and one with an
.htaccess file.  Two processes (the code has eight) and three files give results in
both orders, with a third file asked for by one, by both, or by itself.  The
projects of `gyp_load` are families: every graph of three files, loaded in parallel;
selected ones also sequentially, with other roots, files that cannot be read or
define nothing, with and without the check of files; targets that cross files;
all triples of targets of thirteen kinds, where a target exports what it depends on or not;
chains of four with and without pruning; wildcards, exclusion lists and the pruning of
links; and exports of what is no dependency, or does not exist.  The kinds hold what the
writers distinguish: programs, modules, static and shared libraries with and without sources
and actions, hard ones, targets of settings only, of actions, copies and rules, and
targets that dependencies are not followed through.  Families that are about
loading or about links between targets are written by ninja only or by
those that treat them differently, the others by all six generators.

Projects with contents are four families: `Suites` (4), two programs that depend on
libraries of another file, and a target that runs them, with a source that both files list under different
groups; `Lists` (7), one target each with all the sections of its kind: rules, actions, headers, localized resources, folders,
copies to several places, libraries, configurations and options of the product; `Odd` (15), files and folders that are listed twice,
within each other or below groups that can be taken over; and `Alike` (10), actions, products, sources and
projects of one name, where ids or products could meet.

The projects of `gyp_dict` vary one thing each: `Scoping` the variables of a target, given,
defaulted or both, and what uses them; `Nesting` blocks of variables within blocks and conditions
within conditions; `Inclusion` list policies, paths and toolsets over files that include each other;
`Configured` configurations that inherit over a diamond and in a circle, with every list policy; `Filtering` the order of
filters; `Publishing` settings for dependents and every reason to refuse a target; `Ruling` an action that takes
over the rules of its target's sources, with a variable of its own or without; `Reading` a list that is read
from below and by a string before conditions change what it uses, once for each of two phases; `Splitting` a string of the
command line that stands for a list.  Of `Ruling` and `Reading` 14 projects are contested, so that the
exemption of EvaluatesAsWritten is met; without it, or without that of OneHolder, TLC finds
the property violated.  ConfigurationsInherit says nothing of a list that a configuration prepends to,
replaces or only fills in.  All orders of
the keys are taken, at each level.  RecursionLimit only bounds the evaluation; no project comes
near it.

Deadlock is not checked: in every run all requests or calls of the bound end and
the system stops.

Fairness.  `RequestProcessing!Fairness` says that a server ends each request it
has started (it calls the logging hook for every request) and that endRequest,
which does not block, runs on.  Nothing is assumed of interactions: modules may
leave them open.  `FluentdExporter!FairSpec` says that a call of Export that has
begun goes on: it holds no lock another thread waits for, and its system calls
return.  A peer that accepts and never reads can hold a blocking send for ever;
that is outside the exporter's control and outside the model.  Nothing is
assumed of the collector.  `ApFairSpec` says that a thread goes on with a request it has
taken up, and thus that the hooks of other modules return and that a thread with the
mutex releases it; nothing is assumed of new requests.  `XcodeFairSpec` says that gyp
does not stop while something can be done: its threads and processes run on and a file is read in
the end.

## Proofs

All theorems hold for every value of the constants that satisfies the modules'
assumptions (sizes are natural numbers, flags Boolean).

`RequestProcessing_proofs` begins with lemmas about the stack: detaching a context that
is not there changes nothing, detaching the top pops it, and detaching the n-th of
distinct contexts leaves the n - 1 below it.  Then:

- `TypeCorrect`: `Spec => []TypeOK`, shared threads or not.
- `TracesStayApart` and `ThreadsEndClean`: with `SharedThreads = FALSE`,
  `Spec => []OwnAncestry` and `Spec => []IdleThreadIsClean`.  Neither is
  inductive: what a new span's parent is and what a detach leaves depend on the
  whole stack.  The invariant `Confined` says what a thread's stack is: empty
  when it serves no request, else the token, the root's scope and the scopes of
  exactly the active interactions of its one request, in order (`OwnContext`);
  interactions are numbered in the order they started (`ActiveInOrder`), so no two
  scopes are equal and a detach pops exactly one level.  The assumption is
  needed: `rp_shared_ancestry` refutes OwnAncestry without it.
- `ContextStaysOwn`: OwnContext itself, the part of `Confined` that the run checks.
- `OpenSpansAreKnown` and `ClosedSpansStay`: `Spec => []OpenSpansAreTracked` and
  `Spec => ClosedSpansAreFinal`, shared threads or not.  Both rest on `Bookkeeping`,
  that is TypeOK and ActiveInOrder: each action ends the span it takes off a
  request's stack, and no other.  The second needs the first as well: what is on the stack is open.
- `SpansStartBelowOpen`: `Spec => ParentStillOpen`, unless both SharedThreads and ExtractKeeps
  hold.  The invariant `ScopesOpen` says that every span with a scope on a stack is open, and on one
  place of it.  A new span's parent is the span on top, so the property follows.  It is kept
  because whoever ends a span detaches its scope in the same operation.  That takes scopes of which there
  is one: where propagators hand back the context they got, a request of a shared thread
  attaches the scope of another's span a second time, a detach takes the upper copy, and
  the lower one is left of a span that has ended.  TLC finds such a run of RequestProcessing; the
  release that is pinned does not hand it back.

`FluentdExporter_proofs`:

- `ExporterTyped`: `Spec => []TypeOK`, a conjunct of the invariant below.
- `ConnectedTellsTruth`, `LeaksStayKnown`, `RetriesKeepFraming`: `Spec => []P` for
  `ConnectedIsOpen`, `LeaksAreKnown` and `Framing`.  The shared invariant `Inv`
  is TypeOK, ConnectedIsOpen and CallInProgress (a call is pending exactly while
  Send runs, on a packet the call has).  Framing is inductive with it: writeall can
  leave a part of a packet behind by an interruption, and then `cuts = 0` is false, or
  because the connection broke, and then its descriptor is no longer "up"; no action
  brings a descriptor back up, a dead one takes nothing more, and ConnectUp, which may
  run only when `connected` is FALSE, starts a new stream.
- `ExportDelivers`: `Spec => DeliverySpec`.  Initial states map to initial states;
  Export and Refuse map to Call, WriteWhole to Deliver, GiveUp to Fail, and every
  other step stutters.

`NginxModule_proofs`:

- `NginxDrivesAgent`: `NgxSpec => Spec`, so that what is proved of RequestProcessing
  for shared threads holds under nginx.  Each action is one of the agent's or
  leaves its variables alone.
- `NgxTypeCorrect`: `NgxSpec => []NgxTypeOK`, from TypeCorrect and the types of
  nginx's own variables.
- `HandlesStayLive`: `NgxSpec => []HandleIsLive`.  It is inductive together with
  `EndingInLog`, that a request is in endRequest only in the log phase and
  outside every wrapped handler, so that no saved copy of the handle is left when
  the request is deleted.
- `NginxSpansStartBelowOpen`: the property of the agent, carried over by NginxDrivesAgent.
- `InteractionsFollowCalls`, `RequestsEnd` and `HandlersStopTheirOwn`: `NgxSpec => []P` for
  InteractionsMirrorCalls and EndedUnlessLost, and `NgxSpec => StopsItsOwn`.  They share the
  invariant `CallsInv`, which describes the call stack at any depth: each handler but the top one
  is in a redirect, and each but the lowest found the request internal (`Nested`), so that only
  the lowest handler can have an interaction, which is then the only one open (`FirstHolds`);
  from its redirect until it returns the request has no handle (`FirstCleared`), and without a
  handler on the stack nothing is open (`NoneOpen`).  The top handler finds what it left
  (`TopKnows`).  A handle that is not lost is in the context or will be put back by an index handler (`Kept`).
  Every otel_stopInteraction that acts is then called by the lowest handler (`OwnInteraction`).
  That a step of one request leaves the others alone is `HandlesOne`.

`ApacheModule_proofs`:

- `ApacheDrivesAgent`: `ApSpec => Spec`, as for nginx; with it `ApacheTracesStayApart` carries
  TracesStayApart over to Apache, and `ApTypeCorrect` the types.
- `EnginesAreReady` and `EnginesAreKept`: `ApSpec => []EngineBeforeUse` and
  ContextsAreKept.  The invariant `EngineInv` relates where the requests are to who
  holds the mutex (`PlacesOK`), to what the holder has made (`ContextsMade`), and
  to the engines (`EnginesOK`): from "starting" on, the holder's `todo` shrinks to nothing
  and what it shrank by is ready.  A configuration only gains contexts
  (`Declared \subseteq declared`).
- `ThreadsServeOne`: `ApSpec => []ThreadToItself`.  It needs that a request stays on
  its thread (`Placed`) and that no two in service share one (`Alone`).
- `InteractionsAreStopped`: `ApSpec => []InteractionsStopped`.  Without .htaccess files
  the flag is constant (`SettingsStay`).  With it, every begin hook stops what it finds before it
  starts its own; without it, only the handler stage starts one, whose begin hook and the first logging hook
  look at no flag.  `StoppedInv` says this of each request and of each place between the two
  halves of a begin hook.
- `DeathsAreConfigured`: `ApSpec => []DiesOfConfiguration`.  A request that looks for an engine is
  past the initialisation (EngineInv); without .htaccess files all names that are passed to the agent
  are declared ones, hence tenants (`TableFixed`), so that no thread makes a
  context after the initialisation and none can be seen half made.

`BuildFileLoading_proofs`:

- `LoadingIsTyped`, `FilesAreLoadedOnce` and `LoadingRefinesClosure`: types, LoadsOnce and
  `LoadSpec => LoadingSpec`, for all projects, finite sets of files and pool sizes.  The invariant
  `LoadInv` says that every file scheduled and no longer due has exactly one call
  (`Submissions`), that good results are in `loaded` and what they asked for is scheduled
  (`Results`), that `pending` is the number of calls that did not come back good
  (`Outstanding`), which is why it never falls below zero and why the loop cannot end early, and that an
  ended loader has its answer (`Endings`).

`GypInput_proofs`, for all projects whose targets are finitely many, which
`TargetsAssumption` says:

- `TargetsAreOrdered` and `CyclesAreFound`: `InputSpec => []P` for FlatOrdered and CyclesFound.
  InputSpec ends where the generators begin; `GypBuild_proofs` carries both through to the end
  of the run.  They share `InputInv`:
  the invariant of the loader, what has been looked up by each stage
  (`StageInv`), and, while a list grows, that each node is in it once (`Distinct`), behind its
  dependencies (`Behind`), that no set of nodes within the list feeds itself (`Acyclic`),
  and that `zeros` is what may come next (`Free`).  Such a list of all nodes shows that
  there is no cycle, and one that is complete but shorter shows one: the nodes that
  are left, each of which waits for another.  This is said with subsets, not with paths, because
  paths take induction.  A pruned list is a selection that is closed under
  dependencies, hence still ordered.  An adjusted target gets what its dependencies export or
  link, of which the least closed set stays below the target's
  place, since the targets before that place are themselves a closed set.

`GypBuild_proofs`, from the same assumption, for every build that GypSpec can write:

- `WrittenInOrder` and `CyclesStayFound`: `GypSpec => []P` for FlatOrdered and CyclesFound; the generators leave the list, the dependencies
  and what is loaded alone (`GeneratorKeepsInput`).
- `LinksAreComplete`, `BuildsAreNotStuck` and `NoStepWaitsForItself`: `GypSpec => []P` for
  LinksComplete, BuildNeverStuck and `Numbered`.  The last follows from the order in
  BuildNeverStuck and says what that order is for, without paths: the files can be numbered so that
  each step waits for lower numbers only.
- They share `GypInv`, that is InputInv with two more parts.  `AdjustInv` is about the rewriting of
  static libraries: nothing that leads out of the list is added, and what is linked has in its
  dependencies all it links (`LinksListed`), whose static libraries are all those behind it
  (`StaticIsLinked`).  `BuildInv` is about what is written: steps are of targets whose turn has
  been (`StepsOfTargets`), each waits for what comes before it (`Orderly`), links have their
  libraries (`LinkedSteps`), and what the generator keeps of a target is made
  (`OutputsKept`: ninja's Target objects, the tables of make and android, and for the others
  that a target's name stands for all its steps).
- There is one lemma per generator (`NinjaGoesOn`, `MakeGoesOn`, `AndroidGoesOn`, `CMakeGoesOn`,
  `XcodeGoesOn`, `MsvsGoesOn`).  Each builds the steps of a target up from operators whose files
  `Fit`: a step waits for files that were made in earlier turns or come earlier among the
  target's own (`Ready`).  `StepsAdded` then says once what that does to BuildInv.  Under
  cmake and msvs a step may wait for a target that is not written if an export is no
  dependency, as BuildNeverStuck says.

`BuildOrder_proofs`, of the same builds:

- `CompiledAfterActions`, `ActedAfterDependencies` and `AllIsBuilt`: `GypSpec => []P` for
  CompileAfterActions, ActionsAfterDependencies and AllBuilds.
- They share `OrderInv`, next to GypInv.  `FollowsKept`: what a target is said to follow is among its
  dependencies from the turn on in which these were adjusted, and until then they are what
  they were.  `NeededKept`: what building everything is to build was found from the
  dependencies as they still are.  `StepsKept`: the steps of a target whose turn has been are those
  its generator writes (`StepsOf`), and what is kept of it is what that leaves (`RecordOf`).
  The latter takes that what a target depends on was written before it and is not written
  again, which GypInv says.
- At the end, what waits for a file is a question about sets.  Because the files can be
  numbered (FilesNumbered, the lemma behind NoStepWaitsForItself), nothing is left of `Before` after so many
  steps, so that it contains whatever its files wait for (`BeforeClosed`).  Closed sets are all the rest
  is about: a set of files *brings* another if each closed set with the one has the other
  (`Brings`), so that no proof goes along paths.
- Each target has files that stand for it to those that depend on it (`Stand`) and, under ninja, others
  that stand for it to what is compiled (`CompileStand`).  `InOrder` says of one target which
  of its files these bring, that they bring what stands for the targets it passes on, and that what
  its steps and objects wait for brings what stands for those it follows.  One lemma per way to
  write builds shows that (`NinjaInOrder`, `MakeInOrder`, `AndroidInOrder`, and `WholesInOrder` for
  the three that go by whole targets), from the steps of a target, file by file (`MakeStepsAre` and the
  like).  The exemptions of BuildOrder are what these lemmas need and no more: that of `UsedProducts`
  was found when the proof failed for objects of a target of type "none"; with such targets among
  its instances TLC refutes ActionsAfterDependencies and AllBuilds without the exemption.
- The targets of which a closed set has what stands for them pass on, so all that precede
  a target are among them (`PrecedingMade`); and what was asked for is needed, since a static library keeps
  the list of what it gave up (`AskedIsNeeded`).
- `TurnsFollowGyp`: `TurnsSpec => GypSpec`, so that all that is proved of GypSpec holds when
  the xcode generator makes objects, too.  XcodeSpec implies TurnsSpec by its text; XcodeProjects has
  RECURSIVE operators and is beyond the proof system.

Only model-checked: the properties of the Xcode objects (ReferencesFollowPaths, ObjectsDoSteps,
RefusedForAReason) and of the dictionaries (OneHolder, EvaluatesAsWritten, ConfigurationsInherit,
FiltersDecide), which are about trees and paths of any depth that RECURSIVE operators go
through, and the liveness properties SpansEnd, ExportReturns, RequestsAreServed and GypEnds.  The
proof system cannot reach liveness under fairness or ENABLED,
nor induction over data (its induction theorems take operators as parameters),
nor anything in a module with RECURSIVE operators; the modules proved about have
none.

## Findings

Six places where the code does not do what it, or its documentation, says are
in `PROJECT.json`, each with the run that shows it: spans of interleaved nginx
requests are parented below each other; "Reconnect if not
Okay" does not reconnect after a failed send; "packet got delivered" is
reported for a packet the collector cannot decode; the nginx handler around try_files
does not "stop the request using the same request handle" but writes through a
null pointer, since without a pool there is no response payload; and an Apache
location without a valid configuration does not use the "default context" but ends
the child, with a string made of a null pointer; and a dictionary of a build file
does "influence parents": a list that it refers to is expanded in place with its
variables, before the dictionary that holds the list comes to it.

Five more things the models show, in properties that say what does hold:

- `LeaksAreKnown`: the trace exporter's Connect leaves the socket open that it could not connect, and the
  next attempt overwrites socket_ (`src/exporters/fluentd/src/trace/fluentd_exporter.cc:211`): one descriptor is lost per
  failed connect.  The log exporter closes it and says why: "to avoid leaking file descriptors on
  failure".  Both lose those of connections they found broken.
- `EndedUnlessLost`: two more ways in which an nginx request is started and never
  ended: error_page and X-Accel-Redirect clear the handle, and a request may be started
  in, or move to, a location in which the agent is disabled, where
  stopMonitoringRequest returns at once.
- `ActionsAfterDependencies`: WriteRules of the ninja generator empties `prebuild`
  for a rule with many sources and inputs (`G/generator/ninja.py:671`) and does not put
  it back, so the next rule of the target waits for nothing.
- `LinkedOnly` and `Hollow`: without sources, a program or shared library is linked without waiting for its
  own actions (WriteLink of the ninja generator does not use what it was given to wait for), while the Target
  class says that the binary "depends on all prior steps"; under make and android a library without
  sources does not hand on what it depends on but does not link.
- `ExportsKept`: exports are compared with the dependencies before exclusion lists
  are applied, each to its own section; a dependency that was excluded and is still
  exported may come back before its place in the list; if it was pruned or never
  defined, Load ends in an exception.

## Not modelled

- Event MPM, forked processes after the initialisation, term: see ApacheModule.
  Neither web server calls the agent in these ways, or claims to keep a request on a thread.
- The placing of hooks (insertHooksForStage) and of wrapped handlers
  (ngx_http_opentelemetry_init) and the directives of both modules: they run once, in
  one thread, on the configuration, and say nothing about later steps.
- The Reactor of `socket_tools.h`: only the example servers and tests use it.
- `instrumentation/nginx` and `instrumentation/httpd`: one span per request in the
  server's request memory; their hazards are those of the two modules that are modelled.
- Geneva and Prometheus exporters: one bounded buffer or one socket used by
  one thread; their hazards are listed with their lines in `PROJECT.json`.
- user_events exporters, log sinks, recordables, agent configuration, span naming:
  conversions of one record or URL without state.
- The rest of gyp: see GypInput, BuildSteps and XcodeObjects.  Printing and encoding of
  project files, the emulation of the settings of Xcode and Visual Studio, and the helpers
  that ninja and make call while they build map one value to another in one
  thread; the dump generators print what was loaded.
