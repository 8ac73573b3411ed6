----------------------------- MODULE PluginManager -----------------------------
(***************************************************************************)
(* Plugins (include/calc/plugin): the manager that sorts registered        *)
(* plugins by phase and dependency and runs their lifecycle hooks, the     *)
(* contexts in which they leave functions and an API, and the loader that  *)
(* maps their libraries and unmaps them.                                   *)
(*                                                                         *)
(* A library is mapped while it has handles; each new mapping has a new    *)
(* generation, and a plugin pointer is good only in the generation it was  *)
(* obtained in.  The hooks run one step at a time, in the order of the     *)
(* loops of the manager; calling one through a bad pointer is undefined    *)
(* behaviour, where the model stops (fault).  The names of unmapped        *)
(* plugins, which the manager also reads through old pointers, are taken   *)
(* to be readable still.                                                   *)
(***************************************************************************)
EXTENDS Integers, SequencesExt, FiniteSets

CONSTANTS
  Libs,        (* plugins: in files, or linked into the program            *)
  Files,       (* those that PluginLoader maps                             *)
  Names,       (* plugin identifiers                                       *)
  Functions,   (* names of custom functions                                *)
  Phases,      (* the number of load phases, LoadPhase::COUNT = 3          *)
  Manifests,   (* the possible descriptions of all plugins                 *)
  MaxPlugins,  (* template parameter of manager and loader                 *)
  MaxDeps,     (* dependencies kept of one plugin, 8 in the code           *)
  MaxFuncs     (* functions of one context, 8 in the code                  *)

(* What a plugin says of itself, its dependencies in the order in which it *)
(* gives them, and what its hooks leave in its context.                    *)
Description == [name : Names, phase : 0 .. Phases - 1, deps : Seq(Names),
                exports : BOOLEAN, gives : Seq(Functions)]

ASSUME PluginAssumption ==
  /\ Files \subseteq Libs
  /\ MaxPlugins \in Nat /\ MaxFuncs \in Nat /\ MaxDeps \in Nat /\ Phases \in Nat
  /\ \A m \in Manifests : m \in [Libs -> Description]

VARIABLES
  manifest,   (* the description of every plugin; never changes            *)
  plugins,    (* m_metadata: registered plugins, in order                  *)
  contexts,   (* m_contexts: functions and whether an API is exported      *)
  sorted,     (* m_sorted_order                                            *)
  resolved,   (* m_resolved                                                *)
  handles,    (* the loader's handles                                      *)
  maps,       (* the mapping of each library: generation and handle count  *)
  task,       (* the loop the manager is in, and how far                   *)
  stage,      (* of every registration: the last hook its plugin ran       *)
  fault       (* a hook was called in unmapped memory                      *)

vars == <<manifest, plugins, contexts, sorted, resolved, handles, maps, task,
          stage, fault>>

Indices == DOMAIN plugins

Of(i) == manifest[plugins[i].lib]

Idle == [op |-> "none", left |-> <<>>]

-------------------------------------------------------------------------------
(* Mapped libraries and good pointers.  What is linked into the program is *)
(* always there.                                                           *)

Mapped(l) == l \notin Files \/ maps[l].count > 0

Good(i) == Mapped(plugins[i].lib) /\ plugins[i].gen = maps[plugins[i].lib].gen

-------------------------------------------------------------------------------
(* ResolveAndSort.                                                         *)

(* FindPluginIndex: the first plugin of that name. *)
Find(n) == {i \in Indices : Of(i).name = n /\ \A j \in 1 .. i - 1 : Of(j).name # n}

(* Registration keeps the first MaxDeps dependencies and drops the others  *)
(* without a word.                                                         *)
Kept(i) ==
  {Of(i).deps[x] : x \in {y \in DOMAIN Of(i).deps : y <= MaxDeps}}

Resolvable == \A i \in Indices : \A n \in Kept(i) : Find(n) # {}

(* The dependency mask of a plugin. *)
Deps(i) == UNION {Find(n) : n \in Kept(i)}

(* The loop over the indices that appends the ready ones in turn.          *)
Appended(order, ready) ==
  LET after[n \in 0 .. Len(plugins)] ==
        IF n = 0 THEN order
        ELSE IF n \in ready THEN Append(after[n - 1], n) ELSE after[n - 1]
  IN  after[Len(plugins)]

(* Mutant: a dependency counts as loaded when it is in the same pass. *)
MutPass(order, p) ==
  LET waiting == {i \in Indices : Of(i).phase = p /\ i \notin ToSet(order)}
      ready   == {i \in waiting : Deps(i) \subseteq ToSet(order) \cup waiting}
  IN  Appended(order, ready)

(* One pass over a phase: every plugin still waiting whose dependencies    *)
(* were loaded by earlier passes.                                          *)
Pass(order, p) ==
  LET waiting == {i \in Indices : Of(i).phase = p /\ i \notin ToSet(order)}
      ready   == {i \in waiting : Deps(i) \subseteq ToSet(order)}
  IN  Appended(order, ready)

(* Passes until one makes no progress: more than there are plugins make none. *)
Passes(order, p) ==
  LET after[n \in 0 .. Len(plugins)] ==
        IF n = 0 THEN order ELSE Pass(after[n - 1], p)
  IN  after[Len(plugins)]

PhaseDone(order, p) == \A i \in Indices : Of(i).phase = p => i \in ToSet(order)

(* Mutant: one pass for each phase. *)
MutSortPhase(acc, p) ==
  LET order == Pass(acc.order, p)
  IN  IF acc.ok THEN [order |-> order, ok |-> PhaseDone(order, p)] ELSE acc

(* A phase that stops making progress ends the sort; no plugin of a later  *)
(* phase is then considered.                                               *)
SortPhase(acc, p) ==
  LET order == Passes(acc.order, p)
  IN  IF acc.ok THEN [order |-> order, ok |-> PhaseDone(order, p)] ELSE acc

Sort ==
  LET after[p \in 0 .. Phases] ==
        IF p = 0 THEN [order |-> <<>>, ok |-> TRUE] ELSE SortPhase(after[p - 1], p - 1)
  IN  after[Phases]

(* A failed sort has overwritten the front of the previous order. *)
Sorting ==
  IF Resolvable
  THEN /\ resolved' = (resolved \/ Sort.ok)
       /\ sorted' = Sort.order \o SubSeq(sorted, Len(Sort.order) + 1, Len(sorted))
  ELSE UNCHANGED <<resolved, sorted>>

ResolveAndSort ==
  /\ task = Idle
  /\ Sorting
  /\ UNCHANGED <<manifest, plugins, contexts, handles, maps, task, stage, fault>>

-------------------------------------------------------------------------------
(* Registration and loading.                                               *)

(* Mutant: registering keeps the old order. *)
MutRegistered(l, gen) ==
  /\ plugins' = Append(plugins, [lib |-> l, gen |-> gen])
  /\ contexts' = Append(contexts, [funcs |-> <<>>, api |-> FALSE])
  /\ stage' = Append(stage, "registered")
  /\ UNCHANGED resolved

Registered(l, gen) ==
  /\ plugins' = Append(plugins, [lib |-> l, gen |-> gen])
  /\ contexts' = Append(contexts, [funcs |-> <<>>, api |-> FALSE])
  /\ stage' = Append(stage, "registered")
  /\ resolved' = FALSE

RegisterPlugin(l) ==
  /\ task = Idle
  /\ l \notin Files
  /\ Len(plugins) < MaxPlugins
  /\ Registered(l, 0)
  /\ UNCHANGED <<manifest, sorted, handles, maps, task, fault>>

(* A file that cannot be mapped, that has no entry point, or that finds    *)
(* the loader or the manager full leaves everything as it was.             *)
LoadPluginFile(l) ==
  LET gen == IF maps[l].count = 0 THEN maps[l].gen + 1 ELSE maps[l].gen
  IN  /\ task = Idle
      /\ l \in Files
      /\ Len(handles) < MaxPlugins
      /\ Len(plugins) < MaxPlugins
      /\ maps' = [maps EXCEPT ![l] = [gen |-> gen, count |-> @.count + 1]]
      /\ handles' = Append(handles, l)
      /\ Registered(l, gen)
      /\ UNCHANGED <<manifest, sorted, task, fault>>

-------------------------------------------------------------------------------
(* The lifecycle.  A call starts a loop over the sorted order; each step   *)
(* runs one hook.                                                          *)

(* InitializePlugins and LoadPlugins resolve first if they must. *)
Start(op) ==
  /\ task = Idle
  /\ IF resolved THEN UNCHANGED <<resolved, sorted>> ELSE Sorting
  /\ task' = IF resolved' THEN [op |-> op, left |-> sorted'] ELSE Idle
  /\ UNCHANGED <<manifest, plugins, contexts, handles, maps, stage, fault>>

InitializePlugins == Start("init")

LoadPlugins == Start("load")

(* Mutant: plugins are shut down in the order in which they were started. *)
MutTeardown(op) == [op |-> op, left |-> sorted]

(* The reverse order; nothing at all when the order is not resolved. *)
Teardown(op) == [op |-> op, left |-> IF resolved THEN Reverse(sorted) ELSE <<>>]

ShutdownPlugins ==
  /\ task = Idle
  /\ task' = Teardown("shutdown")
  /\ UNCHANGED <<manifest, plugins, contexts, sorted, resolved, handles, maps, stage, fault>>

UnloadAll ==
  /\ task = Idle
  /\ handles # <<>>
  /\ task' = Teardown("unload")
  /\ UNCHANGED <<manifest, plugins, contexts, sorted, resolved, handles, maps, stage, fault>>

(* What the hook of plugin i leaves in its context.  The functions beyond  *)
(* the table are refused.                                                  *)
AfterInit(c, i) ==
  [funcs |-> LET all == c.funcs \o Of(i).gives
             IN  SubSeq(all, 1, IF Len(all) < MaxFuncs THEN Len(all) ELSE MaxFuncs),
   api   |-> c.api \/ Of(i).exports]

Reset == [funcs |-> <<>>, api |-> FALSE]

Then(op) == CASE op = "init" -> "inited" [] op = "load" -> "loaded" [] OTHER -> "down"

Hook ==
  LET i == Head(task.left)
  IN  /\ task.left # <<>>
      /\ ~fault
      /\ IF Good(i)
         THEN /\ stage' = [stage EXCEPT ![i] = Then(task.op)]
              /\ contexts' = [contexts EXCEPT ![i] =
                                CASE task.op = "init" -> AfterInit(@, i)
                                  [] task.op = "load" -> @
                                  [] OTHER -> Reset]
              /\ UNCHANGED fault
         ELSE /\ fault' = TRUE
              /\ UNCHANGED <<stage, contexts>>
      /\ task' = [task EXCEPT !.left = Tail(@)]
      /\ UNCHANGED <<manifest, plugins, sorted, resolved, handles, maps>>

Finish ==
  /\ task # Idle /\ task.op # "unload"
  /\ task.left = <<>>
  /\ ~fault
  /\ task' = Idle
  /\ UNCHANGED <<manifest, plugins, contexts, sorted, resolved, handles, maps, stage, fault>>

Held(l) == Cardinality({h \in DOMAIN handles : handles[h] = l})

(* UnloadAll is behind its shutdown, whatever that has done. *)
Unmapping == task.op = "unload" /\ task.left = <<>> /\ ~fault

(* The end of UnloadAll.  The manager keeps what it knows of the plugins.  *)
FreeLibraries ==
  /\ Unmapping
  /\ maps' = [l \in Libs |-> [maps[l] EXCEPT !.count = @ - Held(l)]]
  /\ handles' = <<>>
  /\ task' = Idle
  /\ UNCHANGED <<manifest, plugins, contexts, sorted, resolved, stage, fault>>

-------------------------------------------------------------------------------
Init ==
  /\ manifest \in Manifests
  /\ plugins = <<>> /\ contexts = <<>> /\ stage = <<>>
  /\ sorted = <<>> /\ resolved = FALSE
  /\ handles = <<>>
  /\ maps = [l \in Libs |-> [gen |-> 0, count |-> 0]]
  /\ task = Idle
  /\ fault = FALSE

Next ==
  \/ \E l \in Libs : RegisterPlugin(l) \/ LoadPluginFile(l)
  \/ ResolveAndSort
  \/ InitializePlugins \/ LoadPlugins \/ ShutdownPlugins \/ UnloadAll
  \/ Hook \/ Finish \/ FreeLibraries

Spec == Init /\ [][Next]_vars

-------------------------------------------------------------------------------
(* An order the documentation promises: every plugin once, phases in turn, *)
(* the dependencies kept of each first.                                    *)
ValidOrder(order) ==
  /\ Len(order) = Len(plugins) /\ ToSet(order) = Indices
  /\ \A x, y \in DOMAIN order :
       x < y => Of(order[x]).phase <= Of(order[y]).phase
  /\ \A y \in DOMAIN order : \A d \in Deps(order[y]) :
       \E x \in 1 .. y - 1 : order[x] = d

(* Whenever the manager believes its order is current, it is a valid one   *)
(* for all plugins registered by then; and the sort succeeds whenever there *)
(* is a valid order at all, so it fails only for a name nobody has, a      *)
(* cycle, or a dependency on a later phase.  Of the dependencies beyond    *)
(* MaxDeps, which are dropped, it says nothing (PluginManager.hpp:53-57,   *)
(* 66-118, 122, 135, 148).                                                 *)
SortIsRight ==
  /\ resolved => ValidOrder(sorted)
  /\ Resolvable => (Sort.ok <=> \E order \in SetToSeqs(Indices) : ValidOrder(order))

(* GetPluginAPI, and RequireAPI of every context. *)
HasAPI(n) == \E i \in Find(n) : contexts[i].api

(* Initialised or loaded, and not shut down since. *)
Started(i) == stage[i] \in {"inited", "loaded"}

(* A plugin is up while its library is there as well.  One that UnloadAll  *)
(* unmapped without running its OnShutdown is abandoned.                   *)
Up(i) == Started(i) /\ Good(i)

Abandoned(i) == Started(i) /\ ~Good(i)

(* No plugin is ever up while one it depends on was never started or has   *)
(* been shut down: not between two hooks of a loop, not after any sequence *)
(* of registrations, restarts and shutdowns.  The one thing that takes a   *)
(* dependency away from a plugin that is up is an UnloadAll whose shutdown *)
(* did nothing, and that happens only when the newest plugin was           *)
(* registered since the order was made: otherwise nothing is up any more   *)
(* when the libraries are unmapped (PluginManager.hpp:121-158,             *)
(* PluginLoader.hpp:97-108).                                               *)
DependenciesUp ==
  /\ \A i \in Indices : Up(i) => \A d \in Deps(i) : Up(d) \/ Abandoned(d)
  /\ Unmapping /\ (\E i \in Indices : Up(i)) => Last(stage) = "registered"

(* A plugin that has been initialised finds, in memory that is mapped, the *)
(* API of each of its dependencies that exports one, unless that one is    *)
(* abandoned: then what it finds is dangling (PluginContext.hpp:79,        *)
(* PluginManager.hpp:177-180, PluginLoader.hpp:97-108).                    *)
InitedFindsAPIs ==
  \A i \in Indices : stage[i] = "inited" /\ Good(i) =>
    \A d \in Deps(i) : Of(d).exports => Abandoned(d) \/ (HasAPI(Of(d).name) /\ Good(d))

(* "Safe double-unload guards prevent dangling pointer access violations   *)
(* when unmapping DLL libraries" (README.md:141): no hook is called in     *)
(* unmapped memory.                                                        *)
NoDanglingCall == ~fault
===============================================================================
