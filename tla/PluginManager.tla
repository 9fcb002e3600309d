--------------------------- MODULE PluginManager ---------------------------
(* The PluginManager and what it manages: the libraries dlopen has mapped and *)
(* how often, the state each plugin keeps in its own globals, the tools the   *)
(* plugins registered, the list plugins_.  An operation holds the manager's   *)
(* mutex from begin to end, so there is one `job`; the calls of the pool do   *)
(* not take that mutex and interleave with its steps.                         *)
(*                                                                            *)
(* A library is what a file holds: the step at which it fails ("open" stands  *)
(* for dlopen and for a missing symbol), the tools it registers, in order,    *)
(* and whether it exports mcp_plugin_shutdown.  dlopen is the C library's: a  *)
(* path that is mapped gets the same image again, whatever its file holds by  *)
(* now, and the last dlclose unmaps it.  Files change between operations.     *)
EXTENDS ToolManager, Sequences, FiniteSets

CONSTANTS
  Files,      \* the .so files of the plugin directory
  Sorted,     \* the scan's std::sort: any set of them in the order of their names
  Libraries,  \* what such a file may hold
  Builtins,   \* the names of the tools the server registers itself
  Server      \* their owner

Stages == {"open", "abi", "init", "register", "never"}

ASSUME LibrariesAreRecords ==
  Libraries \subseteq [fails: Stages, tools: Seq(Names), stops: BOOLEAN]
ASSUME SortedListsAll ==
  \A present \in SUBSET Files:
    Sorted[present] \in Seq(Files) /\ Range(Sorted[present]) = present
ASSUME OwnersAreFilesAndServer == Owners = Files \cup {Server}
ASSUME ServerIsNoFile == Server \notin Files
ASSUME BuiltinsAreNames == Builtins \subseteq Names

VARIABLES
  disk,     \* what the files hold, of those that are there
  image,    \* the mapped libraries: contents, handles and whether initialised
  plugins,  \* plugins_
  job,      \* the operation that holds the mutex
  life      \* how far main() is

vars == <<tools, calls, disk, image, plugins, job, life>>

Validating == {"validate", "trial", "passed", "rejected"}
Loading == {"load", "init", "register", "failed"}
Phases == Validating \cup {"idle", "unload", "unregister"} \cup Loading
Lives == {"starting", "serving", "exiting", "gone"}

Job(phase, todo, victims, entries) ==
  [phase |-> phase, todo |-> todo, victims |-> victims, entries |-> entries,
   names |-> <<>>]

\* What remains of an operation: entries to validate, plugins to unload,
\* entries to load.
Remaining(todo, victims, entries) ==
  Job(CASE todo # <<>> -> "validate"
        [] todo = <<>> /\ victims # <<>> -> "unload"
        [] todo = <<>> /\ victims = <<>> /\ entries # <<>> -> "load"
        [] OTHER -> "idle",
      todo, victims, entries)

Idle == Remaining(<<>>, <<>>, <<>>)
MutexFree == job.phase = "idle"

Init ==
  /\ tools = [n \in Builtins |-> Server]
  /\ calls = <<>>
  /\ \E present \in SUBSET Files: disk \in [present -> Libraries]
  /\ image = <<>>
  /\ plugins = <<>>
  /\ job = Idle
  /\ life = "starting"

Scan == Sorted[DOMAIN disk]
LoadedPaths == [i \in DOMAIN plugins |-> plugins[i].path]

\* The handles that plugins_ keeps on a library.
Kept(p) == Cardinality({i \in DOMAIN plugins: plugins[i].path = p})

(* dlopen, dlclose and the plugin's own functions *)

CanOpen(p) ==
  \/ p \in DOMAIN image
  \/ p \in DOMAIN disk /\ disk[p].fails # "open"

DlOpen(p) ==
  image' = IF p \in DOMAIN image THEN [image EXCEPT ![p].handles = @ + 1]
           ELSE With(image, p, [lib |-> disk[p], handles |-> 1, live |-> FALSE])

\* The calls that run a library's code lose these parts of it.
Taken(p, parts) == Losing(parts, {c \in DOMAIN calls: calls[c].owner = p})
State(p) == IF image[p].live THEN {"state"} ELSE {}
Code(p) == IF image[p].handles = 1 THEN {"code"} ELSE {}

\* mcp_plugin_register replaces the plugin's state, mcp_plugin_shutdown, where
\* there is one, deletes it: a call that is using it loses it either way.
Renewed(p) ==
  /\ image' = [image EXCEPT ![p].live = TRUE]
  /\ calls' = Taken(p, State(p))

Stopped(p) == [image EXCEPT ![p].live = @ /\ ~image[p].lib.stops]
Shutdown(p) ==
  /\ image' = Stopped(p)
  /\ calls' = Taken(p, IF image[p].lib.stops THEN State(p) ELSE {})

\* A register that fails has replaced the state when shutdown is called.
RenewedAndShutdown(p) ==
  /\ image' = [image EXCEPT ![p].live = ~image[p].lib.stops]
  /\ calls' = Taken(p, State(p))

Closed(img, p) ==
  IF img[p].handles = 1 THEN Restrict(img, DOMAIN img \ {p})
  ELSE [img EXCEPT ![p].handles = @ - 1]

DlClose(p) == image' = Closed(image, p) /\ calls' = Taken(p, Code(p))

ShutdownAndClose(p) ==
  /\ image' = Closed(Stopped(p), p)
  /\ calls' = Taken(p, Code(p) \cup IF image[p].lib.stops THEN State(p) ELSE {})

(* The operations *)

LoadFromDirectory ==
  /\ MutexFree
  /\ life \in {"starting", "serving"}
  /\ life' = "serving"
  /\ job' = Remaining(<<>>, <<>>, Scan)
  /\ UNCHANGED <<tools, calls, disk, image, plugins>>

\* plugins/reload, in a task of the pool: also one the pool runs at exit
ReloadFromDirectory ==
  /\ MutexFree
  /\ life \in {"serving", "exiting"}
  /\ job' = Remaining(Scan, LoadedPaths, Scan)
  /\ UNCHANGED <<tools, calls, disk, image, plugins, life>>

ReloadPlugin(p) ==
  /\ MutexFree
  /\ life = "serving"
  /\ job' = Remaining(<<p>>, IF p \in Range(LoadedPaths) THEN <<p>> ELSE <<>>, <<p>>)
  /\ UNCHANGED <<tools, calls, disk, image, plugins, life>>

\* main() unloads the plugins while the pool still runs what is queued.
UnloadAll ==
  /\ MutexFree
  /\ life = "serving"
  /\ life' = "exiting"
  /\ job' = Remaining(<<>>, LoadedPaths, <<>>)
  /\ UNCHANGED <<tools, calls, disk, image, plugins>>

(* validatePlugin: the plugin is activated on a ToolManager of its own, then  *)
(* shut down and closed, whatever came of it                                  *)

Validated == Head(job.todo)
Abort == job' = Idle
To(phase) == job' = [job EXCEPT !.phase = phase]

ValidateOpen ==
  /\ job.phase = "validate"
  /\ CanOpen(Validated)
  /\ DlOpen(Validated)
  /\ To("trial")
  /\ UNCHANGED <<tools, calls, disk, plugins, life>>

ValidateCannotOpen ==
  /\ job.phase = "validate"
  /\ ~CanOpen(Validated)
  /\ Abort
  /\ UNCHANGED <<tools, calls, disk, image, plugins, life>>

\* activatePlugin: nothing runs after a wrong ABI version or a failed init; a
\* plugin whose register fails is shut down.
ActivateOnTrial ==
  /\ job.phase = "trial"
  /\ LET p == Validated
         fails == image[p].lib.fails
     IN /\ CASE fails \in {"abi", "init"} -> UNCHANGED <<image, calls>>
            [] fails = "register" -> RenewedAndShutdown(p)
            [] OTHER -> Renewed(p)
        /\ To(IF fails = "never" THEN "passed" ELSE "rejected")
  /\ UNCHANGED <<tools, disk, plugins, life>>

ValidateCloseLeaks ==   \* mutant: a handle that passed is not closed
  /\ job.phase \in {"passed", "rejected"}
  /\ IF job.phase = "passed"
     THEN /\ Shutdown(Validated)
          /\ job' = Remaining(Tail(job.todo), job.victims, job.entries)
     ELSE ShutdownAndClose(Validated) /\ Abort
  /\ UNCHANGED <<tools, disk, plugins, life>>

ValidateCloseTwice ==   \* mutant: activatePlugin has closed it already
  /\ job.phase \in {"passed", "rejected"}
  /\ image' = Restrict(image, DOMAIN image \ {Validated})
  /\ calls' = Taken(Validated, {"state", "code"})
  /\ Abort
  /\ UNCHANGED <<tools, disk, plugins, life>>

ValidateClose ==
  /\ job.phase \in {"passed", "rejected"}
  /\ ShutdownAndClose(Validated)
  /\ IF job.phase = "passed"
     THEN job' = Remaining(Tail(job.todo), job.victims, job.entries)
     ELSE Abort
  /\ UNCHANGED <<tools, disk, plugins, life>>

(* unloadPlugin *)

Victim == Head(job.victims)
Position(p) == CHOOSE i \in DOMAIN plugins: plugins[i].path = p
ToolsOf(p) == plugins[Position(p)].names

\* plugins_.erase: what is behind it moves up.
Without(p) ==
  [i \in 1 .. Len(plugins) - 1 |->
     IF i < Position(p) THEN plugins[i] ELSE plugins[i + 1]]

UnloadShutdown ==
  /\ job.phase = "unload"
  /\ Shutdown(Victim)
  /\ job' = [job EXCEPT !.phase = "unregister", !.names = ToolsOf(Victim)]
  /\ UNCHANGED <<tools, disk, plugins, life>>

UnloadUnregister ==
  /\ job.phase = "unregister"
  /\ job.names # <<>>
  /\ UnregisterTool(Head(job.names))
  /\ job' = [job EXCEPT !.names = Tail(@)]
  /\ UNCHANGED <<disk, image, plugins, life>>

UnloadCloseAtOnce ==   \* mutant: the tools are not unregistered
  /\ job.phase = "unregister"
  /\ DlClose(Victim)
  /\ plugins' = Without(Victim)
  /\ job' = Remaining(<<>>, Tail(job.victims), job.entries)
  /\ UNCHANGED <<tools, disk, life>>

\* plugins_ is cleared after the last one; nobody looks while the mutex is held.
UnloadClose ==
  /\ job.phase = "unregister"
  /\ job.names = <<>>
  /\ DlClose(Victim)
  /\ plugins' = Without(Victim)
  /\ job' = Remaining(<<>>, Tail(job.victims), job.entries)
  /\ UNCHANGED <<tools, disk, life>>

(* loadPlugin *)

Entry == Head(job.entries)
NextEntry == job' = Remaining(<<>>, <<>>, Tail(job.entries))

LoadSkipped ==
  /\ job.phase = "load"
  /\ Entry \in Range(LoadedPaths) \/ ~CanOpen(Entry)
  /\ NextEntry
  /\ UNCHANGED <<tools, calls, disk, image, plugins, life>>

LoadOpen ==
  /\ job.phase = "load"
  /\ Entry \notin Range(LoadedPaths)
  /\ CanOpen(Entry)
  /\ DlOpen(Entry)
  /\ To("init")
  /\ UNCHANGED <<tools, calls, disk, plugins, life>>

LoadInit ==
  /\ job.phase = "init"
  /\ IF image[Entry].lib.fails \in {"abi", "init"}
     THEN To("failed") /\ UNCHANGED <<image, calls>>
     ELSE To("register") /\ Renewed(Entry)
  /\ UNCHANGED <<tools, disk, plugins, life>>

\* hostRegisterTool, called by the plugin, which gives up if it is refused
Wanted == image[Entry].lib.tools[Len(job.names) + 1]
AllRegistered == Len(job.names) = Len(image[Entry].lib.tools)

HostRegisterPath ==   \* mutant: the plugin's path is recorded, not the name
  /\ job.phase = "register"
  /\ ~AllRegistered
  /\ RegisterTool(Wanted, Entry)
  /\ job' = [job EXCEPT !.names = Append(@, Entry)]
  /\ UNCHANGED <<calls, disk, image, plugins, life>>

HostRegisterTool ==
  /\ job.phase = "register"
  /\ ~AllRegistered
  /\ RegisterTool(Wanted, Entry)
  /\ job' = [job EXCEPT !.names = Append(@, Wanted)]
  /\ UNCHANGED <<calls, disk, image, plugins, life>>

RegisterFails ==
  /\ job.phase = "register"
  /\ IF AllRegistered THEN image[Entry].lib.fails = "register"
     ELSE Registered(Wanted)
  /\ Shutdown(Entry)
  /\ To("failed")
  /\ UNCHANGED <<tools, disk, plugins, life>>

LoadDoneNameless ==   \* mutant: the names are lost with host_state
  /\ job.phase = "register"
  /\ AllRegistered
  /\ image[Entry].lib.fails = "never"
  /\ plugins' = Append(plugins, [path |-> Entry, names |-> <<>>])
  /\ NextEntry
  /\ UNCHANGED <<tools, calls, disk, image, life>>

LoadDone ==
  /\ job.phase = "register"
  /\ AllRegistered
  /\ image[Entry].lib.fails = "never"
  /\ plugins' = Append(plugins, [path |-> Entry, names |-> job.names])
  /\ NextEntry
  /\ UNCHANGED <<tools, calls, disk, image, life>>

LoadFailedOpen ==   \* mutant: the plugin is shut down, its handle kept
  /\ job.phase = "failed"
  /\ Shutdown(Entry)
  /\ NextEntry
  /\ UNCHANGED <<tools, disk, plugins, life>>

\* The names it did register are forgotten with the LoadedPlugin.
LoadFailed ==
  /\ job.phase = "failed"
  /\ ShutdownAndClose(Entry)
  /\ NextEntry
  /\ UNCHANGED <<tools, disk, plugins, life>>

(* The rest of the process *)

\* The pool has stopped; the ToolManager goes, then the PluginManager, which
\* shuts down and closes what a late reload left loaded.
Destroy ==
  /\ MutexFree
  /\ life = "exiting"
  /\ calls = <<>>
  /\ life' = "gone"
  /\ tools' = <<>>
  /\ image' = [p \in {q \in DOMAIN image: image[q].handles > Kept(q)} |->
                 [image[p] EXCEPT !.handles = @ - Kept(p)]]
  /\ plugins' = <<>>
  /\ UNCHANGED <<calls, disk, job>>

\* Somebody installs, replaces or removes a plugin file.
Install(p) ==
  /\ MutexFree
  /\ life = "serving"
  /\ \/ \E lib \in Libraries: disk' = With(disk, p, lib)
     \/ p \in DOMAIN disk /\ disk' = Restrict(disk, DOMAIN disk \ {p})
  /\ UNCHANGED <<tools, calls, image, plugins, job, life>>

Calling ==
  /\ life \in {"serving", "exiting"}
  /\ \E c \in Callers: (\E n \in Names: CallTool(c, n)) \/ CallReturns(c)
  /\ UNCHANGED <<disk, image, plugins, job, life>>

Gone == life = "gone" /\ UNCHANGED vars

Operation ==
  \/ LoadFromDirectory \/ ReloadFromDirectory \/ UnloadAll
  \/ \E p \in Files: ReloadPlugin(p)
Validate ==
  ValidateOpen \/ ValidateCannotOpen \/ ActivateOnTrial \/ ValidateClose
Unload == UnloadShutdown \/ UnloadUnregister \/ UnloadClose
Load ==
  \/ LoadSkipped \/ LoadOpen \/ LoadInit
  \/ HostRegisterTool \/ RegisterFails \/ LoadDone \/ LoadFailed

Next ==
  \/ Operation \/ Validate \/ Unload \/ Load
  \/ Destroy \/ Calling \/ Gone
  \/ \E p \in Files: Install(p)

Spec == Init /\ [][Next]_vars

(* What should hold *)

TypeOK ==
  /\ ToolManagerTypeOK
  /\ DOMAIN disk \subseteq Files
  /\ \A p \in DOMAIN disk: disk[p] \in Libraries
  /\ DOMAIN image \subseteq Files
  /\ \A p \in DOMAIN image:
       image[p] \in [lib: Libraries, handles: Nat \ {0}, live: BOOLEAN]
  /\ plugins \in Seq([path: Files, names: Seq(Names)])
  /\ job \in [phase: Phases, todo: Seq(Files), victims: Seq(Files),
             entries: Seq(Files), names: Seq(Names)]
  /\ life \in Lives

\* Every handle dlopen gave out is either kept in plugins_, by a plugin with a
\* path of its own, or in the hands of the validation or the load under way:
\* no failure path leaks one or closes one twice.
HandedOut(p) ==
  \/ job.phase \in Validating \ {"validate"} /\ p = Validated
  \/ job.phase \in Loading \ {"load"} /\ p = Entry
HandlesBalanced ==
  \A p \in Files:
    /\ Kept(p) \leq 1
    /\ (IF p \in DOMAIN image THEN image[p].handles ELSE 0)
         = Kept(p) + (IF HandedOut(p) THEN 1 ELSE 0)

\* docs: no library is closed before its tools are destroyed, or their
\* destructors are gone.  Whenever a caller looks, then, a tool it can find has
\* its code mapped.
UnregisteredBeforeClosed ==
  \A n \in DOMAIN tools: tools[n] = Server \/ tools[n] \in DOMAIN image

\* What the plugins of this repository do: one tool at most, and no failure
\* once it is registered.
OneToolEach ==
  \A lib \in Libraries:
    Len(lib.tools) <= 1 /\ (lib.fails = "register" => lib.tools = <<>>)

\* With such libraries that holds through every load, reload, unload and abort:
\* dlopen precedes the registration, unregisterTool the dlclose, and a load that
\* fails has registered nothing.  With others it does not (LoadFailed).
RegisteredIsMapped == OneToolEach => UnregisteredBeforeClosed

\* No plugin can take the name of a tool of the server, whether by registering
\* it or by having the name unregistered with its own.
BuiltinsStay ==
  life # "gone" => \A n \in Builtins: Registered(n) /\ tools[n] = Server

\* Between operations the tools of plugins are exactly those that the loaded
\* plugins recorded, each found under its name: again for libraries of one tool
\* at most, as the tools of a load that fails later are recorded nowhere.
LoadedServesItsTools ==
  OneToolEach /\ MutexFree =>
    \A p \in Files:
      {n \in DOMAIN tools: tools[n] = p} =
        UNION {Range(plugins[i].names):
                 i \in {j \in DOMAIN plugins: plugins[j].path = p}}

\* What loadPlugin activates is what the file holds now, though dlopen returns
\* the old image of any path that is still mapped: the unload before it, and
\* the validation before that, have left no handle.
LoadsTheFile ==
  [][job.phase = "load" /\ job'.phase = "init"
       => image'[Entry].lib = disk[Entry]]_vars

\* callTool executes through a raw pointer while others destroy the tool and
\* unmap its code.  A call whose code goes has lost its tool before: neither an
\* unload nor a validation that closes its handle unmaps what a Tool still needs
\* for its destructor (libraries as above).
CodeGoesLast ==
  OneToolEach =>
    \A c \in DOMAIN calls: "code" \in calls[c].lost => "tool" \in calls[c].lost

\* docs: a reload whose validation fails keeps the plugins that are loaded.
\* Between operations, then, each loaded plugin with tools has the state they
\* work on.
LoadedPluginsAreLive ==
  MutexFree =>
    \A i \in DOMAIN plugins:
      plugins[i].names # <<>> => image[plugins[i].path].live
=============================================================================
