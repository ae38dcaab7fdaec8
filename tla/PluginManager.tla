--------------------------- MODULE PluginManager ----------------------------
(***************************************************************************)
(* src/src/plugin_manager.c and its part in start(): the directories of    *)
(* plugins are read, from the last to the first, the devices found are     *)
(* attached, and at the end of the session all is freed.                   *)
(*                                                                         *)
(*   open -> read -> init -> read -> open ... -> attach -> session -> free *)
(*                                                                         *)
(* The map of plugins by name changes as KeyedSet says.  What is on the    *)
(* disk, the order in which readdir gives it and whether a call that       *)
(* succeeds leaves errno set are open.                                     *)
(***************************************************************************)
EXTENDS Integers

CONSTANTS
  Name,         \* base names of files
  NumPaths      \* of dir_paths: the install directory, and one in HOME if it is set

ASSUME PluginManagerAssumption == NumPaths \subseteq Nat \ {0}

VARIABLES
  num_paths,
  absent,       \* directories that cannot be opened
  on_disk,      \* what each directory has under each name
  i,            \* as in pm_load_device_plugins
  stage,
  unread,       \* names readdir has not given yet
  loading,      \* the file whose library is open and not initialised
  errno,        \* whether it is not 0
  plugins,      \* from names to files
  handles,      \* libraries open
  live,         \* devices initialised and not freed
  offered,      \* plugins the iterator has given to attach_devices
  on_bus,       \* devices the bus may call
  reports,      \* what on_load_plugin_error was told
  seen,         \* history: the files readdir gave
  cut_short     \* history: directories where readdir failed

disk == <<num_paths, absent, on_disk>>
history == <<seen, cut_short>>
vars == <<disk, i, stage, unread, loading, errno, plugins, handles, live,
          offered, on_bus, reports, history>>

Dir == 1 .. num_paths
File == Dir \X Name
NoFile == <<0, 0>>
KindOf(file) == on_disk[file[1]][file[2]]

(* "other": passed over before stat, or a directory; "no_stat": stat fails;*)
(* "no_lib": dlopen does; "no_device": no init_device_plugin, or NULL.     *)
Kind == {"none", "other", "no_stat", "no_lib", "no_device", "plugin"}

Map == INSTANCE KeyedSet WITH content <- plugins

Init ==
  /\ num_paths \in NumPaths
  /\ on_disk \in [Dir -> [Name -> Kind]]
  /\ absent \in SUBSET {d \in Dir : \A name \in Name : on_disk[d][name] = "none"}
  /\ i = num_paths
  /\ stage = "open"
  /\ unread = {} /\ loading = NoFile /\ errno = FALSE
  /\ Map!Init
  /\ handles = {} /\ live = {} /\ offered = {} /\ on_bus = {}
  /\ reports = {}
  /\ seen = {} /\ cut_short = {}

Report(error, path) == reports' = reports \cup {<<error, path>>}

(* dlopen, and a plugin's init, may leave errno set when they succeed. *)
MaySetErrno == errno' \in {errno, TRUE}

-----------------------------------------------------------------------------
(* pm_load_device_plugins *)

(* Fault for TypeOK: the loop goes on at 0. *)
NextDirectoryPastEnd ==
  /\ i' = i - 1
  /\ stage' = IF i = 0 THEN "attach" ELSE "open"

NextDirectory ==
  /\ i' = i - 1
  /\ stage' = IF i = 1 THEN "attach" ELSE "open"

OpenDirFails ==
  /\ stage = "open" /\ i \in absent
  /\ Report("PM_ERROR_OPENDIR", i)
  /\ errno' = TRUE
  /\ NextDirectory
  /\ UNCHANGED <<disk, unread, loading, plugins, handles, live, offered, on_bus, history>>

OpenDir ==
  /\ stage = "open" /\ i \notin absent
  /\ errno' = FALSE
  /\ unread' = {name \in Name : on_disk[i][name] # "none"}
  /\ stage' = "read"
  /\ UNCHANGED <<disk, i, loading, plugins, handles, live, offered, on_bus, reports, history>>

(* readdir gives a name. *)
Reads(name) ==
  /\ stage = "read"
  /\ name \in unread
  /\ unread' = unread \ {name}
  /\ seen' = seen \cup {<<i, name>>}
  /\ UNCHANGED <<disk, i, plugins, live, offered, on_bus, cut_short>>

PassOver(name) ==
  /\ Reads(name)
  /\ KindOf(<<i, name>>) = "other"
  /\ UNCHANGED <<stage, loading, errno, handles, reports>>

StatFails(name) ==
  /\ Reads(name)
  /\ KindOf(<<i, name>>) = "no_stat"
  /\ Report("PM_ERROR_PLUGIN_LOAD", <<i, name>>)
  /\ errno' = TRUE
  /\ UNCHANGED <<stage, loading, handles>>

(* Fault for LastDirectoryWins: a name is looked up by its path. *)
IsLoadedFromHere(name) == name \in DOMAIN plugins /\ plugins[name][1] = i

IsLoaded(name) == name \in DOMAIN plugins

(* pm_load_plugin *)
AlreadyLoaded(name) ==
  /\ Reads(name)
  /\ KindOf(<<i, name>>) \in {"no_lib", "no_device", "plugin"}
  /\ IsLoaded(name)
  /\ UNCHANGED <<stage, loading, errno, handles, reports>>

DlopenFails(name) ==
  /\ Reads(name)
  /\ KindOf(<<i, name>>) = "no_lib"
  /\ ~ IsLoaded(name)
  /\ Report("PM_ERROR_PLUGIN_LOAD", <<i, name>>)
  /\ MaySetErrno
  /\ UNCHANGED <<stage, loading, handles>>

Dlopen(name) ==
  /\ Reads(name)
  /\ KindOf(<<i, name>>) \in {"no_device", "plugin"}
  /\ ~ IsLoaded(name)
  /\ handles' = handles \cup {<<i, name>>}
  /\ loading' = <<i, name>>
  /\ stage' = "init"
  /\ MaySetErrno
  /\ UNCHANGED reports

InitPlugin ==
  /\ stage = "init"
  /\ KindOf(loading) = "plugin"
  /\ live' = live \cup {loading}
  /\ Map!Set(loading[2], loading)
  /\ loading' = NoFile
  /\ stage' = "read"
  /\ MaySetErrno
  /\ UNCHANGED <<disk, i, unread, handles, offered, on_bus, reports, history>>

(* Fault for HandlesMatch: the library stays open. *)
InitPluginFailsOpen ==
  /\ stage = "init"
  /\ KindOf(loading) = "no_device"
  /\ Report("PM_ERROR_PLUGIN_LOAD", loading)
  /\ loading' = NoFile
  /\ stage' = "read"
  /\ MaySetErrno
  /\ UNCHANGED <<disk, i, unread, plugins, handles, live, offered, on_bus, history>>

InitPluginFails ==
  /\ stage = "init"
  /\ KindOf(loading) = "no_device"
  /\ Report("PM_ERROR_PLUGIN_LOAD", loading)
  /\ handles' = handles \ {loading}
  /\ loading' = NoFile
  /\ stage' = "read"
  /\ MaySetErrno
  /\ UNCHANGED <<disk, i, unread, plugins, live, offered, on_bus, history>>

(* Fault for FailuresReported: errno is not looked at. *)
ReportIfErrnoNever(error, path) == UNCHANGED reports

ReportIfErrno(error, path) == IF errno' THEN Report(error, path) ELSE UNCHANGED reports

(* readdir returned NULL: at the end, where errno stays as it was, or      *)
(* before, with errno set.                                                 *)
EndOfDirectory ==
  /\ stage = "read"
  /\ \/ unread = {} /\ UNCHANGED <<errno, cut_short>>
     \/ errno' = TRUE /\ cut_short' = cut_short \cup {i}
  /\ ReportIfErrno("PM_ERROR_OPENDIR", i)
  /\ unread' = {}
  /\ NextDirectory
  /\ UNCHANGED <<disk, loading, plugins, handles, live, offered, on_bus, seen>>

-----------------------------------------------------------------------------
(* attach_devices *)

Offer(name) ==
  /\ stage = "attach"
  /\ name \in DOMAIN plugins \ offered
  /\ offered' = offered \cup {name}
  /\ UNCHANGED <<disk, i, stage, unread, loading, errno, plugins, handles, live, history>>

Attach(name) ==
  /\ Offer(name)
  /\ on_bus' = on_bus \cup {plugins[name]}
  /\ UNCHANGED reports

(* A device refused at a later address stays attached at those before it.  *)
Refuse(name) ==
  /\ Offer(name)
  /\ on_bus' \in {on_bus, on_bus \cup {plugins[name]}}
  /\ Report("conflict", plugins[name])

BeginSession ==
  /\ stage = "attach" /\ offered = DOMAIN plugins
  /\ stage' = "session"
  /\ UNCHANGED <<disk, i, unread, loading, errno, plugins, handles, live,
                 offered, on_bus, reports, history>>

(* The session is over: simulator_free comes before pm_free. *)
FreeSimulator ==
  /\ stage = "session"
  /\ on_bus' = {}
  /\ stage' = "free"
  /\ UNCHANGED <<disk, i, unread, loading, errno, plugins, handles, live,
                 offered, reports, history>>

Freeing(name) ==
  /\ stage = "free"
  /\ name \in DOMAIN plugins
  /\ UNCHANGED <<disk, i, stage, unread, loading, errno, offered, on_bus, reports, history>>

(* pm_free_key, first the device, *)
FreeDevice(name) ==
  /\ Freeing(name)
  /\ plugins[name] \in live
  /\ live' = live \ {plugins[name]}
  /\ UNCHANGED <<plugins, handles>>

(* Fault for CallbacksHaveCode: the library is closed before the device is *)
(* freed.                                                                  *)
CloseLibraryFirst(name) ==
  /\ Freeing(name)
  /\ handles' = handles \ {plugins[name]}
  /\ UNCHANGED live
  /\ Map!Remove(name)

(* then its library, whose code freed it. *)
CloseLibrary(name) ==
  /\ Freeing(name)
  /\ plugins[name] \notin live
  /\ handles' = handles \ {plugins[name]}
  /\ UNCHANGED live
  /\ Map!Remove(name)

Next ==
  \/ OpenDirFails \/ OpenDir
  \/ \E name \in Name :
       \/ PassOver(name) \/ StatFails(name)
       \/ AlreadyLoaded(name) \/ DlopenFails(name) \/ Dlopen(name)
  \/ InitPlugin \/ InitPluginFails
  \/ EndOfDirectory
  \/ \E name \in Name : Attach(name) \/ Refuse(name)
  \/ BeginSession \/ FreeSimulator
  \/ \E name \in Name : FreeDevice(name) \/ CloseLibrary(name)

Spec == Init /\ [][Next]_vars

-----------------------------------------------------------------------------
(* Properties *)

(* Types of the variables; a library is being initialised only between its *)
(* dlopen and the end of its init.                                         *)
TypeOK ==
  /\ num_paths \in Nat
  /\ absent \subseteq Dir
  /\ on_disk \in [Dir -> [Name -> Kind]]
  /\ i \in 0 .. num_paths
  /\ stage \in {"open", "read", "init", "attach", "session", "free"}
  /\ stage \in {"open", "read", "init"} => i \in Dir
  /\ unread \subseteq Name
  /\ IF stage = "init" THEN loading \in File ELSE loading = NoFile
  /\ errno \in BOOLEAN
  /\ DOMAIN plugins \subseteq Name /\ \A name \in DOMAIN plugins : plugins[name] \in File
  /\ handles \subseteq File /\ live \subseteq File /\ on_bus \subseteq File
  /\ offered \subseteq Name
  /\ seen \subseteq File /\ cut_short \subseteq Dir

Searched == stage \in {"attach", "session"}

(* A plugin in HOME takes the place of the installed one of the same name, *)
(* but one that does not work lets the installed one through: of the       *)
(* plugins of a name that were found and work, the one in the last         *)
(* directory is loaded.                                                    *)
LastDirectoryWins ==
  Searched =>
    LET Working == {file \in seen : KindOf(file) = "plugin"}
    IN  /\ \A file \in Working : file[2] \in DOMAIN plugins
        /\ \A name \in DOMAIN plugins :
             /\ plugins[name] \in Working
             /\ \A file \in Working : file[2] = name => file[1] <= plugins[name][1]

(* An open library belongs to a plugin in the map or to the one being      *)
(* initialised, and each of those has its own open: none leaks, also when  *)
(* an init fails, and none is closed twice.                                *)
HandlesMatch ==
  handles = {plugins[name] : name \in DOMAIN plugins}
            \cup (IF stage = "init" THEN {loading} ELSE {})

(* No callback is left whose code is gone: a device on the bus has not     *)
(* been freed, and one not freed has its library open.                     *)
CallbacksHaveCode == on_bus \subseteq live /\ live \subseteq handles

(* Whatever did not work was reported: a directory that could not be       *)
(* opened or read to its end, and each file that failed and whose name was *)
(* not loaded from a later directory.                                      *)
FailuresReported ==
  Searched =>
    /\ \A d \in absent \cup cut_short : <<"PM_ERROR_OPENDIR", d>> \in reports
    /\ \A file \in seen :
         KindOf(file) \in {"no_stat", "no_lib", "no_device"} =>
           \/ <<"PM_ERROR_PLUGIN_LOAD", file>> \in reports
           \/ file[2] \in DOMAIN plugins /\ plugins[file[2]][1] > file[1]

(* user_interface.c:520, "Error opening plugin directiry": a directory is  *)
(* reported only when it could not be opened or read.                      *)
ReportsAreReal ==
  \A d \in Dir : <<"PM_ERROR_OPENDIR", d>> \in reports => d \in absent \cup cut_short
=============================================================================
