------------------------ MODULE PluginManagerProofs -------------------------
(***************************************************************************)
(* The properties of PluginManager, for any names, any number of           *)
(* directories and anything in them.                                       *)
(***************************************************************************)
EXTENDS PluginManager, TLAPS

(* A search that goes on to the next directory stays among them.           *)
LEMMA NextDirectoryType ==
  ASSUME num_paths \in Nat, i \in Dir, NextDirectory
  PROVE  /\ i' \in 0 .. num_paths /\ i' = i - 1
         /\ stage' \in {"open", "attach"}
         /\ stage' = "open" => i' \in Dir
         /\ stage' = "attach" => i' = 0
BY DEF NextDirectory, Dir

LEMMA InitType == Init => TypeOK
<1> SUFFICES ASSUME Init PROVE TypeOK
  OBVIOUS
<1>1. num_paths \in Nat /\ num_paths > 0
  BY PluginManagerAssumption DEF Init
<1>2. i \in Dir /\ i \in 0 .. num_paths
  BY <1>1 DEF Init, Dir
<1>3. absent \subseteq Dir
  BY DEF Init
<1> QED
  BY <1>1, <1>2, <1>3 DEF Init, TypeOK, Map!Init

LEMMA TypeKept == TypeOK /\ [Next]_vars => TypeOK'
<1> SUFFICES ASSUME TypeOK, [Next]_vars PROVE TypeOK'
  OBVIOUS
<1> USE DEF TypeOK, Dir, File, disk, history
<1>1. CASE OpenDirFails
  BY <1>1, NextDirectoryType DEF OpenDirFails
<1>2. CASE OpenDir
  BY <1>2 DEF OpenDir
<1>3. ASSUME NEW name \in Name,
             PassOver(name) \/ StatFails(name) \/ AlreadyLoaded(name) \/ DlopenFails(name)
      PROVE  TypeOK'
  <2>1. Reads(name) /\ UNCHANGED <<stage, loading, handles>> /\ errno' \in BOOLEAN
    BY <1>3 DEF PassOver, StatFails, AlreadyLoaded, DlopenFails, MaySetErrno
  <2>2. seen' \subseteq File /\ unread' \subseteq Name /\ stage = "read"
    BY <2>1 DEF Reads
  <2> QED
    BY <2>1, <2>2 DEF Reads
<1>4. ASSUME NEW name \in Name, Dlopen(name) PROVE TypeOK'
  <2>1. Reads(name) /\ errno' \in BOOLEAN
    BY <1>4 DEF Dlopen, MaySetErrno
  <2>2. seen' \subseteq File /\ unread' \subseteq Name /\ <<i, name>> \in File
    BY <2>1 DEF Reads
  <2> QED
    BY <1>4, <2>1, <2>2 DEF Reads, Dlopen
<1>5. CASE InitPlugin
  BY <1>5 DEF InitPlugin, Map!Set, MaySetErrno
<1>6. CASE InitPluginFails
  BY <1>6 DEF InitPluginFails, MaySetErrno
<1>7. CASE EndOfDirectory
  BY <1>7, NextDirectoryType DEF EndOfDirectory
<1>8. ASSUME NEW name \in Name, Attach(name) \/ Refuse(name) PROVE TypeOK'
  BY <1>8 DEF Offer, Attach, Refuse
<1>9. CASE BeginSession \/ FreeSimulator
  BY <1>9 DEF BeginSession, FreeSimulator
<1>10. ASSUME NEW name \in Name, FreeDevice(name) \/ CloseLibrary(name) PROVE TypeOK'
  BY <1>10 DEF Freeing, FreeDevice, CloseLibrary, Map!Remove
<1>11. CASE UNCHANGED vars
  BY <1>11 DEF vars
<1> QED
  BY <1>1, <1>2, <1>3, <1>4, <1>5, <1>6, <1>7, <1>8, <1>9, <1>10, <1>11 DEF Next

(* The variables have their types, and the loop over the directories ends  *)
(* at the first one.                                                       *)
THEOREM TypeCorrect == Spec => []TypeOK
BY InitType, TypeKept, PTL DEF Spec

-----------------------------------------------------------------------------
(* Libraries and devices *)

InMap(file) == \E name \in DOMAIN plugins : plugins[name] = file

(* Each plugin is kept under its own name, so that plugins of two names    *)
(* are two libraries, and the one being initialised is none of them.       *)
UnderOwnName ==
  /\ \A name \in DOMAIN plugins : plugins[name][2] = name
  /\ stage = "init" => loading[2] \notin DOMAIN plugins

(* All plugins have a live device until the map is freed, when the bus is  *)
(* gone.                                                                   *)
DevicesMatch ==
  /\ \A file \in live : InMap(file)
  /\ stage # "free" => \A name \in DOMAIN plugins : plugins[name] \in live
  /\ stage = "free" => on_bus = {}
  /\ on_bus \subseteq live

LibrariesInv == UnderOwnName /\ DevicesMatch /\ HandlesMatch

LEMMA InitLibraries == Init => LibrariesInv
BY DEF Init, LibrariesInv, UnderOwnName, DevicesMatch, HandlesMatch, Map!Init

(* What steps that touch no library have in common.                        *)
LEMMA LibrariesUntouched ==
  ASSUME LibrariesInv,
         UNCHANGED <<loading, plugins, handles, live>>,
         (stage' = "init") = (stage = "init"),
         stage' = "free" => stage = "free" \/ on_bus' = {},
         stage = "free" => stage' = "free",
         on_bus' = on_bus \/ on_bus' = {}
  PROVE  LibrariesInv'
BY DEF LibrariesInv, UnderOwnName, DevicesMatch, HandlesMatch, InMap

LEMMA LibrariesKept == TypeOK /\ LibrariesInv /\ [Next]_vars => LibrariesInv'
<1> SUFFICES ASSUME TypeOK, LibrariesInv, [Next]_vars PROVE LibrariesInv'
  OBVIOUS
<1>1. CASE OpenDirFails \/ EndOfDirectory
  BY <1>1, LibrariesUntouched DEF OpenDirFails, EndOfDirectory, NextDirectory
<1>2. CASE OpenDir
  BY <1>2, LibrariesUntouched DEF OpenDir
<1>3. ASSUME NEW name \in Name,
             PassOver(name) \/ StatFails(name) \/ AlreadyLoaded(name) \/ DlopenFails(name)
      PROVE  LibrariesInv'
  BY <1>3, LibrariesUntouched DEF Reads, PassOver, StatFails, AlreadyLoaded, DlopenFails
<1>4. ASSUME NEW name \in Name, Dlopen(name) PROVE LibrariesInv'
  <2>1. /\ UNCHANGED <<plugins, live, on_bus>>
        /\ stage = "read" /\ stage' = "init"
        /\ loading' = <<i, name>> /\ handles' = handles \cup {<<i, name>>}
        /\ name \notin DOMAIN plugins
    BY <1>4 DEF Dlopen, Reads, IsLoaded
  <2> QED
    BY <2>1 DEF LibrariesInv, UnderOwnName, DevicesMatch, HandlesMatch, InMap
<1>5. CASE InitPlugin
  <2> DEFINE new == loading[2]
  <2>1. /\ new \notin DOMAIN plugins
        /\ DOMAIN plugins' = DOMAIN plugins \cup {new}
        /\ plugins'[new] = loading
        /\ \A name \in DOMAIN plugins : plugins'[name] = plugins[name]
    BY <1>5 DEF InitPlugin, Map!Set, LibrariesInv, UnderOwnName
  <2>2. UnderOwnName'
    BY <1>5, <2>1 DEF InitPlugin, LibrariesInv, UnderOwnName
  <2>3. DevicesMatch'
    BY <1>5, <2>1 DEF InitPlugin, LibrariesInv, DevicesMatch, InMap
  <2>4. HandlesMatch'
    BY <1>5, <2>1 DEF InitPlugin, LibrariesInv, HandlesMatch
  <2> QED
    BY <2>2, <2>3, <2>4 DEF LibrariesInv
<1>6. CASE InitPluginFails
  <2>1. ~ InMap(loading)
    BY <1>6 DEF InitPluginFails, LibrariesInv, UnderOwnName, InMap
  <2> QED
    BY <1>6, <2>1 DEF InitPluginFails, LibrariesInv, UnderOwnName, DevicesMatch, HandlesMatch, InMap
<1>7. ASSUME NEW name \in Name, Attach(name) \/ Refuse(name) PROVE LibrariesInv'
  <2>1. /\ UNCHANGED <<stage, loading, plugins, handles, live>>
        /\ stage = "attach" /\ name \in DOMAIN plugins
        /\ on_bus' \subseteq on_bus \cup {plugins[name]}
    BY <1>7 DEF Offer, Attach, Refuse
  <2> QED
    BY <2>1 DEF LibrariesInv, UnderOwnName, DevicesMatch, HandlesMatch, InMap
<1>8. CASE BeginSession \/ FreeSimulator
  BY <1>8, LibrariesUntouched DEF BeginSession, FreeSimulator
<1>9. ASSUME NEW name \in Name, FreeDevice(name) PROVE LibrariesInv'
  <2>1. /\ UNCHANGED <<stage, loading, plugins, handles, on_bus>>
        /\ stage = "free"
        /\ live' \subseteq live
    BY <1>9 DEF Freeing, FreeDevice
  <2> QED
    BY <2>1 DEF LibrariesInv, UnderOwnName, DevicesMatch, HandlesMatch, InMap
<1>10. ASSUME NEW name \in Name, CloseLibrary(name) PROVE LibrariesInv'
  <2>1. /\ UNCHANGED <<stage, loading, live, on_bus>>
        /\ stage = "free" /\ name \in DOMAIN plugins
        /\ plugins[name] \notin live
        /\ handles' = handles \ {plugins[name]}
        /\ DOMAIN plugins' = DOMAIN plugins \ {name}
        /\ \A other \in DOMAIN plugins' : plugins'[other] = plugins[other]
    BY <1>10 DEF Freeing, CloseLibrary, Map!Remove
  <2>2. \A other \in DOMAIN plugins' : plugins[other] # plugins[name]
    BY <2>1 DEF LibrariesInv, UnderOwnName
  <2> QED
    BY <2>1, <2>2 DEF LibrariesInv, UnderOwnName, DevicesMatch, HandlesMatch, InMap
<1>11. CASE UNCHANGED vars
  BY <1>11, LibrariesUntouched DEF vars
<1> QED
  BY <1>1, <1>2, <1>3, <1>4, <1>5, <1>6, <1>7, <1>8, <1>9, <1>10, <1>11 DEF Next

LEMMA LibrariesAlways == Spec => []LibrariesInv
BY TypeCorrect, InitLibraries, LibrariesKept, PTL DEF Spec

(* The libraries open are those of the plugins in the map and the one      *)
(* being initialised, also after an init that failed.                      *)
THEOREM NoLibraryLeaks == Spec => []HandlesMatch
BY LibrariesAlways, PTL DEF LibrariesInv

LEMMA LibrariesImplyCallbacks == LibrariesInv => CallbacksHaveCode
BY DEF LibrariesInv, DevicesMatch, HandlesMatch, InMap, CallbacksHaveCode

(* The bus never has a device that was freed, nor is a device left whose   *)
(* library was closed, to the end of the program.                          *)
THEOREM CallbacksStayLoaded == Spec => []CallbacksHaveCode
BY LibrariesAlways, LibrariesImplyCallbacks, PTL

-----------------------------------------------------------------------------
(* The search through the directories *)

(* How far the search is: what readdir gave before lies in the later       *)
(* directories, or in this one under a name it will not give again.        *)
Progress ==
  /\ stage \in {"attach", "session"} => i = 0
  /\ stage = "open" => \A file \in seen : file[1] > i
  /\ stage \in {"read", "init"} =>
       /\ i \notin absent
       /\ \A file \in seen : file[1] > i \/ (file[1] = i /\ file[2] \notin unread)
  /\ stage = "init" =>
       loading \in seen /\ loading[1] = i /\ KindOf(loading) \in {"no_device", "plugin"}

(* The map has the last working plugin of each name seen so far.           *)
LastWins ==
  /\ \A name \in DOMAIN plugins :
       plugins[name] \in seen /\ KindOf(plugins[name]) = "plugin"
  /\ \A file \in seen :
       KindOf(file) = "plugin" /\ file # loading =>
         file[2] \in DOMAIN plugins /\ file[1] <= plugins[file[2]][1]

Excused(file) ==
  \/ file = loading
  \/ <<"PM_ERROR_PLUGIN_LOAD", file>> \in reports
  \/ file[2] \in DOMAIN plugins /\ plugins[file[2]][1] > file[1]

Reported ==
  /\ \A d \in absent : d > i => <<"PM_ERROR_OPENDIR", d>> \in reports
  /\ \A d \in cut_short : <<"PM_ERROR_OPENDIR", d>> \in reports
  /\ \A file \in seen : KindOf(file) \in {"no_stat", "no_lib", "no_device"} => Excused(file)

(* Freeing takes the map apart. *)
SearchInv == stage # "free" => Progress /\ LastWins /\ Reported

LEMMA InitSearch == TypeOK /\ Init => SearchInv
<1> SUFFICES ASSUME TypeOK, Init PROVE Progress /\ LastWins /\ Reported
  BY DEF SearchInv
<1>1. \A d \in absent : ~ (d > i)
  BY DEF Init, TypeOK, Dir
<1> QED
  BY <1>1 DEF Init, Progress, LastWins, Reported, Map!Init

(* Reading the next name, for the steps that load nothing.                 *)
LEMMA ReadsNothing ==
  ASSUME TypeOK, LibrariesInv, Progress, LastWins, Reported,
         NEW name \in Name, Reads(name),
         UNCHANGED <<stage, loading>>,
         reports \subseteq reports',
         LET file == <<i, name>> IN
           /\ KindOf(file) = "plugin" => name \in DOMAIN plugins
           /\ KindOf(file) \in {"no_stat", "no_lib", "no_device"} =>
                <<"PM_ERROR_PLUGIN_LOAD", file>> \in reports' \/ name \in DOMAIN plugins
  PROVE  SearchInv'
<1> DEFINE file == <<i, name>>
<1>1. /\ stage = "read" /\ name \in unread
      /\ unread' = unread \ {name}
      /\ seen' = seen \cup {file}
      /\ UNCHANGED <<i, plugins, absent, on_disk, cut_short>>
  BY DEF Reads, disk
<1>3. i \in Nat /\ \A f \in seen : f[1] \in Nat
  BY <1>1 DEF TypeOK, File, Dir
<1>4. file \notin seen
  BY <1>1, <1>3 DEF Progress
<1>5. name \in DOMAIN plugins => plugins[name][1] > i
  <2> SUFFICES ASSUME name \in DOMAIN plugins PROVE plugins[name][1] > i
    OBVIOUS
  <2>1. plugins[name] \in seen /\ plugins[name] \in File /\ plugins[name][2] = name
    BY DEF LastWins, TypeOK, LibrariesInv, UnderOwnName
  <2> QED
    BY <1>1, <2>1 DEF Progress
<1>6. Progress'
  BY <1>1, <1>3 DEF Progress
<1>7. LastWins'
  <2>1. \A other \in DOMAIN plugins : plugins[other] \in seen /\ KindOf(plugins[other]) = "plugin"
    BY DEF LastWins
  <2>2. ASSUME NEW f \in seen', KindOf(f) = "plugin", f # loading
        PROVE  f[2] \in DOMAIN plugins /\ f[1] <= plugins[f[2]][1]
    <3>1. CASE f \in seen
      BY <2>2, <3>1 DEF LastWins
    <3>2. CASE f = file
      <4>1. name \in DOMAIN plugins /\ plugins[name][1] \in Nat
        BY <2>2, <3>2 DEF TypeOK, File, Dir
      <4> QED
        BY <1>3, <1>5, <3>2, <4>1
    <3> QED
      BY <1>1, <3>1, <3>2
  <2> QED
    BY <1>1, <2>1, <2>2 DEF LastWins, KindOf
<1>8. Reported'
  BY <1>1, <1>5 DEF Reported, Excused, KindOf
<1> QED
  BY <1>6, <1>7, <1>8 DEF SearchInv

LEMMA SearchKept == TypeOK /\ LibrariesInv /\ SearchInv /\ [Next]_vars => SearchInv'
<1> SUFFICES ASSUME TypeOK, LibrariesInv, SearchInv, [Next]_vars, stage' # "free"
             PROVE  SearchInv'
  BY DEF SearchInv
<1> USE DEF disk, history
<1>1. stage # "free"
  BY DEF Next, vars, OpenDirFails, OpenDir, Reads, PassOver, StatFails, AlreadyLoaded,
         DlopenFails, Dlopen, InitPlugin, InitPluginFails, EndOfDirectory, Offer, Attach,
         Refuse, BeginSession, FreeSimulator, Freeing, FreeDevice, CloseLibrary
<1>2. Progress /\ LastWins /\ Reported
  BY <1>1 DEF SearchInv
<1>3. UNCHANGED <<num_paths, absent, on_disk>>
  BY DEF Next, vars, OpenDirFails, OpenDir, Reads, PassOver, StatFails, AlreadyLoaded,
         DlopenFails, Dlopen, InitPlugin, InitPluginFails, EndOfDirectory, Offer, Attach,
         Refuse, BeginSession, FreeSimulator, Freeing, FreeDevice, CloseLibrary
<1>4. absent \subseteq Nat /\ (\A f \in seen : f[1] \in Nat) /\ i \in Nat
  BY DEF TypeOK, Dir, File
<1>5. CASE OpenDirFails
  <2>1. /\ i \in absent /\ stage = "open"
        /\ reports' = reports \cup {<<"PM_ERROR_OPENDIR", i>>}
        /\ UNCHANGED <<loading, plugins, seen, cut_short>>
        /\ NextDirectory
    BY <1>5 DEF OpenDirFails, Report
  <2>2. /\ i' = i - 1
        /\ stage' \in {"open", "attach"}
        /\ stage' = "attach" => i' = 0
    BY <2>1, NextDirectoryType DEF TypeOK
  <2>3. Progress'
    BY <1>2, <1>4, <2>1, <2>2 DEF Progress
  <2>4. LastWins'
    BY <1>2, <1>3, <2>1 DEF LastWins, KindOf
  <2>5. \A d \in absent : d > i' => <<"PM_ERROR_OPENDIR", d>> \in reports'
    BY <1>2, <1>4, <2>1, <2>2 DEF Reported
  <2>6. Reported'
    BY <1>2, <1>3, <2>1, <2>5 DEF Reported, Excused, KindOf
  <2> QED
    BY <2>3, <2>4, <2>6 DEF SearchInv
<1>6. CASE EndOfDirectory
  <2>1. /\ stage = "read"
        /\ reports \subseteq reports'
        /\ UNCHANGED <<loading, plugins, seen>>
        /\ NextDirectory
    BY <1>6 DEF EndOfDirectory, ReportIfErrno, Report
  <2>2. /\ i' = i - 1
        /\ stage' \in {"open", "attach"}
        /\ stage' = "attach" => i' = 0
    BY <2>1, NextDirectoryType DEF TypeOK
  <2>3. Progress'
    BY <1>2, <1>4, <2>1, <2>2 DEF Progress
  <2>4. LastWins'
    BY <1>2, <1>3, <2>1 DEF LastWins, KindOf
  <2>5. \A d \in absent : d > i' => <<"PM_ERROR_OPENDIR", d>> \in reports'
    BY <1>2, <1>4, <2>1, <2>2 DEF Reported, Progress
  <2>6. \A d \in cut_short' : <<"PM_ERROR_OPENDIR", d>> \in reports'
    <3>1. CASE UNCHANGED cut_short
      BY <1>2, <2>1, <3>1 DEF Reported
    <3>2. CASE errno' = TRUE /\ cut_short' = cut_short \cup {i}
      <4>1. reports' = reports \cup {<<"PM_ERROR_OPENDIR", i>>}
        BY <1>6, <3>2 DEF EndOfDirectory, ReportIfErrno, Report
      <4> QED
        BY <1>2, <3>2, <4>1 DEF Reported
    <3> QED
      BY <1>6, <3>1, <3>2 DEF EndOfDirectory
  <2>7. Reported'
    BY <1>2, <1>3, <2>1, <2>5, <2>6 DEF Reported, Excused, KindOf
  <2> QED
    BY <2>3, <2>4, <2>7 DEF SearchInv
<1>7. CASE OpenDir
  <2>1. /\ stage = "open" /\ stage' = "read" /\ i \notin absent
        /\ UNCHANGED <<i, loading, plugins, seen, cut_short, reports>>
    BY <1>7 DEF OpenDir
  <2> QED
    BY <1>2, <1>3, <2>1 DEF SearchInv, Progress, LastWins, Reported, Excused, KindOf
<1>8. ASSUME NEW name \in Name,
             PassOver(name) \/ StatFails(name) \/ AlreadyLoaded(name) \/ DlopenFails(name)
      PROVE  SearchInv'
  BY <1>2, <1>8, ReadsNothing
     DEF PassOver, StatFails, AlreadyLoaded, DlopenFails, IsLoaded, Report
<1>9. ASSUME NEW name \in Name, Dlopen(name) PROVE SearchInv'
  <2> DEFINE file == <<i, name>>
  <2>1. /\ stage = "read" /\ stage' = "init"
        /\ name \in unread /\ unread' = unread \ {name}
        /\ seen' = seen \cup {file} /\ loading' = file
        /\ KindOf(file) \in {"no_device", "plugin"}
        /\ UNCHANGED <<i, plugins, cut_short, reports>>
    BY <1>9 DEF Dlopen, Reads
  <2>2. loading = NoFile /\ loading \notin seen
    BY <1>4, <2>1 DEF TypeOK, NoFile, Dir, File
  <2>3. Progress'
    BY <1>2, <1>3, <1>4, <2>1 DEF Progress, KindOf
  <2>4. LastWins'
    BY <1>2, <1>3, <2>1, <2>2 DEF LastWins, KindOf
  <2>5. Reported'
    BY <1>2, <1>3, <2>1, <2>2 DEF Reported, Excused, KindOf
  <2> QED
    BY <2>3, <2>4, <2>5 DEF SearchInv
<1>10. CASE InitPlugin
  <2> DEFINE new == loading[2]
  <2>1. /\ stage = "init" /\ stage' = "read" /\ loading' = NoFile
        /\ KindOf(loading) = "plugin"
        /\ new \notin DOMAIN plugins
        /\ DOMAIN plugins' = DOMAIN plugins \cup {new}
        /\ plugins'[new] = loading
        /\ \A name \in DOMAIN plugins : plugins'[name] = plugins[name]
        /\ UNCHANGED <<i, unread, seen, cut_short, reports>>
    BY <1>10 DEF InitPlugin, Map!Set, LibrariesInv, UnderOwnName
  <2>2. loading \in seen /\ loading[1] \in Nat
    BY <1>2, <1>4, <2>1 DEF Progress
  <2>3. Progress'
    BY <1>2, <1>3, <2>1 DEF Progress
  <2>4. LastWins'
    BY <1>2, <1>3, <2>1, <2>2 DEF LastWins, KindOf
  <2>5. Reported'
    BY <1>2, <1>3, <2>1 DEF Reported, Excused, KindOf
  <2> QED
    BY <2>3, <2>4, <2>5 DEF SearchInv
<1>11. CASE InitPluginFails
  <2>1. /\ stage = "init" /\ stage' = "read" /\ loading' = NoFile
        /\ KindOf(loading) = "no_device"
        /\ reports' = reports \cup {<<"PM_ERROR_PLUGIN_LOAD", loading>>}
        /\ UNCHANGED <<i, unread, plugins, seen, cut_short>>
    BY <1>11 DEF InitPluginFails, Report
  <2>2. Progress'
    BY <1>2, <1>3, <2>1 DEF Progress
  <2>3. LastWins'
    BY <1>2, <1>3, <2>1 DEF LastWins, KindOf
  <2>4. Reported'
    BY <1>2, <1>3, <2>1 DEF Reported, Excused, KindOf
  <2> QED
    BY <2>2, <2>3, <2>4 DEF SearchInv
<1>12. ASSUME NEW name \in Name, Attach(name) \/ Refuse(name) PROVE SearchInv'
  <2>1. /\ reports \subseteq reports'
        /\ UNCHANGED <<i, stage, unread, loading, plugins, seen, cut_short>>
    BY <1>12 DEF Offer, Attach, Refuse, Report
  <2> QED
    BY <1>2, <1>3, <2>1 DEF SearchInv, Progress, LastWins, Reported, Excused, KindOf
<1>13. CASE BeginSession
  <2>1. /\ stage = "attach" /\ stage' = "session"
        /\ UNCHANGED <<i, unread, loading, plugins, seen, cut_short, reports>>
    BY <1>13 DEF BeginSession
  <2> QED
    BY <1>2, <1>3, <2>1 DEF SearchInv, Progress, LastWins, Reported, Excused, KindOf
<1>14. CASE UNCHANGED vars
  BY <1>2, <1>14 DEF vars, SearchInv, Progress, LastWins, Reported, Excused, KindOf
<1>15. ~ FreeSimulator /\ \A name \in Name : ~ FreeDevice(name) /\ ~ CloseLibrary(name)
  BY <1>1 DEF FreeSimulator, Freeing, FreeDevice, CloseLibrary
<1> QED
  BY <1>5, <1>6, <1>7, <1>8, <1>9, <1>10, <1>11, <1>12, <1>13, <1>14, <1>15 DEF Next

LEMMA SearchAlways == Spec => [](TypeOK /\ LibrariesInv /\ SearchInv)
BY TypeCorrect, LibrariesAlways, InitSearch, SearchKept, InitType, PTL DEF Spec

LEMMA SearchImplies ==
  TypeOK /\ LibrariesInv /\ SearchInv => LastDirectoryWins /\ FailuresReported
<1> SUFFICES ASSUME TypeOK, LibrariesInv, SearchInv, Searched
             PROVE  LastDirectoryWins /\ FailuresReported
  BY DEF LastDirectoryWins, FailuresReported
<1>1. Progress /\ LastWins /\ Reported /\ i = 0 /\ loading = NoFile
  BY DEF SearchInv, Searched, Progress, TypeOK
<1>2. loading \notin seen
  BY <1>1 DEF TypeOK, NoFile, File, Dir
<1>3. LastDirectoryWins
  BY <1>1, <1>2 DEF LastDirectoryWins, LastWins, LibrariesInv, UnderOwnName
<1>4. \A d \in absent : d > i
  BY <1>1 DEF TypeOK, Dir
<1>5. FailuresReported
  BY <1>1, <1>2, <1>4 DEF FailuresReported, Reported, Excused
<1> QED
  BY <1>3, <1>5

(* Of the working plugins of a name that readdir gave, the one of the last *)
(* directory is loaded: a broken one does not hide another.                *)
THEOREM LastPluginLoaded == Spec => []LastDirectoryWins
BY SearchAlways, SearchImplies, PTL

(* Every directory and every file that failed was reported.                *)
THEOREM NoFailureHidden == Spec => []FailuresReported
BY SearchAlways, SearchImplies, PTL

=============================================================================
