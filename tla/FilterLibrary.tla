---------------------------- MODULE FilterLibrary ----------------------------
(***************************************************************************)
(* FilterManager of rzfilter: a filter module that is replaced on disk     *)
(* while the program runs, the library it becomes, and the filters of the  *)
(* connections (FilterProxy).                                              *)
(*                                                                         *)
(* A module is the number of its upload.  It is uploaded as main, and its  *)
(* writer goes on writing to the file when that is renamed; the program    *)
(* keeps what it loaded under one of two names, used[0] and used[1].       *)
(***************************************************************************)
EXTENDS Integers, FiniteSets

CONSTANTS
  Proxies,      \* FilterProxy objects, one per connection
  MaxUploads,   \* bound: modules uploaded
  MaxCrashes    \* bound: ends of the process

VARIABLES
  main,         \* the uploaded file, 0 when there is none
  used,         \* the files of the two other names, 0 for none
  writing,      \* modules that are not written completely
  broken,       \* modules that no library can be made of
  memory,       \* what the process knows: current index, last size, loaded module
  filters,      \* the filters of the proxies: None, 0 before a module is there, or its module
  uploads, crashes, worked

vars == <<main, used, writing, broken, memory, filters, uploads, crashes, worked>>

None == -1
Started == [current |-> 0, last |-> -1, loaded |-> 0]

Init ==
  /\ main = 0 /\ used = [i \in 0 .. 1 |-> 0]
  /\ writing = {} /\ broken = {} /\ memory = Started
  /\ filters = [p \in Proxies |-> None]
  /\ uploads = 0 /\ crashes = 0 /\ worked = FALSE

\* getFileSize: a complete module is longer than one that is being written.
FileSize == IF main = 0 THEN 0 ELSE IF main \in writing THEN 1 ELSE 2

\* uv_dlopen and uv_dlsym
CanLoad(m) == m # 0 /\ m \notin writing \cup broken

\* recreateFilterModule for every proxy: the new filter takes over from the old.
reloadAllFilters(m) == [p \in Proxies |-> IF filters[p] = None THEN None ELSE m]

\* findUsedIndexOnDisk
findUsedIndexOnDisk(d, i) == IF d[i] # 0 THEN i ELSE 1 - i

\* The file that loadModule takes and the index it has then; none to wait.
Candidate ==
  LET m == memory
  IN  IF FileSize > 0 /\ m.last \in {FileSize, -1}
        THEN [from |-> "main", current |-> m.current, last |-> FileSize]
      ELSE IF m.loaded = 0 /\ FileSize = 0
        THEN [from |-> "used", current |-> findUsedIndexOnDisk(used, m.current), last |-> m.last]
      ELSE [from |-> "none", current |-> m.current, last |-> FileSize]

Taken(c) == IF c.from = "main" THEN main ELSE used[c.current]

\* What is on disk after the first k operations: the other name is freed, the
\* file gets it, and, once the module is loaded, the name in use is freed.
Disk(c, k) ==
  LET next == 1 - c.current
      file == Taken(c)
      freed == [used EXCEPT ![next] = 0]
      moved == IF file = 0 THEN freed
               ELSE IF c.from = "main" THEN [freed EXCEPT ![next] = file]
               ELSE [freed EXCEPT ![next] = file, ![c.current] = 0]
  IN  CASE k = 0 -> [main |-> main, used |-> used]
        [] k = 1 -> [main |-> main, used |-> freed]
        [] k = 2 -> [main |-> IF c.from = "main" THEN 0 ELSE main, used |-> moved]
        [] k = 3 -> [main |-> IF c.from = "main" THEN 0 ELSE main, used |-> [moved EXCEPT ![c.current] = 0]]

\* onUpdateFilter, every two seconds and from the constructor.
loadModule ==
  LET c == Candidate
      file == Taken(c)
      loads == c.from # "none" /\ CanLoad(file)
      disk == Disk(c, IF c.from = "none" THEN 0 ELSE IF loads THEN 3 ELSE 2)
  IN  /\ main' = disk.main /\ used' = disk.used
      /\ memory' = IF loads THEN [current |-> 1 - c.current, last |-> c.last, loaded |-> file]
                   ELSE [memory EXCEPT !.current = c.current, !.last = c.last]
      /\ filters' = IF loads THEN reloadAllFilters(file) ELSE filters
      /\ worked' = (worked \/ loads)
      /\ UNCHANGED <<writing, broken, uploads, crashes>>

\* FilterProxy: createFilter and bindEndpoints, with a filter if there is a module.
createFilter(p) ==
  /\ filters[p] = None
  /\ filters' = [filters EXCEPT ![p] = memory.loaded]
  /\ UNCHANGED <<main, used, writing, broken, memory, uploads, crashes, worked>>

\* ~FilterProxy
unregisterFilter(p) ==
  /\ filters[p] # None
  /\ filters' = [filters EXCEPT ![p] = None]
  /\ UNCHANGED <<main, used, writing, broken, memory, uploads, crashes, worked>>

\* The process ends and is started again; disk is what it leaves behind.
Restart(disk) ==
  /\ crashes < MaxCrashes
  /\ crashes' = crashes + 1
  /\ main' = disk.main /\ used' = disk.used
  /\ memory' = Started /\ filters' = [p \in Proxies |-> None]
  /\ UNCHANGED <<writing, broken, uploads, worked>>

\* It may be killed between two operations of loadModule.
Killed ==
  LET c == Candidate
  IN  \E k \in IF c.from = "none" THEN {0} ELSE IF CanLoad(Taken(c)) THEN 0 .. 3 ELSE 0 .. 2 : Restart(Disk(c, k))

\* reloadFiltersCommand: the filters are made anew by the same module.  Without
\* one there is no function to call, which ends the process.
reloadFiltersCommand ==
  IF memory.loaded = 0 /\ \E p \in Proxies : filters[p] # None
  THEN Restart([main |-> main, used |-> used])
  ELSE /\ filters' = reloadAllFilters(memory.loaded)
       /\ UNCHANGED <<main, used, writing, broken, memory, uploads, crashes, worked>>

\* The operator uploads a module, with whatever content.
Upload(ok) ==
  /\ uploads < MaxUploads
  /\ uploads' = uploads + 1
  /\ main' = uploads + 1
  /\ writing' = writing \cup {uploads + 1}
  /\ broken' = IF ok THEN broken ELSE broken \cup {uploads + 1}
  /\ UNCHANGED <<used, memory, filters, crashes, worked>>

Uploaded(m) ==
  /\ m \in writing
  /\ writing' = writing \ {m}
  /\ UNCHANGED <<main, used, broken, memory, filters, uploads, crashes, worked>>

Next ==
  \/ loadModule
  \/ \E p \in Proxies : createFilter(p) \/ unregisterFilter(p)
  \/ Killed
  \/ reloadFiltersCommand
  \/ \E ok \in BOOLEAN : Upload(ok)
  \/ \E m \in writing : Uploaded(m)

-----------------------------------------------------------------------------
(* Properties *)

\* Every filter is of the library that is loaded, and every connection has one:
\* loadModule closes the old library only after it replaced the filters.
FiltersAlive == \A p \in Proxies : filters[p] \in {None, memory.loaded}

\* The file of the loaded library is on disk, under the name the next load
\* leaves alone until it succeeds.
LoadedOnDisk == memory.loaded # 0 => used[memory.current] = memory.loaded

\* Unless a broken module was uploaded, the process finds a module again after
\* it was killed at any time.
FoundAgain == worked /\ broken = {} => main # 0 \/ used[0] # 0 \/ used[1] # 0

LibraryKept == FiltersAlive /\ LoadedOnDisk /\ FoundAgain
=============================================================================
