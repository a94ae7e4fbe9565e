----------------------------- MODULE ProcTools -----------------------------
(***************************************************************************)
(* The tools of libproc: gordon.c, proctest.c, grab_file_test.c and        *)
(* extract_symtab_from_exec.c.  Each grabs a process or a file, walks its  *)
(* objects with a callback, in three of them the symbols of each object    *)
(* with another, and frees the handle.  libproc itself is external: every  *)
(* grab and every walk may fail, Pobject_iter stops at the first callback  *)
(* that does not return 0 and comes to the executable first.  The tools    *)
(* are killed, or not, where they print a NULL name or walk the symbols of *)
(* a NULL handle.                                                          *)
(***************************************************************************)
EXTENDS Integers, Sequences, FiniteSets

CONSTANTS
  Tools,     \* the tools that are run
  LinkMaps   \* the sequences of objects they meet: [name, symbols]

\* A name is "match" (the object gordon looks for), "other" or "NULL";
\* symbols is a sequence of Booleans: the symbol has a name.
ASSUME ToolsAssumption ==
  /\ Tools \subseteq {"gordon", "proctest", "grab_file_test", "extract_symtab"}
  /\ LinkMaps \subseteq Seq([name : {"match", "other", "NULL"}, symbols : Seq(BOOLEAN)])

VARIABLES
  tool, map,     \* the tool, and the objects of what it looks at
  tpc,           \* next step
  Pr,            \* main's handle: "none", "NULL", "live" or "freed"
  object, sym,   \* index of the object and symbol of the next callback
  pshandle,      \* handle given to Psymbol_iter
  cut,           \* ghost: Psymbol_iter failed before the last symbol
  open,          \* file handles grabbed and not freed
  function_count,
  search_addr,   \* gordon: 0 while it is uninitialised, else an object
  result,        \* what Pobject_iter returned
  nocopy,        \* ghost: objects for which strdup failed
  exitCode

walk     == <<object, sym, pshandle, cut, open, function_count>>
search   == <<search_addr, result, nocopy>>
toolVars == <<tool, map, tpc, Pr, walk, search, exitCode>>

ToolInit ==
  /\ tool \in Tools /\ map \in LinkMaps
  /\ tpc = "start" /\ Pr = "none"
  /\ object = 1 /\ sym = 1 /\ pshandle = "none" /\ cut = FALSE /\ open = 0
  /\ function_count = 0
  /\ search_addr = 0 /\ result = 0 /\ nocopy = {}
  /\ exitCode = -1

ToolExit(c) == tpc' = "exit" /\ exitCode' = c

-----------------------------------------------------------------------------
(* The mains, up to Pobject_iter: exit 1 for a wrong number of arguments,  *)
(* another code if nothing can be grabbed.                                 *)

Grab(failed) ==
  /\ tpc = "start"
  /\ \/ ToolExit(1) /\ UNCHANGED Pr
     \/ Pr' = "NULL" /\ ToolExit(failed)
     \/ Pr' = "live" /\ tpc' = "object" /\ UNCHANGED exitCode
  /\ UNCHANGED <<tool, map, walk, search>>

GordonMain   == tool = "gordon" /\ Grab(1)          \* proc_arg_grab
ProctestMain == tool = "proctest" /\ Grab(2)        \* Pgrab
GrabFileMain == tool = "grab_file_test" /\ Grab(2)  \* Pgrab
ExtractMain  == tool = "extract_symtab" /\ Grab(2)  \* Pgrab_file

-----------------------------------------------------------------------------
(* The callbacks of Pobject_iter.                                          *)

Object(t) == tool = t /\ tpc = "object" /\ object <= Len(map)

\* Mutant: the search ends at a match whose address is not recorded.
GordonForgets ==
  /\ Object("gordon")
  /\ IF map[object].name = "match"
     THEN result' = 1 /\ tpc' = "result" /\ UNCHANGED object
     ELSE object' = object + 1 /\ UNCHANGED <<tpc, result>>
  /\ UNCHANGED <<tool, map, Pr, sym, pshandle, cut, open, function_count, search_addr, nocopy,
                 exitCode>>

\* callback of gordon.c: no name, no memory for the copy or another name:
\* return 0.  A match: record the address, return 1.
GordonCallback ==
  /\ Object("gordon")
  /\ \/ /\ map[object].name # "match"
        /\ object' = object + 1
        /\ UNCHANGED <<tpc, result, search_addr, nocopy>>
     \/ /\ map[object].name = "match"
        /\ nocopy' = nocopy \cup {object} /\ object' = object + 1
        /\ UNCHANGED <<tpc, result, search_addr>>
     \/ /\ map[object].name = "match"
        /\ search_addr' = object /\ result' = 1 /\ tpc' = "result"
        /\ UNCHANGED <<object, nocopy>>
  /\ UNCHANGED <<tool, map, Pr, sym, pshandle, cut, open, function_count, exitCode>>

\* The object whose symbols Psymbol_iter walks for object o: a NULL name is
\* PR_OBJ_EXEC, the executable.
Walked(o) == IF map[o].name = "NULL" THEN 1 ELSE o
Symbols   == map[Walked(object)].symbols

SymbolIter(handle) ==
  /\ pshandle' = handle /\ cut' = FALSE
  /\ open' = open + (IF handle = "file" THEN 1 ELSE 0)
  /\ function_count' = 0 /\ sym' = 1
  /\ tpc' = "symbol"
  /\ UNCHANGED <<tool, map, Pr, object, search, exitCode>>

\* object_iter of proctest.c: Psymbol_iter on the handle of the process.
ProctestObject == Object("proctest") /\ SymbolIter(Pr)

\* Mutant: the count of the last object is not reset.
GrabFileObjectKeeps ==
  /\ Object("grab_file_test")
  /\ map[object].name # "NULL"
  /\ pshandle' = "file" /\ cut' = FALSE /\ open' = open + 1 /\ sym' = 1 /\ tpc' = "symbol"
  /\ UNCHANGED <<tool, map, Pr, object, function_count, search, exitCode>>

\* Pgrab_file: the handle, or NULL; there is no file without a name.
FileHandles == IF map[object].name = "NULL" THEN {"NULL"} ELSE {"file", "NULL"}

\* proc_object_iter of the other two: grab the object's file.  A failure is
\* reported, and the NULL handle given to Psymbol_iter all the same.
GrabFileObject == Object("grab_file_test") /\ \E h \in FileHandles : SymbolIter(h)
ExtractObject  == Object("extract_symtab") /\ \E h \in FileHandles : SymbolIter(h)

\* Psymbol_iter returns, after the last symbol, before it (an error, which
\* nobody looks at), or at once for a NULL handle; the callback returns 0.
\* No file handle is freed.
SymbolsDone ==
  /\ tpc = "symbol"
  /\ cut' = (pshandle # "NULL" /\ sym <= Len(Symbols))
  /\ object' = object + 1 /\ tpc' = "object"
  /\ UNCHANGED <<tool, map, Pr, sym, pshandle, open, function_count, search, exitCode>>

\* Undefined: printf of a NULL object_name, Psymbol_iter on a NULL handle.
Killed ==
  /\ \/ /\ tpc = "object" /\ tool \in {"proctest", "grab_file_test"}
        /\ object <= Len(map) /\ map[object].name = "NULL"
     \/ tpc = "symbol" /\ pshandle = "NULL"
  /\ ToolExit(139)
  /\ UNCHANGED <<tool, map, Pr, walk, search>>

-----------------------------------------------------------------------------
(* The callbacks of Psymbol_iter.                                          *)

Symbol(t) ==
  /\ tool = t /\ tpc = "symbol"
  /\ pshandle # "NULL" /\ sym <= Len(Symbols)

\* Count the symbol if it has a name, return 0.
CountFunction ==
  /\ function_count' = function_count + (IF Symbols[sym] THEN 1 ELSE 0)
  /\ sym' = sym + 1
  /\ UNCHANGED <<tool, map, tpc, Pr, object, pshandle, cut, open, search, exitCode>>

ProctestFunction == Symbol("proctest") /\ CountFunction
GrabFileFunction == Symbol("grab_file_test") /\ CountFunction

\* The switch is on demangle_result, which nobody assigns: any branch.
ExtractFunction ==
  /\ Symbol("extract_symtab")
  /\ \/ CountFunction
     \/ /\ Symbols[sym]
        /\ \E c \in {4, 5, 6} : ToolExit(c)
        /\ UNCHANGED <<tool, map, Pr, walk, search>>

-----------------------------------------------------------------------------
\* Pobject_iter returns: 0 after the last object, -1 if it cannot go on.
IterReturns ==
  /\ tpc = "object"
  /\ \/ object > Len(map) /\ UNCHANGED result
     \/ result' = -1
  /\ tpc' = "result"
  /\ UNCHANGED <<tool, map, Pr, walk, search_addr, nocopy, exitCode>>

\* gordon prints "loaded at" if result is not 0; all free main's handle.
Pfree ==
  /\ tpc = "result"
  /\ Pr' = "freed"
  /\ ToolExit(0)
  /\ UNCHANGED <<tool, map, walk, search>>

ToolNext ==
  \/ GordonMain \/ ProctestMain \/ GrabFileMain \/ ExtractMain
  \/ GordonCallback \/ ProctestObject \/ GrabFileObject \/ ExtractObject
  \/ ProctestFunction \/ GrabFileFunction \/ ExtractFunction
  \/ SymbolsDone \/ Killed \/ IterReturns \/ Pfree

ToolSpec == ToolInit /\ [][ToolNext]_toolVars

-----------------------------------------------------------------------------
\* "Record the base address": gordon prints an address that was recorded
\* exactly if Pobject_iter returned 1, and it is then the one of the first
\* object of that name, but for objects strdup had no memory for; "not found"
\* is printed only if there is no other.  For an error, -1, which gordon takes
\* for a match, the address it prints was never assigned.
FoundMeansRecorded ==
  tool = "gordon" /\ tpc \in {"result", "exit"} =>
    /\ search_addr # 0 <=> result = 1
    /\ result = 1 =>
         /\ map[search_addr].name = "match"
         /\ \A o \in 1 .. (search_addr - 1) : map[o].name = "match" => o \in nocopy
    /\ result = 0 /\ exitCode # 1 =>
         \A o \in DOMAIN map : map[o].name = "match" => o \in nocopy

\* When an object is done its count is the number of named symbols of the
\* object that was walked, the executable for one without a name, whatever
\* the objects before it had; not more if Psymbol_iter failed on the way, and
\* 0 for a file that could not be grabbed.
FunctionsCounted ==
  tpc = "object" /\ object > 1 /\ tool # "gordon" =>
    LET symbols == map[Walked(object - 1)].symbols
        named   == Cardinality({s \in DOMAIN symbols : symbols[s]})
    IN  /\ pshandle = "NULL" => function_count = 0
        /\ pshandle # "NULL" => function_count <= named
        /\ pshandle # "NULL" /\ ~cut => function_count = named
=============================================================================
