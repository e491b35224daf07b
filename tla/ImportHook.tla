---------------------------- MODULE ImportHook ----------------------------
(***************************************************************************)
(* adapter/sitecustomize.py: how the storage adapter gets into the model   *)
(* code.  Python runs sitecustomize when an interpreter starts, before the *)
(* program; with DSV41_SOURCE set it puts a finder in front of the others. *)
(* A module it finds is executed as usual and patched before the import    *)
(* ends: the Engram layer's class gets the constructor of engram_backend,  *)
(* the indexer metadata's class another __post_init__.                     *)
(*                                                                         *)
(* Any thread of a process can import a module or build an object of its   *)
(* class.  The import system (external) lets one thread execute a module,  *)
(* makes the others wait until the import has ended, and forgets a module  *)
(* whose import raised, so that the next import starts anew.  Imports that *)
(* depend on each other in a circle, where Python hands out modules it is  *)
(* still executing, are left out.                                          *)
(***************************************************************************)
EXTENDS Naturals, Sequences

CONSTANTS
  Processes,  \* processes of a container
  Enabled,    \* those that run with DSV41_SOURCE: the server and its workers
  Ratios,     \* compress_ratio of an indexer's metadata
  MaxImports  \* bound on the imports a process begins

Modules == {"engram", "metadata"}
Finders == {"engram", "path"}  \* EngramFinder and Python's own
Objects == [module : Modules, ratio : Ratios \cup {0}, replaced : BOOLEAN, forced : BOOLEAN]

ASSUME EnabledAssumption == Enabled \subseteq Processes
ASSUME ImportsAssumption == Ratios \subseteq Nat /\ MaxImports \in Nat

VARIABLES
  started,  \* process -> its interpreter has run sitecustomize
  metaPath, \* process -> sys.meta_path, as a sequence of finders
  state,    \* process -> module -> "absent", "executing", "patching", "loaded"
  loader,   \* process -> module -> the finder whose loader executes it
  patched,  \* process -> module -> its class is patched
  objects,  \* process -> objects built: [module, ratio, replaced, forced]
  sm120,    \* the GPUs of the machine are SM120
  imports   \* process -> imports begun

hookVars == <<started, metaPath, state, loader, patched, objects, sm120, imports>>

HookInit ==
  /\ started = [p \in Processes |-> FALSE]
  /\ metaPath = [p \in Processes |-> <<"path">>]
  /\ state = [p \in Processes |-> [m \in Modules |-> "absent"]]
  /\ loader = [p \in Processes |-> [m \in Modules |-> "path"]]
  /\ patched = [p \in Processes |-> [m \in Modules |-> FALSE]]
  /\ objects = [p \in Processes |-> {}]
  /\ sm120 \in BOOLEAN
  /\ imports = [p \in Processes |-> 0]

\* sitecustomize, before the program imports anything.
StartInterpreter_Appended(p) ==  \* mutation: the finder is asked after Python's own
  /\ ~started[p]
  /\ started' = [started EXCEPT ![p] = TRUE]
  /\ metaPath' = IF p \in Enabled THEN [metaPath EXCEPT ![p] = @ \o <<"engram">>] ELSE metaPath
  /\ UNCHANGED <<state, loader, patched, objects, sm120, imports>>
StartInterpreter(p) ==
  /\ ~started[p]
  /\ started' = [started EXCEPT ![p] = TRUE]
  /\ metaPath' = IF p \in Enabled THEN [metaPath EXCEPT ![p] = <<"engram">> \o @] ELSE metaPath
  /\ UNCHANGED <<state, loader, patched, objects, sm120, imports>>

\* A thread begins to import m: the first finder that knows m loads it.
FindSpec(p, m) ==
  /\ started[p] /\ state[p][m] = "absent" /\ imports[p] < MaxImports
  /\ state' = [state EXCEPT ![p][m] = "executing"]
  /\ loader' = [loader EXCEPT ![p][m] = Head(metaPath[p])]
  /\ patched' = [patched EXCEPT ![p][m] = FALSE]
  /\ imports' = [imports EXCEPT ![p] = @ + 1]
  /\ UNCHANGED <<started, metaPath, objects, sm120>>

\* exec_module: the original loader has executed the module's code.
Exec_Released(p, m) ==  \* mutation: others get the module before it is patched
  /\ state[p][m] = "executing"
  /\ state' = [state EXCEPT ![p][m] = "loaded"]
  /\ UNCHANGED <<started, metaPath, loader, patched, objects, sm120, imports>>
Exec(p, m) ==
  /\ state[p][m] = "executing"
  /\ state' = [state EXCEPT ![p][m] = IF loader[p][m] = "engram" THEN "patching" ELSE "loaded"]
  /\ UNCHANGED <<started, metaPath, loader, patched, objects, sm120, imports>>

\* Either branch of exec_module has changed the class.
Patch(p, m) ==
  /\ state[p][m] = "patching"
  /\ state' = [state EXCEPT ![p][m] = "loaded"]
  /\ patched' = [patched EXCEPT ![p][m] = TRUE]
  /\ UNCHANGED <<started, metaPath, loader, objects, sm120, imports>>

\* The module's code raises, or it cannot be patched: engram_backend finds no
\* librow_store.so or libcudart.so, or the module has no such class.
ImportFails(p, m) ==
  /\ state[p][m] \in {"executing", "patching"}
  /\ state' = [state EXCEPT ![p][m] = "absent"]
  /\ UNCHANGED <<started, metaPath, loader, patched, objects, sm120, imports>>

\* An Engram layer: by the constructor of engram_backend or the original one.
BuildLayer(p) ==
  /\ state[p]["engram"] = "loaded"
  /\ objects' = [objects EXCEPT ![p] = @ \cup
       {[module |-> "engram", ratio |-> 0, replaced |-> patched[p]["engram"], forced |-> FALSE]}]
  /\ UNCHANGED <<started, metaPath, state, loader, patched, sm120, imports>>

\* Metadata of an indexer: post_init forces the split planner for ratios 1
\* and 2 on SM120, then runs the original one.
BuildMetadata(p, ratio) ==
  /\ state[p]["metadata"] = "loaded"
  /\ objects' = [objects EXCEPT ![p] = @ \cup
       {[module |-> "metadata", ratio |-> ratio, replaced |-> patched[p]["metadata"],
         forced |-> patched[p]["metadata"] /\ sm120 /\ ratio \in {1, 2}]}]
  /\ UNCHANGED <<started, metaPath, state, loader, patched, sm120, imports>>

HookNext ==
  \E p \in Processes :
    \/ StartInterpreter(p)
    \/ \E m \in Modules : FindSpec(p, m) \/ Exec(p, m) \/ Patch(p, m) \/ ImportFails(p, m)
    \/ BuildLayer(p)
    \/ \E ratio \in Ratios : BuildMetadata(p, ratio)

HookSpec == HookInit /\ [][HookNext]_hookVars
-----------------------------------------------------------------------------
(* Properties                                                              *)

\* Types; EngramFinder is the first finder of a process that has one, and only
\* a module that it found is patched (sitecustomize.py:38-42).
HookTypeOK ==
  /\ started \in [Processes -> BOOLEAN]
  /\ \A p \in Processes :
       metaPath[p] = IF started[p] /\ p \in Enabled THEN <<"engram", "path">> ELSE <<"path">>
  /\ state \in [Processes -> [Modules -> {"absent", "executing", "patching", "loaded"}]]
  /\ loader \in [Processes -> [Modules -> Finders]]
  /\ patched \in [Processes -> [Modules -> BOOLEAN]]
  /\ \A p \in Processes, m \in Modules :
       patched[p][m] \/ state[p][m] = "patching" => loader[p][m] = "engram"
  /\ \A p \in Processes : objects[p] \subseteq Objects
  /\ sm120 \in BOOLEAN
  /\ imports \in [Processes -> 0..MaxImports]

\* sitecustomize.py:1, "in every serving worker, only when explicitly enabled":
\* whichever thread builds an object, and however often an import had to be
\* repeated, the object is built by the hook in an enabled process and by the
\* original code elsewhere; and the split planner is forced where its kernel
\* needs it (20-28), and nowhere else.
HooksApplied ==
  \A p \in Processes : \A o \in objects[p] :
    /\ o.replaced <=> p \in Enabled
    /\ o.forced <=> p \in Enabled /\ sm120 /\ o.module = "metadata" /\ o.ratio \in {1, 2}
=============================================================================
