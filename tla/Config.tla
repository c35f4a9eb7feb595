------------------------------- MODULE Config -------------------------------
(***************************************************************************)
(* mjv_config.c: the linked list of sources that is built from the         *)
(* elements of a configuration file, walked by the programs and destroyed  *)
(* with the configuration. Nodes are numbered in the order in which they   *)
(* are allocated; the number stands for the source the node points to, too.*)
(***************************************************************************)
EXTENDS Integers, Sequences, SequencesExt

CONSTANT Elements       \* how many elements the list "sources" of the file has

ConfigAssumption == Elements \in Nat

ASSUME ConfigAssumption

NULL == 0

Nodes == 1 .. Elements

VARIABLES
  pc,               \* what is done to the configuration
  i,                \* the element of the file that is looked at
  allocated,        \* how many nodes were allocated
  next,             \* next of each node
  sources,          \* c->sources
  iter,             \* c->iter
  s,                \* the local variable of mjv_config_destroy()
  freed,            \* the nodes that were freed
  destroyed,        \* history: the sources destroyed, in order
  visited           \* history: what the walk under way has returned

vars == <<pc, i, allocated, next, sources, iter, s, freed, destroyed, visited>>
list == <<allocated, next, sources>>

Init ==
  /\ pc = "read"
  /\ i = 1
  /\ allocated = 0
  /\ next = [n \in Nodes |-> NULL]
  /\ sources = NULL
  /\ iter = NULL
  /\ s = NULL
  /\ freed = {}
  /\ destroyed = <<>>
  /\ visited = <<>>

Goes(from, to) == pc = from /\ pc' = to

\* mjv_config_destroy() is called.
Destroy(from) ==
  /\ Goes(from, "destroy")
  /\ s' = sources
  /\ UNCHANGED <<i, list, iter, freed, destroyed, visited>>

\* The file cannot be read, or names no sources.
ReadFails == Destroy("read")

GetSources ==
  /\ Goes("read", "get_sources")
  /\ iter' = sources
  /\ UNCHANGED <<i, list, s, freed, destroyed, visited>>

\* A slip: the loop runs once too often.
MoreElements_Inclusive == i <= Elements + 1

MoreElements == i <= Elements

\* An element without a type, or of one that is not known.
SkipElement ==
  /\ MoreElements
  /\ Goes("get_sources", "get_sources")
  /\ i' = i + 1
  /\ UNCHANGED <<list, iter, s, freed, destroyed, visited>>

\* A slip: the node is hung behind the first one.
AddSource_KeepIter ==
  /\ MoreElements
  /\ Goes("get_sources", "get_sources")
  /\ i' = i + 1
  /\ allocated' = allocated + 1
  /\ IF iter = NULL
       THEN sources' = allocated + 1 /\ iter' = allocated + 1 /\ UNCHANGED next
       ELSE next' = [next EXCEPT ![iter] = allocated + 1] /\ UNCHANGED <<sources, iter>>
  /\ UNCHANGED <<s, freed, destroyed, visited>>

AddSource ==
  /\ MoreElements
  /\ Goes("get_sources", "get_sources")
  /\ i' = i + 1
  /\ allocated' = allocated + 1
  /\ IF iter = NULL
       THEN sources' = allocated + 1 /\ UNCHANGED next
       ELSE next' = [next EXCEPT ![iter] = allocated + 1] /\ UNCHANGED sources
  /\ iter' = allocated + 1
  /\ UNCHANGED <<s, freed, destroyed, visited>>

\* The source or its node cannot be created; what there is of it is destroyed.
CreateFails ==
  /\ MoreElements
  /\ Goes("get_sources", "err")
  /\ iter' = sources
  /\ UNCHANGED <<i, list, s, freed, destroyed, visited>>

\* An element of the type file that names no file: strdup() is given NULL, and
\* reading it ends the process.
NoFile ==
  /\ MoreElements
  /\ Goes("get_sources", "fault")
  /\ UNCHANGED <<i, list, iter, s, freed, destroyed, visited>>

GotSources ==
  /\ ~MoreElements
  /\ Goes("get_sources", "ready")
  /\ UNCHANGED <<i, list, iter, s, freed, destroyed, visited>>

\* One turn of the loop that destroys the sources found thus far.
DestroyFound ==
  /\ iter # NULL
  /\ Goes("err", "err")
  /\ destroyed' = Append(destroyed, iter)
  /\ freed' = freed \cup {iter}
  /\ iter' = next[iter]
  /\ UNCHANGED <<i, list, s, visited>>

\* mjv_config_get_sources() returns false, and the configuration is destroyed.
GetSourcesFails == iter = NULL /\ Destroy("err")

\* A slip: the walk starts where the last one ended.
SourceFirst_KeepIter ==
  /\ Goes("ready", "walk")
  /\ UNCHANGED iter
  /\ visited' = IF iter = NULL THEN <<>> ELSE <<iter>>
  /\ UNCHANGED <<i, list, s, freed, destroyed>>

\* mjv_config_source_first() and mjv_config_source_next(), as the loops of the
\* programs call them; a loop may break off.
SourceFirst ==
  /\ Goes("ready", "walk")
  /\ iter' = IF sources = NULL THEN iter ELSE sources
  /\ visited' = IF sources = NULL THEN <<>> ELSE <<sources>>
  /\ UNCHANGED <<i, list, s, freed, destroyed>>

SourceNext ==
  /\ visited # <<>> /\ iter # NULL
  /\ Goes("walk", "walk")
  /\ iter' = next[iter]
  /\ visited' = IF next[iter] = NULL THEN visited ELSE Append(visited, next[iter])
  /\ UNCHANGED <<i, list, s, freed, destroyed>>

EndWalk ==
  /\ Goes("walk", "ready")
  /\ visited' = <<>>
  /\ UNCHANGED <<i, list, iter, s, freed, destroyed>>

DestroyConfig == Destroy("ready")

\* One turn of the loop of mjv_config_destroy(). What it does with a node that
\* was freed before is undefined.
DestroySource ==
  /\ s # NULL
  /\ s \notin freed
  /\ Goes("destroy", "destroy")
  /\ destroyed' = Append(destroyed, s)
  /\ freed' = freed \cup {s}
  /\ s' = next[s]
  /\ UNCHANGED <<i, list, iter, visited>>

Destroyed ==
  /\ s = NULL
  /\ Goes("destroy", "gone")
  /\ UNCHANGED <<i, list, iter, s, freed, destroyed, visited>>

Next ==
  \/ ReadFails \/ GetSources
  \/ SkipElement \/ AddSource \/ CreateFails \/ NoFile \/ GotSources
  \/ DestroyFound \/ GetSourcesFails
  \/ SourceFirst \/ SourceNext \/ EndWalk
  \/ DestroyConfig \/ DestroySource \/ Destroyed

Spec == Init /\ [][Next]_vars

-----------------------------------------------------------------------------
(* Properties.                                                             *)

\* The type of every variable.
TypeOK ==
  /\ pc \in {"read", "get_sources", "err", "ready", "walk", "destroy", "gone", "fault"}
  /\ i \in 1 .. Elements + 1
  /\ allocated \in 0 .. Elements
  /\ next \in [Nodes -> Nodes \cup {NULL}]
  /\ {sources, iter, s} \subseteq Nodes \cup {NULL}
  /\ freed \subseteq Nodes
  /\ destroyed \in Seq(Nodes)
  /\ visited \in Seq(Nodes)

\* A source is destroyed once, and no walk of the list reaches a node that has
\* been freed ("Destroy all sources found thus far": once they are destroyed,
\* the configuration has none).
SourcesDestroyedOnce ==
  /\ IsInjective(destroyed)
  /\ s \notin freed
  /\ pc = "walk" => iter \notin freed

\* When the configuration is gone, so is every source that was created. (After a
\* failure behind other sources its destruction is not got through: see
\* SourcesDestroyedOnce.)
NoSourceLeft == pc = "gone" => Range(destroyed) = 1 .. allocated

\* A walk returns the sources in the order of the file, and when it has ended
\* by itself it has returned every one of them, however the walk before ended.
WalkReturnsAll ==
  pc = "walk" =>
    /\ visited = [n \in 1 .. Len(visited) |-> n]
    /\ visited = <<>> \/ iter = NULL => Len(visited) = allocated
==============================================================================
