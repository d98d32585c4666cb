---------------------------- MODULE ToolRegistry ----------------------------
(***************************************************************************)
(* The name-keyed collection of tools an agent dispatches through          *)
(* (src/tool/registry.cpp).  A registry is a function from the registered  *)
(* names to the tools registered under them.  The views handed to the      *)
(* provider are references into the registry's nodes, so a view stands for *)
(* what the node held when the view was taken.                             *)
(***************************************************************************)

EmptyRegistry == [name \in {} |-> {}]

RegistryAssign(registry, name, tool) ==                                   \* mutant
  [n \in DOMAIN registry \cup {name} |-> IF n = name THEN tool ELSE registry[n]]

\* unordered_map::emplace: a name that is taken keeps its first tool
RegistryAdd(registry, name, tool) ==
  [n \in DOMAIN registry \cup {name} |->
     IF n \in DOMAIN registry THEN registry[n] ELSE tool]

RegistryHas(registry, name) == name \in DOMAIN registry

\* one view per node
Views(registry) == [name \in DOMAIN registry |-> registry[name]]

\* the registries there can be
Registries(Names, Tools) == UNION {[D -> Tools] : D \in SUBSET Names}
=============================================================================
