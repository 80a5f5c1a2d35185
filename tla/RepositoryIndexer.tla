-------------------------- MODULE RepositoryIndexer --------------------------
(***************************************************************************)
(* repository/indexer.py: the import graph of the Python files. The name   *)
(* of a module is a sequence of parts; an import is [level, module, name], *)
(* name "none" for "import module". A workspace maps each file to Absent,  *)
(* to Unreadable (cannot be opened), or to [lines, symbols, imports,       *)
(* parses, decodes]; what does not decode has none of the first three and  *)
(* does not parse.                                                         *)
(***************************************************************************)
EXTENDS Integers, Sequences, FiniteSets, SequencesExt

CONSTANTS Order,        \* all files, in the order of their paths
          ModuleOf,     \* _module_name(): no two files with one name
          Packages,     \* the files __init__.py
          Absent, Unreadable,
          MaxFiles,     \* max_files of the index
          MaxLines      \* stands for max_file_bytes

Files == ToSet(Order)

(* snapshot(): which files are indexed; the others leave only a mark. *)
Small(workspace, f) == Len(workspace[f].lines) <= MaxLines

Entries(workspace) ==
  LET indexable == {n \in DOMAIN Order : /\ workspace[Order[n]] \notin {Absent, Unreadable}
                                         /\ Small(workspace, Order[n])}
  IN  {Order[n] : n \in {n \in indexable : Cardinality({m \in indexable : m < n}) < MaxFiles}}

Fingerprint(workspace) ==
  [f \in Files |-> IF workspace[f] = Absent THEN Absent
                   ELSE IF f \in Entries(workspace) THEN workspace[f] ELSE Unreadable]

(* _collect_imports() *)
(* The empty name of a package in the root is split into one empty part.   *)
PackageOf(f) ==
  IF f \notin Packages THEN Front(ModuleOf[f])
  ELSE IF ModuleOf[f] = <<>> THEN <<"">> ELSE ModuleOf[f]

ImportBase(f, import) ==
  LET package == PackageOf(f)
      keep == Len(package) - (import.level - 1)
  IN  IF import.level = 0 THEN import.module
      ELSE SubSeq(package, 1, IF keep > 0 THEN keep ELSE 0) \o import.module

ImportedModules(f, import) ==
  LET base == ImportBase(f, import)
  IN  IF import.name = "none" THEN {import.module}
      ELSE IF base \in {<<>>, <<"">>} THEN {<<import.name>>}
      ELSE {base, Append(base, import.name)}

(* _resolve_module_path(): the longest known prefix, or else the only      *)
(* module that ends with the name.                                         *)
Resolve(entries, module) ==
  LET prefixes == {f \in entries : ModuleOf[f] # <<>> /\ IsPrefix(ModuleOf[f], module)}
      suffixes == {f \in entries : IsStrictSuffix(module, ModuleOf[f])}
  IN  IF prefixes # {} THEN {f \in prefixes : \A g \in prefixes : Len(ModuleOf[g]) <= Len(ModuleOf[f])}
      ELSE IF Cardinality(suffixes) = 1 THEN suffixes ELSE {}

(* build() *)
Edges(workspace) ==
  LET entries == Entries(workspace)
  IN  UNION { UNION { {<<f, g>> : g \in Resolve(entries, module) \ {f}} :
                      module \in UNION {ImportedModules(f, import) : import \in workspace[f].imports} } :
              f \in {f \in entries : workspace[f].parses} }

(* complete is no field of the code: see RepositoryContext.                *)
Build(workspace) ==
  [fingerprint |-> Fingerprint(workspace), edges |-> Edges(workspace), complete |-> TRUE]
=============================================================================
