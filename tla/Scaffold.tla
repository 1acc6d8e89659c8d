-------------------------------- MODULE Scaffold --------------------------------
(***************************************************************************)
(* The create-* commands, run one after the other on one working copy.     *)
(* Each is a list of writes to files, every one of which looks at what is  *)
(* there already; it may be interrupted between two of them.  The imports  *)
(* of core/api_versions.py are edited as lines of text and then rearranged *)
(* by ruff, so they are modelled as the statements they are made of.       *)
(***************************************************************************)
EXTENDS Naturals, Sequences, FiniteSets

CONSTANTS
  Entities,      \* the components one can ask for
  DomainOf,      \* DomainOf[e]: the domain of e
  Given,         \* entities the project comes with, wired by hand
  Layers,        \* LAYER_GENERATORS, in order
  Order,         \* the domains as ruff sorts their imports
  Fits           \* router names that fit on one line of an import

Domains == {DomainOf[e] : e \in Entities}
Elements(s) == {s[i] : i \in 1 .. Len(s)}

ASSUME ScaffoldAssumption ==
  /\ IsFiniteSet(Entities)
  /\ Given \subseteq Entities /\ Cardinality(Given) = 1
  /\ Layers \in Seq(Elements(Layers)) /\ Order \in Seq(Domains)
  /\ Elements(Order) = Domains /\ Len(Order) = Cardinality(Domains)
  /\ Fits \in Nat \ {0}

VARIABLES
  packages,      \* domains whose directories exist
  pyproject,     \* domains that pyproject.toml lists
  files,         \* <<entity, layer>> pairs whose module exists
  exports,       \* those that their package's __init__ imports
  dependencies,  \* entities with factories in their dependencies.py
  models,        \* entities whose model core/models.py imports
  imports,       \* the router imports of core/api_versions.py
  mounts,        \* its include_router lines
  broken,        \* whether it is no longer Python
  entity, todo,  \* the command in progress: its entity and the steps it has left
  touched,       \* whether it has written core/api_versions.py
  finished,      \* history: entities for which create-all has reported success
  before         \* history: the project when a repeated create-all started

projectVars == <<packages, pyproject, files, exports, dependencies, models,
                 imports, mounts, broken>>
vars == <<packages, pyproject, files, exports, dependencies, models, imports,
          mounts, broken, entity, todo, touched, finished, before>>

LayerSet == Elements(Layers)
Statements == [from : Domains, names : SUBSET Entities]

TypeOK ==
  /\ packages \in SUBSET Domains /\ pyproject \in SUBSET packages
  /\ files \in SUBSET (Entities \X LayerSet) /\ exports \in SUBSET files
  /\ dependencies \in SUBSET Entities /\ models \in SUBSET Entities
  /\ imports \in Seq(Statements)
  /\ \A i \in 1 .. Len(imports) : imports[i].names # {}
  /\ mounts \in Seq(Entities)
  /\ broken \in BOOLEAN /\ touched \in BOOLEAN
  /\ entity \in Entities
  /\ finished \in SUBSET (Entities \ Given)

Init ==
  /\ packages = {DomainOf[e] : e \in Given} /\ pyproject = packages
  /\ files = Given \X LayerSet /\ exports = files
  /\ dependencies = Given /\ models = Given
  /\ \E g \in Given : /\ imports = <<[from |-> DomainOf[g], names |-> {g}]>>
                      /\ mounts = <<g>>
                      /\ entity = g
  /\ broken = FALSE
  /\ todo = <<>> /\ touched = FALSE
  /\ finished = {} /\ before = {}

-----------------------------------------------------------------------------
(* The commands *)

Step(op) == [op |-> op, layer |-> "none"]
LayerSteps(l) == <<[op |-> "write", layer |-> l], [op |-> "init", layer |-> l]>>

\* The steps of all layers, one generator after the other.
AllLayerSteps ==
  [i \in 1 .. 2 * Len(Layers) |->
     LayerSteps(Layers[(i + 1) \div 2])[IF i % 2 = 1 THEN 1 ELSE 2]]

DomainSteps == <<Step("packages"), Step("pyproject")>>

\* Mutant: the router is mounted before there is anything to mount.
AllStepsMountedEarly ==
  DomainSteps \o <<Step("router")>> \o AllLayerSteps
  \o <<Step("dependencies"), Step("model"), Step("format")>>

\* generate_all, then format_paths
AllSteps ==
  DomainSteps \o AllLayerSteps
  \o <<Step("dependencies"), Step("model"), Step("router"), Step("format")>>

\* All that the imports of s take from domain d
NamesFrom(s, d) == UNION {s[i].names : i \in {j \in 1 .. Len(s) : s[j].from = d}}

\* ruff leaves one import per domain, sorted.
Merged(s) ==
  [i \in 1 .. Len(Order) |-> [from |-> Order[i], names |-> NamesFrom(s, Order[i])]]

\* Mutant: a line is left for every domain.
SortedWithGaps(s) == Merged(s)

\* How many members of K are not after i.
Rank(K, i) == Cardinality({j \in K : j <= i})

Sorted(s) ==
  LET kept == {i \in 1 .. Len(Order) : NamesFrom(s, Order[i]) # {}}
  IN  [n \in 1 .. Cardinality(kept) |-> Merged(s)[CHOOSE i \in kept : Rank(kept, i) = n]]

Project == <<packages, pyproject, files, exports, dependencies, models, imports,
             mounts, broken>>

Starts(e, steps, repeated) ==
  /\ todo = <<>>
  /\ entity' = e /\ todo' = steps
  /\ touched' = FALSE
  /\ before' = IF repeated THEN {Project} ELSE {}
  /\ UNCHANGED <<projectVars, finished>>

\* It is a repetition also after other commands, unless one of those was
\* interrupted before ruff came to api_versions.py.
CreateAll(e) ==
  Starts(e, AllSteps, e \in finished /\ imports = Sorted(imports))

CreateDomain(e) == Starts(e, DomainSteps, DomainOf[e] \in pyproject)

\* create-entity, create-model, ..., create-route
CreateLayer(e, l) ==
  /\ DomainOf[e] \in packages
  /\ Starts(e, LayerSteps(l), FALSE)

CreateDependencies(e) ==
  /\ DomainOf[e] \in packages
  /\ Starts(e, <<Step("dependencies")>>, FALSE)

\* Ctrl-C, a field that does not parse, a file that cannot be written.
Interrupted ==
  /\ todo # <<>>
  /\ todo' = <<>>
  /\ before' = {}
  /\ UNCHANGED <<projectVars, entity, touched, finished>>

-----------------------------------------------------------------------------
(* The steps *)

Does(op) ==
  /\ todo # <<>> /\ Head(todo).op = op
  /\ todo' = Tail(todo)
  /\ UNCHANGED <<entity, before>>

\* The layers' packages and an empty dependencies.py
MakesPackages ==
  /\ Does("packages")
  /\ packages' = packages \cup {DomainOf[entity]}
  /\ UNCHANGED <<pyproject, files, exports, dependencies, models, imports,
                 mounts, broken, touched, finished>>

\* register_pyproject: all its lists in one write
RegistersPyproject ==
  /\ Does("pyproject")
  /\ pyproject' = pyproject \cup {DomainOf[entity]}
  /\ UNCHANGED <<packages, files, exports, dependencies, models, imports,
                 mounts, broken, touched, finished>>

\* write_new_file: a module that exists is left alone.
WritesLayer ==
  /\ Does("write")
  /\ files' = files \cup {<<entity, Head(todo).layer>>}
  /\ UNCHANGED <<packages, pyproject, exports, dependencies, models, imports,
                 mounts, broken, touched, finished>>

\* update_init: merges the module's names into what the package imports.
UpdatesInit ==
  /\ Does("init")
  /\ exports' = exports \cup {<<entity, Head(todo).layer>>}
  /\ UNCHANGED <<packages, pyproject, files, dependencies, models, imports,
                 mounts, broken, touched, finished>>

\* generate_dependencies: both factories, with the imports they need.
AddsDependencies ==
  /\ Does("dependencies")
  /\ dependencies' = dependencies \cup {entity}
  /\ UNCHANGED <<packages, pyproject, files, exports, models, imports, mounts,
                 broken, touched, finished>>

\* register_model: reads core/models.py as Python, appends a line.
RegistersModel ==
  /\ Does("model")
  /\ models' = models \cup {entity}
  /\ UNCHANGED <<packages, pyproject, files, exports, dependencies, imports,
                 mounts, broken, touched, finished>>

ImportLine(e) == [from |-> DomainOf[e], names |-> {e}]

\* Mutant: any import from the domain will do.
ImportedFromDomain(e) == \E st \in Elements(imports) : st.from = DomainOf[e]

\* Only an import by itself is recognised as the line in question.
Imported(e) == ImportLine(e) \in Elements(imports)

\* Mutant: whatever brings the import line brings an include line.
MountsWithAgain(e) == Append(mounts, e)

MountsWith(e) == IF e \in Elements(mounts) THEN mounts ELSE Append(mounts, e)

\* The line after the first line of the last import is inside its parentheses
\* if ruff has wrapped it.
LastIsWrapped == Cardinality(imports[Len(imports)].names) > Fits

\* register_router
RegistersRouter ==
  /\ Does("router")
  /\ IF Imported(entity) /\ entity \in Elements(mounts)
     THEN UNCHANGED <<imports, mounts, broken, touched>>
     ELSE /\ mounts' = MountsWith(entity)
          /\ imports' = IF Imported(entity) THEN imports
                        ELSE Append(imports, ImportLine(entity))
          /\ broken' = (broken \/ (~Imported(entity) /\ LastIsWrapped))
          /\ touched' = TRUE
  /\ UNCHANGED <<packages, pyproject, files, exports, dependencies, models, finished>>

\* format_paths: ruff rearranges api_versions.py if it was written and parses;
\* then create-all reports success.
Formats ==
  /\ Does("format")
  /\ imports' = IF touched /\ ~broken THEN Sorted(imports) ELSE imports
  /\ finished' = finished \cup {entity}
  /\ UNCHANGED <<packages, pyproject, files, exports, dependencies, models,
                 mounts, broken, touched>>

Next ==
  \/ \E e \in Entities \ Given :
       \/ CreateAll(e) \/ CreateDomain(e) \/ CreateDependencies(e)
       \/ \E l \in LayerSet : CreateLayer(e, l)
  \/ MakesPackages \/ RegistersPyproject \/ WritesLayer \/ UpdatesInit
  \/ AddsDependencies \/ RegistersModel \/ RegistersRouter \/ Formats
  \/ Interrupted

Spec == Init /\ [][Next]_vars

-----------------------------------------------------------------------------
(* Properties *)

Mounted(e) ==
  /\ e \in Elements(mounts)
  /\ \E st \in Elements(imports) : st.from = DomainOf[e] /\ e \in st.names

\* The modules, exports, factories and manifest entries that create-all makes for e.
Complete(e) ==
  /\ DomainOf[e] \in pyproject
  /\ {e} \X LayerSet \subseteq exports
  /\ e \in dependencies /\ e \in models

\* The layers that an entity's module of layer l imports, directly or not.
Uses(l) ==
  LayerSet \cap
    CASE l = "repositories" -> {"entities", "models"}
      [] l = "services" -> {"entities", "models", "repositories", "schemas"}
      [] l = "routes" ->
           {"entities", "models", "repositories", "schemas", "services"}
      [] OTHER -> {}

\* A repository takes the model's class from the package; the rest is taken from
\* the module that defines it.
Has(e, l) == <<e, l>> \in (IF l = "models" THEN exports ELSE files)

\* What is imported of e finds what it imports: each exported module, both
\* factories, which take the repository and the service, and the router, which
\* takes a factory.
Sound(e) ==
  /\ \A l \in LayerSet : <<e, l>> \in exports => \A k \in Uses(l) : Has(e, k)
  /\ e \in dependencies => \A k \in Uses("routes") : Has(e, k)
  /\ <<e, "routes">> \in exports => e \in dependencies

\* The entities that keep the whole of domain d from being imported: importing a
\* module runs its package's __init__, hence imports all that this exports.
HalfMade(d) == {e \in Entities : DomainOf[e] = d /\ ~Sound(e)}

Importable(e) == Complete(e) /\ HalfMade(DomainOf[e]) = {}

\* Some module of the domain imports something of e.
Begun(e) == e \in dependencies \/ \E l \in LayerSet : <<e, l>> \in exports

\* create_all.py:37, "Generate every layer ... and wire it into the app": once
\* create-all has reported success the entity is there, and neither other
\* commands nor interrupted ones take it away.  It can be imported as long as
\* create-all has been seen through for each entity begun in its domain.
FinishedIsWired ==
  \A e \in finished :
    /\ Complete(e) /\ Mounted(e) /\ ~broken
    /\ (\A x \in Entities : DomainOf[x] = DomainOf[e] /\ Begun(x)
                               => x \in finished \cup Given)
         => Importable(e)

\* A create-all that is interrupted anywhere leaves no entity mounted without its
\* own modules (the order of the steps in generate_all); what keeps a mounted
\* entity from being imported is always one of its domain that is not mounted.
MountedIsComplete ==
  \A e \in Elements(mounts) :
    Complete(e) /\ HalfMade(DomainOf[e]) \cap Elements(mounts) = {}

\* README.md:298: "Run either command again and it changes nothing."
SecondRunChangesNothing == todo = <<>> => before \subseteq {Project}
=============================================================================
