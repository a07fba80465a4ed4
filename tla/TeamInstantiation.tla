-------------------------- MODULE TeamInstantiation --------------------------
(***************************************************************************)
(* From team.yaml to agents that run: TeamLoader reads and validates the   *)
(* file, TeamInstanciator opens the checkpointer, builds the graph of the  *)
(* entrypoint and writes the runtime manifest, and AgentGraphRegistry      *)
(* builds the other graphs when they are first asked for.  The file and    *)
(* the skills on disk change behind the program, and nothing is built      *)
(* again because of that.                                                  *)
(*                                                                         *)
(* A name is a string, Fold its casefold and Slug its slug.  The checks of *)
(* a single field (a number, a directory, a transport) are one flag of the *)
(* written file.                                                           *)
(***************************************************************************)
EXTENDS Naturals, FiniteSets, SequencesExt

CONSTANTS
  Written,       \* the team files that can be on disk
  Fold,          \* the casefold of a name
  Slug,          \* the slug of an agent's name
  Skills,        \* the ids of skills
  Disks,         \* the skills that can be in the directories at first
  RuntimeLimits  \* bounds: edits of the file, changes of skills, failures to open a database

Roots == {"user", "project", "package", "team", "extra"}  \* directories of skills

Fields == {"toolsets", "skills", "model", "forgets"}  \* of a document and its overrides

WrittenAgent(entry) ==
  /\ DOMAIN entry.document = Fields /\ DOMAIN entry.overrides \subseteq Fields
  /\ entry.document.toolsets \in Seq(STRING)
  /\ "toolsets" \in DOMAIN entry.overrides => entry.overrides.toolsets \in Seq(STRING)

ASSUME InstantiationAssumption ==
  /\ \A w \in Written :
       /\ {"order", "agents", "relations", "targets", "conversation", "toolsets", "sources",
           "locked"} \subseteq DOMAIN w
       /\ w.order \in Seq(DOMAIN w.agents) /\ ToSet(w.order) = DOMAIN w.agents
       /\ \A a \in DOMAIN w.agents : WrittenAgent(w.agents[a])
       /\ w.relations \in
            Seq([id : STRING, from : STRING, to : STRING, type : STRING, tool : STRING])
       /\ \A name \in DOMAIN w.toolsets : w.toolsets[name] \in
            Seq([kind : {"name", "custom", "mcp"}, of : STRING])
       /\ w.sources \in Seq(Roots) /\ w.locked \subseteq Skills
  /\ \A d \in Disks : DOMAIN d \subseteq Roots /\ \A root \in DOMAIN d : d[root] \subseteq Skills
  /\ RuntimeLimits \subseteq [edits : Nat, changes : Nat, errors : Nat]

VARIABLES
  file,    \* the team file on disk
  disk,    \* the skills in the directories that exist
  stage,   \* how far TeamInstanciator.instantiate is
  team,    \* the TeamDefinition loaded
  graphs,  \* _graphs of the AgentGraphRegistry
  handle,  \* what the CheckpointerHandle holds open
  lanes,   \* team_runtime_lanes, in the sqlite file
  failure, \* the last exception: explained by the program, or not
  left     \* what is left of the bounds

teamVars == <<file, disk, stage, team, graphs, handle, lanes, failure, left>>

NoFailure == "none"  \* no exception

\* The first exception of several steps.
FirstFailure(failures) ==
  LET raised == {i \in DOMAIN failures : failures[i] # NoFailure}
  IN IF raised = {} THEN NoFailure
     ELSE failures[CHOOSE i \in raised : \A j \in raised : i <= j]

Check(holds, exception) == IF holds THEN NoFailure ELSE exception

----------------------------------------------------------------------------
(* TeamLoader and TeamDefinition.from_mapping.                              *)

\* The agents of a mapping, with the keys of the team.yaml entry over the frontmatter.
Merged(entry) ==
  LET field(f) == IF f \in DOMAIN entry.overrides THEN entry.overrides[f] ELSE entry.document[f]
  IN [toolsets |-> field("toolsets"), skills |-> field("skills"), model |-> field("model"),
      forgets |-> field("forgets"), kind |-> entry.kind, entrypoint |-> entry.entrypoint,
      general |-> entry.general, participant |-> entry.participant, aliases |-> entry.aliases]

Participants(agents) == {a \in DOMAIN agents : agents[a].participant}

\* _case_insensitive_lookup leaves out a name that two ids fold to.
Alike(name, ids) == {a \in ids : Fold[a] = Fold[name]}

\* Mutation of Canonical: a name is kept as it is written.
KeptName(name, ids) == name

Canonical(name, ids) ==
  IF Cardinality(Alike(name, ids)) = 1 THEN CHOOSE a \in Alike(name, ids) : TRUE ELSE name

DefaultIds == <<"relation_001", "relation_002", "relation_003">>

CanonicalRelation(relation, index, ids) ==
  [relation EXCEPT !.id   = IF @ = "" THEN DefaultIds[index] ELSE @,
                   !.from = Canonical(@, ids),
                   !.to   = Canonical(@, ids)]

Definition(written) ==
  LET ids == DOMAIN written.agents
  IN [written EXCEPT
       !.agents    = [a \in ids |-> Merged(written.agents[a])],
       !.relations = [i \in DOMAIN @ |-> CanonicalRelation(@[i], i, ids)],
       !.targets   = [i \in DOMAIN @ |-> Canonical(@[i], Participants(written.agents))]]

----------------------------------------------------------------------------
(* TeamValidator.                                                           *)

CustomToolsValid(t) == \A c \in DOMAIN t.custom : t.custom[c].exposes # {}

McpServersValid(t) == \A m \in DOMAIN t.mcp : t.mcp[m].whole \/ t.mcp[m].exposes # {}

ToolsetsValid(t) ==
  \A name \in DOMAIN t.toolsets :
    /\ t.toolsets[name] # <<>>
    /\ \A ref \in ToSet(t.toolsets[name]) :
         /\ ref.kind = "custom" => ref.of \in DOMAIN t.custom
         /\ ref.kind = "mcp" => ref.of \in DOMAIN t.mcp

AgentsValid(t) ==
  LET ids == DOMAIN t.agents
  IN /\ ids # {}
     /\ \A a, b \in ids : Fold[a] = Fold[b] => a = b
     /\ Cardinality({a \in ids : t.agents[a].entrypoint}) = 1
     /\ \A a \in ids :
          /\ t.agents[a].kind \in {"deepagent", "subagent"}
          /\ t.agents[a].general => t.agents[a].kind = "deepagent"
          /\ ToSet(t.agents[a].toolsets) \subseteq DOMAIN t.toolsets

RelationsValid(t) ==
  \A r \in ToSet(t.relations) :
    /\ Alike(r.from, DOMAIN t.agents) # {}
    /\ Alike(r.to, DOMAIN t.agents) # {}
    /\ r.type \in {"tool", "subagent"}
    /\ r.type = "tool" => r.tool # ""
    /\ r.type = "subagent" => r.tool = ""

\* An alias is nobody else's name or alias, and once in its own list.
AliasesValid(t) ==
  LET names == Participants(t.agents)
      folded(a) == [i \in DOMAIN t.agents[a].aliases |-> Fold[t.agents[a].aliases[i]]]
  IN \A a \in names :
       /\ \A i, j \in DOMAIN folded(a) : folded(a)[i] = folded(a)[j] => i = j
       /\ \A b \in names \ {a} :
            ToSet(folded(a)) \intersect (ToSet(folded(b)) \union {Fold[b]}) = {}

ConversationValid(t) ==
  t.conversation =>
    /\ \A a \in Participants(t.agents) : t.agents[a].kind = "deepagent"
    /\ \A target \in ToSet(t.targets) : Alike(target, Participants(t.agents)) # {}
    /\ AliasesValid(t)

Valid(t) ==
  /\ t.wellFormed
  /\ CustomToolsValid(t) /\ McpServersValid(t) /\ ToolsetsValid(t)
  /\ AgentsValid(t) /\ RelationsValid(t) /\ ConversationValid(t)

\* RuntimeConfigurationValidator: the variable the default model is in has to be set.
Configured(t) ==
  t.model = "unset" => \A a \in DOMAIN t.agents : t.agents[a].model # "inherit"

\* What MentionParser makes of a name.
MentionedBy(t, name) ==
  {a \in Participants(t.agents) :
     Fold[name] \in {Fold[a]} \union {Fold[alias] : alias \in ToSet(t.agents[a].aliases)}}

----------------------------------------------------------------------------
(* SkillSourceResolver and SkillsResolver.                                  *)

\* The sources of resolve_team_sources, in its order: those of the user, the project, the
\* installed packages, the team, and the ones team.yaml lists.
Root(t, n) == IF n <= 4 THEN <<"user", "project", "package", "team">>[n] ELSE t.sources[n - 4]

\* A source has its place for a name; that of the packages gives the skills they lock.
Source(t, n) ==
  [root |-> Root(t, n), path |-> <<n>>, whole |-> n # 3, ids |-> IF n = 3 THEN t.locked ELSE {}]

\* _dedupe_and_virtualize: of the sources that exist, the last one of a directory stays.
TeamSources(t) ==
  LET found == {n \in 1 .. 4 + Len(t.sources) :
                  (n = 3 => t.locked # {}) /\ Root(t, n) \in DOMAIN disk}
  IN {Source(t, n) : n \in {m \in found : \A k \in found : Root(t, k) = Root(t, m) => k <= m}}

\* The skills of a directory a source gives.
Gives(source) ==
  IF source.root \notin DOMAIN disk THEN {}
  ELSE IF source.whole THEN disk[source.root] ELSE disk[source.root] \intersect source.ids

Missing(t, a) ==
  IF t.agents[a].skills.mode # "only" THEN {}
  ELSE t.agents[a].skills.ids \ UNION {Gives(s) : s \in TeamSources(t)}

\* Mutation of VirtualPath: the path of a selection is the path of the source.
SharedPath(a, source) == source.path

VirtualPath(a, source) == <<Slug[a]>> \o source.path

Selection(t, a, source) ==
  LET chosen == t.agents[a].skills.ids
  IN [root |-> source.root, path |-> VirtualPath(a, source), whole |-> FALSE,
      ids  |-> IF source.whole THEN chosen ELSE chosen \intersect source.ids]

\* resolve_agent_sources of an agent that misses no skill.
AgentSources(t, a) ==
  LET skills == t.agents[a].skills
  IN CASE skills.mode = "none" -> {}
       [] skills.mode = "only" ->
            {Selection(t, a, s) : s \in {x \in TeamSources(t) : Gives(x) \intersect skills.ids # {}}}
       [] OTHER -> TeamSources(t)

Paths(t, a) == {s.path : s \in AgentSources(t, a)}

SkillsFailure(t, a) == Check(Missing(t, a) = {}, "refused")

\* SkillsResolver: the sources the model is told about.
Listed(t, a) ==
  IF t.agents[a].skills.mode = "null" THEN {} ELSE Paths(t, a)

----------------------------------------------------------------------------
(* BackendFactory, PermissionsFactory and ToolVisibilityFactory.            *)

\* _skill_routes: the sources of all agents, a later one over an earlier one of its path.
Routes(t) ==
  LET having(path) == {i \in DOMAIN t.order : path \in Paths(t, t.order[i])}
      last(path)   == CHOOSE i \in having(path) : \A j \in having(path) : j <= i
  IN [path \in UNION {Paths(t, a) : a \in ToSet(t.order)} |->
        CHOOSE s \in AgentSources(t, t.order[last(path)]) : s.path = path]

HasToolset(t, a, name) == Contains(t.agents[a].toolsets, name)

RunsShell(t, a) == t.local /\ HasToolset(t, a, "shell")

\* What an agent may read: everything, whole sources, single skills.
Permissions(t, a) ==
  IF HasToolset(t, a, "scoped_read_tools")
    THEN [all |-> TRUE, sources |-> {}, skills |-> {}]
    ELSE LET sources == AgentSources(t, a)
         IN [all     |-> FALSE,
             sources |-> {s.path : s \in {x \in sources : x.whole}},
             skills  |-> UNION {{s.path} \X Gives(s) : s \in {x \in sources : ~x.whole}}]

ReadTools  == {"ls", "read_file", "glob", "grep"}
WriteTools == {"write_file", "edit_file"}

\* Mutation of ShellVisible: the execution backend is not asked.
ShellOfToolset(t, a) == HasToolset(t, a, "shell")

ShellVisible(t, a) == RunsShell(t, a)

\* The builtin tools that excluded_tools leaves.
Visible(t, a, delegates) ==
  (IF HasToolset(t, a, "scoped_read_tools") THEN ReadTools
   ELSE IF AgentSources(t, a) # {} THEN {"read_file"} ELSE {})
  \union (IF HasToolset(t, a, "write") THEN WriteTools ELSE {})
  \union (IF ShellVisible(t, a) THEN {"execute"} ELSE {})
  \union (IF delegates THEN {"task"} ELSE {})

----------------------------------------------------------------------------
(* ToolsetResolver, the tool factories and ToolNameValidator.               *)

BuiltinTools    == {"web_search", "fetch_url", "write_file", "edit_file", "execute"}
SelfContained   == {"web_search", "fetch_url"}
DeepagentsTools == ReadTools \union WriteTools \union {"execute"}

References(t, a) == UNION {ToSet(t.toolsets[name]) : name \in ToSet(t.agents[a].toolsets)}

\* _should_include_reference and _should_include_resolved_tool.
IncludesName(name, all) == all \/ name \in SelfContained
IncludesTool(name, all) == all \/ name \notin DeepagentsTools

\* validate_returned_tools: a factory returns what it exposes.
CustomFailure(custom) == Check(ToSet(custom.returns) = custom.exposes, "refused")

\* _filter_exposed_tools: the server offers what is exposed.
McpFailure(mcp) == Check(mcp.exposes \subseteq ToSet(mcp.offers), "refused")

McpTools(mcp) == SelectSeq(mcp.offers, LAMBDA name : mcp.whole \/ name \in mcp.exposes)

\* BuiltinToolFactory looks a name up.
BuiltinFailure(name) == Check(name \in BuiltinTools, "KeyError")

ReferenceFailure(t, ref, all) ==
  CASE ref.kind = "custom" -> CustomFailure(t.custom[ref.of])
    [] ref.kind = "mcp"    -> McpFailure(t.mcp[ref.of])
    [] OTHER -> IF IncludesName(ref.of, all) THEN BuiltinFailure(ref.of) ELSE NoFailure

ToolsOf(t, ref, all) ==
  LET included(name) == IncludesTool(name, all)
  IN CASE ref.kind = "custom" -> SelectSeq(t.custom[ref.of].returns, included)
       [] ref.kind = "mcp" -> SelectSeq(McpTools(t.mcp[ref.of]), included)
       [] OTHER -> IF IncludesName(ref.of, all) THEN <<ref.of>> ELSE <<>>

ToolsetFailure(t, name, all) ==
  FirstFailure([i \in DOMAIN t.toolsets[name] |-> ReferenceFailure(t, t.toolsets[name][i], all)])

ToolsFailure(t, a, all) ==
  LET names == t.agents[a].toolsets
  IN FirstFailure([i \in DOMAIN names |-> ToolsetFailure(t, names[i], all)])

Tools(t, a, all) ==
  LET names    == t.agents[a].toolsets
      of(name) == [i \in DOMAIN t.toolsets[name] |-> ToolsOf(t, t.toolsets[name][i], all)]
  IN FlattenSeq([i \in DOMAIN names |-> FlattenSeq(of(names[i]))])

RelationsFrom(t, a, type) == {r \in ToSet(t.relations) : r.from = a /\ r.type = type}

\* RelationToolFactory: checkpoint_metadata_factory looks the target up.
RelationToolsFailure(t, a) ==
  Check(\A r \in RelationsFrom(t, a, "tool") : r.to \in DOMAIN t.agents, "KeyError")

RelationTools(t, a) ==
  LET relations == SelectSeq(t.relations, LAMBDA r : r \in RelationsFrom(t, a, "tool"))
  IN [i \in DOMAIN relations |-> relations[i].tool]

UniqueNames(names) == Check(Cardinality(ToSet(names)) = Len(names), "refused")

ModelFailure(t, a) == Check(t.agents[a].model = "inherit" => t.model # "absent", "refused")

----------------------------------------------------------------------------
(* SubagentFactory, DeepAgentFactory and AgentGraphRegistry.                *)

\* AgentRuntimeResolver.
IsLangchain(t, a) ==
  /\ t.agents[a].kind = "subagent"
  /\ ToSet(t.agents[a].toolsets) \subseteq {"scoped_read_tools", "web"}

LangchainFailure(t, a) ==
  FirstFailure(<<ToolsFailure(t, a, TRUE), UniqueNames(Tools(t, a, TRUE)), ModelFailure(t, a)>>)

\* The permissions and the visibility of read_file look at the skills when the agent has
\* no read tools of its own.
PermissionsFailure(t, a) ==
  IF HasToolset(t, a, "scoped_read_tools") THEN NoFailure ELSE SkillsFailure(t, a)

ListedFailure(t, a) == IF t.agents[a].skills.mode = "null" THEN NoFailure ELSE SkillsFailure(t, a)

SpecFailure(t, a) ==
  FirstFailure(<<ToolsFailure(t, a, FALSE), RelationToolsFailure(t, a),
                 UniqueNames(Tools(t, a, FALSE) \o RelationTools(t, a)),
                 PermissionsFailure(t, a), ListedFailure(t, a)>>)

SubagentFailure(t, a) ==
  IF a \notin DOMAIN t.agents THEN "KeyError"
  ELSE IF IsLangchain(t, a) THEN LangchainFailure(t, a) ELSE SpecFailure(t, a)

Subagents(t, a) == {r.to : r \in RelationsFrom(t, a, "subagent")}

SubagentsFailure(t, a) ==
  FirstFailure([i \in DOMAIN t.relations |->
    IF t.relations[i] \in RelationsFrom(t, a, "subagent")
      THEN SubagentFailure(t, t.relations[i].to) ELSE NoFailure])

\* The backend resolves the skills of every agent of the team.
BackendFailure(t) == FirstFailure([i \in DOMAIN t.order |-> SkillsFailure(t, t.order[i])])

GraphFailure(t, a) ==
  FirstFailure(
    <<RelationToolsFailure(t, a), SubagentsFailure(t, a), ModelFailure(t, a),
      PermissionsFailure(t, a), ToolsFailure(t, a, FALSE),
      UniqueNames(Tools(t, a, FALSE) \o RelationTools(t, a)), BackendFailure(t),
      ListedFailure(t, a), Check(~t.agents[a].forgets, "refused")>>)

\* An agent of a graph: itself, a subagent, or the general purpose subagent.
Member(t, a, delegates, listed) ==
  [agent |-> a, visible |-> Visible(t, a, delegates), reads |-> Permissions(t, a),
   writes |-> HasToolset(t, a, "write"), listed |-> listed]

Delegates(t, a) == Subagents(t, a) # {} \/ t.agents[a].general

\* The graph of _create_graph, and the skills that were on disk then.
Graph(t, a) ==
  [of      |-> a,
   shell   |-> RunsShell(t, a),
   routes  |-> Routes(t),
   built   |-> disk,
   members |-> {Member(t, a, Delegates(t, a), Listed(t, a))}
               \union {Member(t, b, FALSE, Listed(t, b)) :
                         b \in {x \in Subagents(t, a) : ~IsLangchain(t, x)}}
               \union (IF t.agents[a].general THEN {Member(t, a, FALSE, {})} ELSE {})]

----------------------------------------------------------------------------
(* TeamRuntimeManifestBuilder and TeamRuntimeManifestStore.                 *)

Entrypoint(t) == CHOOSE a \in DOMAIN t.agents : t.agents[a].entrypoint

Lane(kind, of, agent) == [kind |-> kind, of |-> of, agent |-> agent]

ManifestFailure(t) == Check(\A r \in ToSet(t.relations) : r.to \in DOMAIN t.agents, "KeyError")

MentionLanes(t) ==
  IF t.conversation THEN {Lane("mention", a, a) : a \in Participants(t.agents)} ELSE {}

SubagentLanes(t) ==
  {Lane("task-subagent-type", r.to, r.to) :
     r \in {x \in ToSet(t.relations) : x.type = "subagent"}}

\* One row for each relation, also when two have the same id.
RelationLanes(t) ==
  LET relations == SelectSeq(t.relations, LAMBDA r : r.type = "tool")
  IN [i \in DOMAIN relations |-> Lane("relation", relations[i].id, relations[i].to)]

Lanes(t) ==
  {Lane("entrypoint", Entrypoint(t), Entrypoint(t))} \union MentionLanes(t)
  \union ToSet(RelationLanes(t)) \union SubagentLanes(t)

RowsFailure(t) ==
  LET ids == [i \in DOMAIN RelationLanes(t) |-> RelationLanes(t)[i].of]
  IN Check(Cardinality(ToSet(ids)) = Len(ids), "IntegrityError")

\* Mutation of ReplacedLanes: the rows of the last manifest stay.
AddedLanes(t) == lanes \union Lanes(t)

\* _replace_lanes, in a transaction that a failure does not commit.
ReplacedLanes(t) == Lanes(t)

PersistFailure(t) == IF t.checkpointer = "sqlite" THEN RowsFailure(t) ELSE NoFailure

Persisted(t) == IF t.checkpointer = "sqlite" THEN ReplacedLanes(t) ELSE lanes

----------------------------------------------------------------------------
(* TeamInstanciator and InstantiatedTeam.                                   *)

NoTeam == [order |-> <<>>, conversation |-> FALSE]

InstantiationInit ==
  /\ file \in Written
  /\ disk \in Disks
  /\ stage   = "idle"
  /\ team    = NoTeam
  /\ graphs  = <<>>
  /\ handle  = {}
  /\ lanes   = {}
  /\ failure = NoFailure
  /\ left \in RuntimeLimits

\* TeamLoader.load and RuntimeConfigurationValidator.validate.
Load ==
  /\ stage = "idle"
  /\ LET t == Definition(file)
     IN \/ /\ Valid(t) /\ Configured(t)
           /\ team' = t /\ stage' = "loaded" /\ failure' = NoFailure
        \/ /\ ~(Valid(t) /\ Configured(t))
           /\ failure' = "refused"
           /\ UNCHANGED <<team, stage>>
  /\ UNCHANGED <<file, disk, graphs, handle, lanes, left>>

\* CheckpointerFactory.create: the connection, and the loop the saver runs in.
OpenCheckpointer ==
  /\ stage = "loaded"
  /\ team.checkpointer # "postgres"
  /\ handle' = IF team.checkpointer = "sqlite" THEN {"connection", "loop"} ELSE {}
  /\ stage'  = "opened"
  /\ UNCHANGED <<file, disk, team, graphs, lanes, failure, left>>

\* The saver cannot be set up: the loop and the connection are closed again.
CheckpointerFails ==
  /\ stage = "loaded"
  /\ \/ team.checkpointer = "postgres" /\ UNCHANGED left
     \/ /\ team.checkpointer = "sqlite"
        /\ left.errors > 0
        /\ left' = [left EXCEPT !.errors = @ - 1]
  /\ stage' = "idle" /\ failure' = "refused"
  /\ UNCHANGED <<file, disk, team, graphs, handle, lanes>>

\* Mutation of Closed: nothing is closed.
KeptOpen(resources) == resources

\* checkpointer_handle.close().
Closed(resources) == {}

\* The steps of instantiate that are in its try statement.
BuildFailure(t) == FirstFailure(<<GraphFailure(t, Entrypoint(t)), PersistFailure(t)>>)

\* The manifest is built before the try statement.
BuildFails ==
  /\ stage = "opened"
  /\ LET raised == FirstFailure(<<ManifestFailure(team), BuildFailure(team)>>)
     IN raised # NoFailure /\ failure' = raised
  /\ stage' = "idle"
  /\ handle' = IF ManifestFailure(team) = NoFailure THEN Closed(handle) ELSE handle
  /\ UNCHANGED <<file, disk, team, graphs, lanes, left>>

\* MentionAwareTeam cannot open its store; the manifest is already committed.
ConversationFails ==
  /\ stage = "opened"
  /\ ManifestFailure(team) = NoFailure /\ BuildFailure(team) = NoFailure
  /\ team.conversation /\ handle # {} /\ left.errors > 0
  /\ left'  = [left EXCEPT !.errors = @ - 1]
  /\ lanes' = Persisted(team)
  /\ stage' = "idle" /\ failure' = "refused" /\ handle' = Closed(handle)
  /\ UNCHANGED <<file, disk, team, graphs>>

Build ==
  /\ stage = "opened"
  /\ ManifestFailure(team) = NoFailure /\ BuildFailure(team) = NoFailure
  /\ stage'  = "ready"
  /\ graphs' = [a \in {Entrypoint(team)} |-> Graph(team, a)]
  /\ lanes'  = Persisted(team)
  /\ UNCHANGED <<file, disk, team, handle, failure, left>>

\* AgentGraphRegistry.graph of an agent that was not asked for before.
AskGraph(a) ==
  /\ stage = "ready" /\ a \notin DOMAIN graphs
  /\ LET raised == GraphFailure(team, a)
     IN \/ /\ raised = NoFailure
           /\ graphs' = [b \in DOMAIN graphs \union {a} |-> IF b = a THEN Graph(team, a) ELSE graphs[b]]
           /\ UNCHANGED failure
        \/ raised # NoFailure /\ failure' = raised /\ UNCHANGED graphs
  /\ UNCHANGED <<file, disk, stage, team, handle, lanes, left>>

\* InstantiatedTeam.close, once its conversation is idle.
CloseTeam ==
  /\ stage = "ready"
  /\ stage' = "idle" /\ graphs' = <<>> /\ handle' = Closed(handle)
  /\ UNCHANGED <<file, disk, team, lanes, failure, left>>

EditFile ==
  /\ left.edits > 0
  /\ left' = [left EXCEPT !.edits = @ - 1]
  /\ file' \in Written \ {file}
  /\ UNCHANGED <<disk, stage, team, graphs, handle, lanes, failure>>

\* A skill is removed from a directory or comes back.
ChangeSkill ==
  /\ left.changes > 0
  /\ left' = [left EXCEPT !.changes = @ - 1]
  /\ \E root \in DOMAIN disk, s \in Skills :
       disk' = [disk EXCEPT ![root] = IF s \in @ THEN @ \ {s} ELSE @ \union {s}]
  /\ UNCHANGED <<file, stage, team, graphs, handle, lanes, failure>>

\* The agents a router or a relation tool asks for.
Askable(t) ==
  (IF t.conversation THEN Participants(t.agents) ELSE {})
  \union {r.to : r \in {x \in ToSet(t.relations) : x.type = "tool"}}

----------------------------------------------------------------------------
(* Properties.                                                              *)

Stages == {"idle", "loaded", "opened", "ready"}

\* The types of the variables.
InstantiationTypeOK ==
  /\ file \in Written
  /\ DOMAIN disk \subseteq Roots /\ \A root \in DOMAIN disk : disk[root] \subseteq Skills
  /\ stage \in Stages
  /\ stage # "idle" => Valid(team)
  /\ DOMAIN graphs \subseteq ToSet(team.order)
  /\ handle \in {{}, {"connection", "loop"}}
  /\ failure \in {NoFailure, "refused", "KeyError", "IntegrityError"}

\* Names that the loader does not check: a tool of a subagent that langchain runs, and
\* the ids of relations.
NamesKnown(t) ==
  /\ \A a \in DOMAIN t.agents : IsLangchain(t, a) =>
       \A ref \in References(t, a) : ref.kind = "name" => ref.of \in BuiltinTools
  /\ RowsFailure(t) = NoFailure

\* A team the loader accepts is used without a KeyError or an IntegrityError, however its
\* names are spelled, when NamesKnown holds of it; and whatever name a message or a default
\* target uses is that of one participant.  TeamValidator compares folded names, and
\* AgentGraphRegistry, the manifest and the router use them as they are.
AcceptedTeamsResolve ==
  /\ (stage # "idle" \/ failure # NoFailure) /\ team # NoTeam /\ NamesKnown(team)
       => failure \in {NoFailure, "refused"}
  /\ stage # "idle" /\ team.conversation =>
       /\ ToSet(team.targets) \subseteq Participants(team.agents)
       /\ \A name \in DOMAIN Fold : Cardinality(MentionedBy(team, name)) <= 1

\* A team that is not in use holds no connection to the checkpoints and no loop: every
\* way instantiate fails after it opened them closes them (team_instanciator.py:132).
FailuresReleaseCheckpointer == stage = "idle" => handle = {}

\* The lanes in the sqlite file are those of the team in use, also after its relations and
\* participants were edited: the backend reads the threads of a conversation with them.
LanesAreTheTeams ==
  stage = "ready" /\ team.checkpointer = "sqlite" => lanes = Lanes(team)

\* The skills a graph shows under the sources the model is told about, as they are now.
Shown(graph, member) == {p \in member.listed \X Skills : p[2] \in Gives(graph.routes[p[1]])}

Readable(member, path, s) ==
  member.reads.all \/ path \in member.reads.sources \/ <<path, s>> \in member.reads.skills

SlugsDistinct(t) == \A a, b \in DOMAIN t.agents : Slug[a] = Slug[b] => a = b

\* The routes of a graph are those of all agents of its team.  An agent is shown the skills
\* it selected and no other, also after skills came to the directories; and it can read
\* what it is shown, unless the skills on disk changed after the graph was built.
SelectedSkillsAreListed ==
  \A a \in DOMAIN graphs : \A m \in graphs[a].members :
    LET chosen == team.agents[m.agent].skills
        shown  == Shown(graphs[a], m)
    IN SlugsDistinct(team) =>
         /\ chosen.mode = "only" => \A pair \in shown : pair[2] \in chosen.ids
         /\ graphs[a].built = disk =>
              /\ \A pair \in shown : Readable(m, pair[1], pair[2])
              /\ chosen.mode = "only" /\ m.listed # {} => {pair[2] : pair \in shown} = chosen.ids

\* A builtin tool the model sees does something: reading finds something the permissions
\* allow, and the shell of an agent of its own graph is there.  Visibility, permissions and
\* backend are computed in three factories.
VisibleToolsWork ==
  \A a \in DOMAIN graphs : \A m \in graphs[a].members :
    /\ m.visible \intersect (ReadTools \ {"read_file"}) # {} => m.reads.all
    /\ "read_file" \in m.visible =>
         \/ m.reads.all \/ m.reads.sources \union m.reads.skills # {}
         \/ \E s \in team.locked : s \notin graphs[a].built["package"]
    /\ "execute" \in m.visible /\ m.agent = a => graphs[a].shell
    /\ m.visible \intersect WriteTools # {} => m.writes
=============================================================================
