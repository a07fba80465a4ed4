----------------------------- MODULE MCTeamRuntime -----------------------------
(* Instances of TeamRuntime for TLC: one team, the teams a few edits of its *)
(* file make of it, and the calls of two runs of its entrypoint.            *)
EXTENDS TeamRuntime

MCFold ==
  [Lead |-> "lead", lead |-> "lead", LEAD |-> "lead", Helper |-> "helper", HELPER |-> "helper",
   Writer |-> "writer", Boss |-> "boss", boss |-> "boss"]
MCSlug == [Lead |-> "lead", Helper |-> "helper", Writer |-> "writer", lead |-> "lead"]

Only(ids) == [mode |-> "only", ids |-> ids]
Mode(m)   == [mode |-> m, ids |-> {}]

Document(toolsets, skills) ==
  [toolsets |-> toolsets, skills |-> skills, model |-> "inherit", forgets |-> FALSE]
NoOverrides == [field \in {} |-> {}]
Agent(kind, entry, document) ==
  [kind |-> kind, entrypoint |-> entry, general |-> FALSE, participant |-> kind = "deepagent",
   aliases |-> <<>>, document |-> document, overrides |-> NoOverrides]

Ref(kind, of) == [kind |-> kind, of |-> of]
Relation(id, from, to, type, tool) ==
  [id |-> id, from |-> from, to |-> to, type |-> type, tool |-> tool]

Basic == [
  order     |-> <<"Lead", "Helper", "Writer">>,
  agents    |-> [Lead   |-> [Agent("deepagent", TRUE, Document(<<"scoped_read_tools", "shell">>, Mode("inherit")))
                              EXCEPT !.general = TRUE, !.aliases = <<"Boss">>],
                 Helper |-> Agent("deepagent", FALSE, Document(<<"tools">>, Only({"s"}))),
                 Writer |-> Agent("subagent", FALSE, Document(<<"write">>, Mode("none")))],
  relations |-> <<Relation("", "lead", "HELPER", "tool", "ask_helper"),
                  Relation("back", "Helper", "Lead", "tool", "ask_lead"),
                  Relation("", "Lead", "Writer", "subagent", "")>>,
  targets   |-> <<"lead">>, conversation |-> TRUE,
  toolsets  |-> [scoped_read_tools |-> <<Ref("name", "web_search")>>,
                 shell |-> <<Ref("name", "execute")>>, write |-> <<Ref("name", "write_file")>>,
                 web |-> <<Ref("name", "fetch_url")>>,
                 tools |-> <<Ref("custom", "c"), Ref("mcp", "m")>>],
  custom    |-> [c |-> [exposes |-> {"lint"}, returns |-> <<"lint">>]],
  mcp       |-> [m |-> [whole |-> TRUE, exposes |-> {}, offers |-> <<"find", "ls">>]],
  sources   |-> <<"extra">>, locked |-> {}, local |-> TRUE,
  checkpointer |-> "sqlite", model |-> "set", wellFormed |-> TRUE]

\* The file with another document, or with keys of team.yaml over it.
With(a, document)     == [Basic EXCEPT !.agents[a].document = document]
Overriding(a, fields) == [Basic EXCEPT !.agents[a].overrides = fields]
Toolsets(a, names)    == Overriding(a, [toolsets |-> names])

Refused == {
  [Basic EXCEPT !.wellFormed = FALSE],
  [Basic EXCEPT !.custom.c.exposes = {}],
  [Basic EXCEPT !.mcp.m.whole = FALSE],
  [Basic EXCEPT !.toolsets.web = <<>>],
  [Basic EXCEPT !.toolsets.web = <<Ref("custom", "d")>>],
  [Basic EXCEPT !.agents.Helper.kind = "robot"],
  [Basic EXCEPT !.agents.Helper.entrypoint = TRUE],
  [Basic EXCEPT !.agents.Writer.general = TRUE],
  [Basic EXCEPT !.relations[1].to = "boss"],
  [Basic EXCEPT !.relations[1].tool = ""],
  [Basic EXCEPT !.agents.Writer.participant = TRUE],
  [Basic EXCEPT !.targets = <<"Writer">>],
  [Basic EXCEPT !.agents.Helper.aliases = <<"boss">>],
  [Basic EXCEPT !.agents.Helper.aliases = <<"LEAD">>],
  [Basic EXCEPT !.order = <<"Lead", "Helper", "lead">>,
                !.agents = [Lead |-> @.Lead, Helper |-> @.Helper, lead |-> @.Writer]],
  [Basic EXCEPT !.model = "unset"],
  Toolsets("Helper", <<"missing">>)}

Failing == {
  [Basic EXCEPT !.checkpointer = "postgres"],
  [Basic EXCEPT !.model = "absent"],
  [Basic EXCEPT !.custom.c.returns = <<>>],
  [Basic EXCEPT !.mcp.m = [whole |-> FALSE, exposes |-> {"find"}, offers |-> <<"ls">>]],
  [Basic EXCEPT !.custom.c.returns = <<"lint", "lint">>],
  Overriding("Lead", [forgets |-> TRUE]),
  Toolsets("Writer", <<"web", "web">>),
  With("Writer", Document(<<"web">>, Only({"s"}))),
  [Toolsets("Writer", <<"web">>) EXCEPT !.toolsets.web = <<Ref("name", "unknown")>>],
  [Basic EXCEPT !.relations[1].id = "back"],
  [Basic EXCEPT !.relations[2].to = "Helper", !.relations[2].from = "Lead",
                !.relations[2].tool = "ask_helper"]}

Locked == [Basic EXCEPT !.checkpointer = "memory", !.locked = {"s"}, !.sources = <<"team", "extra">>]

Selecting == Overriding("Lead", [skills |-> Only({"s"}), toolsets |-> <<"shell", "web">>])

Accepted == {
  Basic, Locked, Selecting,
  [Basic EXCEPT !.conversation = FALSE, !.local = FALSE],
  [Basic EXCEPT !.relations = SubSeq(@, 3, 3), !.locked = {"s"}],
  [Basic EXCEPT !.agents.Helper.participant = FALSE, !.sources = <<>>],
  [Basic EXCEPT !.model = "unset", !.agents.Lead.overrides = [model |-> "own"],
                !.agents.Helper.overrides = [model |-> "own"],
                !.agents.Writer.overrides = [model |-> "own"]],
  [Toolsets("Lead", <<"write", "shell">>) EXCEPT !.local = FALSE],
  Overriding("Helper", [skills |-> Mode("null")]),
  Overriding("Helper", [skills |-> Mode("none"), toolsets |-> <<>>]),
  With("Writer", Document(<<"web">>, Mode("inherit"))),
  With("Writer", Document(<<"write">>, Only({"s"})))}

MCWritten == Refused \union Failing \union Accepted

Edited(edits, changes, errors) == [edits |-> edits, changes |-> changes, errors |-> errors]

\* Two runs of Lead and one of Helper; the first calls Helper twice at once, Helper calls
\* Lead back.
MCAgentOf    == [r1 |-> "Lead", r2 |-> "Lead", r3 |-> "Helper"]
MCCaller     == [c1 |-> "r1", c2 |-> "r1", c3 |-> "c1", c4 |-> "r2"]
MCRelationOf == [c1 |-> "relation_001", c2 |-> "relation_001", c3 |-> "back", c4 |-> "relation_001"]

Made(runs, calls, errors, restarts) ==
  [runs |-> runs, calls |-> calls, errors |-> errors, restarts |-> restarts]
NoCalls == Made({}, {}, 0, 0)

Full == [root \in Roots |-> {"s", "t"}]
Part == [root \in Roots \ {"user"} |-> {"s", "t"}]
Few  == [root \in {"team", "package"} |-> IF root = "team" THEN {"s"} ELSE {}]
MCDisks == {Full, Part, Few}

Scenario(files, disks, changes, calls) ==
  [files |-> files, disks |-> disks, team |-> changes, calls |-> calls]

MCScenarios == {
  Scenario(MCWritten, {Full, Few}, Edited(0, 1, 1), NoCalls),
  Scenario({Locked, Selecting}, {Part}, Edited(0, 2, 0), NoCalls),
  Scenario({Basic}, {Few}, Edited(1, 1, 0), NoCalls),
  Scenario({Basic}, {Full}, Edited(0, 0, 0), Made({"r1"}, {"c1", "c2"}, 2, 0)),
  Scenario({Basic}, {Full}, Edited(0, 0, 0), Made({"r1"}, {"c1", "c3"}, 2, 1)),
  Scenario({Basic}, {Full}, Edited(0, 0, 0), Made({"r1", "r2"}, {"c1", "c4"}, 1, 1)),
  Scenario({Basic}, {Full}, Edited(0, 0, 0), Made({"r1", "r3"}, {"c1"}, 1, 1)),
  Scenario({Basic}, {Few}, Edited(0, 1, 0), Made({"r1", "r3"}, {"c1"}, 0, 0))}

MCRuntimeLimits == {s.team : s \in MCScenarios}
MCCallLimits    == {s.calls : s \in MCScenarios}
=============================================================================
