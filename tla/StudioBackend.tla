---------------------------- MODULE StudioBackend ----------------------------
(***************************************************************************)
(* The Studio backend process: the session controller with its open        *)
(* conversations, the event stream, a terminal, and the packages its teams *)
(* come from, which the command line changes behind it.                    *)
(*                                                                         *)
(* A handler changes the session, may load a team, and publishes what it   *)
(* changed, in one step of the event loop.  What the threads of open       *)
(* conversations change, nobody publishes: producers find it when they     *)
(* wake.                                                                   *)
(***************************************************************************)
EXTENDS TeamPackages, StudioStream, StudioSession, TerminalSession

CONSTANTS
  PackageOfTeam,  \* the package a team's files are in, or Nobody
  Scenarios       \* bounds: the limits of the four parts that are taken together

ASSUME BackendAssumption ==
  /\ PackageOfTeam \in [Teams -> Packages \union {Nobody}]
  /\ Scenarios \subseteq [packages : PackageLimits, stream : StreamLimits,
                          session : SessionLimits, terminal : TerminalLimits]

backendVars == <<packageVars, streamVars, sessionVars, terminalVars>>

BackendInit ==
  /\ PackagesInit /\ StreamInit /\ SessionInit /\ TerminalInit
  /\ [packages |-> spent.limit, stream |-> budget.limit, session |-> restarts.limit,
      terminal |-> opened.limit] \in Scenarios

PagesUntouched == UNCHANGED <<conn, page, budget>>

\* _instance_for: a team that no request used before is instantiated, from the workspace
\* or from a package; when that is refused, so is the request.
Loads(t) ==
  IF teams[t] = NoObject /\ PackageOfTeam[t] # Nobody
    THEN Instantiate(PackageOfTeam[t]) ELSE UNCHANGED packageVars

\* A request that makes another StudioApiController the active one.
Activation ==
  \E c \in Conversations :
    /\ ActivateTeam(c) \/ \E m \in Messages \union {Nothing} : CreateConversation(c, m)
    /\ Loads(TeamOf[c])
    /\ Publishes /\ PagesUntouched
    /\ IF shell.held THEN TerminalForgotten ELSE UNCHANGED terminalVars

\* A request the active StudioApiController serves.
Request ==
  /\ \/ \E c \in Conversations : SwitchConversation(c)
     \/ \E m \in Messages \union {Nothing} : AppendMessage(m)
  /\ Publishes /\ PagesUntouched
  /\ UNCHANGED <<packageVars, terminalVars>>

TeamWorks ==
  /\ ThreadStep /\ Changes
  /\ UNCHANGED <<packageVars, log, terminalVars>> /\ PagesUntouched

Stream ==
  /\ StreamStep(active # NoObject)
  /\ UNCHANGED <<packageVars, sessionVars, terminalVars>>

Terminal ==
  /\ \/ OpensTerminal /\ active # NoObject
     \/ TerminalStep
  /\ UNCHANGED <<packageVars, streamVars, sessionVars>>

CommandLine ==
  /\ PackagesNext
  /\ UNCHANGED <<streamVars, sessionVars, terminalVars>>

Restart ==
  /\ SessionRestarts /\ StreamRestarts
  /\ IF shell.held THEN TerminalForgotten ELSE UNCHANGED terminalVars
  /\ UNCHANGED packageVars

BackendNext ==
  Activation \/ Request \/ TeamWorks \/ Stream \/ Terminal \/ CommandLine \/ Restart

BackendSpec == BackendInit /\ [][BackendNext]_backendVars /\ StreamFairness

----------------------------------------------------------------------------
(* Properties.                                                              *)

\* The types of the parts.
BackendTypeOK == PackagesTypeOK /\ StreamTypeOK /\ SessionTypeOK /\ TerminalTypeOK
=============================================================================
