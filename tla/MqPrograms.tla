----------------------------- MODULE MqPrograms -----------------------------
(***************************************************************************)
(* The programs with message queues: the service of MqService, or the tools *)
(* of MqTools, are run, and the other ones are never started.               *)
(***************************************************************************)
EXTENDS MqService

CONSTANTS Runs, MayFail                         \* of MqTools

VARIABLES
    kind,                                       \* of what is run
    tool, at, name, messages, held, sent, left, taken, seen, destroyed

Tools == INSTANCE MqTools

ASSUME MqToolsAssumption == Tools!ToolsAssumption

toolVars == <<tool, at, name, messages, held, sent, left, taken, seen, destroyed>>
programVars == <<kind, vars, toolVars>>

\* No tool is there.
NoTools ==
    /\ tool = None /\ at = None /\ name = None /\ messages = None /\ held = None
    /\ sent = None /\ left = None /\ taken = None /\ seen = None
    /\ destroyed = None

ProgramInit ==
    /\ Init
    /\ \/ kind = "service" /\ NoTools
       \/ kind = "tools" /\ Tools!Init

ServiceOnly == kind = "service" /\ UNCHANGED <<kind, toolVars>>
ToolsOnly == kind = "tools" /\ UNCHANGED <<kind, vars>>

ProgramNext ==
    \/ ServiceOnly /\ Next
    \/ ToolsOnly /\ Tools!Next

ProgramSpec == ProgramInit /\ [][ProgramNext]_programVars

\* The processes of the service run on while they can; nobody has to start or
\* to restart one.
FairProgramSpec ==
    /\ ProgramSpec
    /\ WF_programVars(ServiceOnly /\ ServerStep)
    /\ \A c \in Clients : WF_programVars(ServiceOnly /\ ClientStep(c))

-----------------------------------------------------------------------------
\* The messages of the tools are each in one place, vanish only behind a run
\* that unlinks the queue, and reach the readers that count on them unless other
\* readers are there: mqRead.c, mqNameReader.c, assignment5/mqreader.c.
ToolsTrue == kind = "tools" => Tools!ToolsTrue
=============================================================================
