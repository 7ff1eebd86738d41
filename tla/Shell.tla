------------------------------- MODULE Shell --------------------------------
(***************************************************************************)
(* The program around the agents (service/aios_shell): its start, the      *)
(* commands of its user, and the three files they leave for the next       *)
(* start: the settings (UserConfig), the tunnels (etc/tunnels.cfg.toml)    *)
(* and the local compute nodes (etc/compute_nodes.cfg.toml).               *)
(*                                                                         *)
(* The shell takes one command at a time and suspends inside of it: at     *)
(* prompts, in the save of the settings and in the start of tunnels.  No   *)
(* command is guarded: an exception ends the program.                      *)
(*                                                                         *)
(* What agents, tunnels, contacts and nodes do once they run is the        *)
(* business of other modules: of contacts.toml only that it parses is kept *)
(* here.  The sockets through the proxy, the knowledge commands (their     *)
(* names are not imported: they raise) and everything that is only shown   *)
(* are left out.                                                           *)
(***************************************************************************)
EXTENDS UserConfig, Sequences, FiniteSets, SequencesExt

CONSTANTS
  TunnelIds,     \* "TYPE_2_TARGET"
  KnownIds,      \* those whose type has a loader
  WithTopic,     \* values of shell.current with an "@"
  BadProxies,    \* values of proxy that apply_storage raises on: of type socks5
                 \* or http, and no "@host:port" with a number for the port
  TunnelFiles,   \* what the user may have written before the first start
  NodeIds,       \* a url and a model name
  NoFile, NoList, \* the file of the nodes absent, or without a list
  MaxTunnels,    \* bound: entries of the tunnels file
  MaxFaults,     \* bound: crashes, failing writes, spoilt files
  MaxCommands    \* bound: commands of the user in all runs

ASSUME ShellAssumption ==
  /\ \A S \in SUBSET NodeIds : S # NoFile /\ S # NoList
  /\ NoFile # NoList
  /\ {"openai_api_key", "feature.llama", "shell.current", "proxy"} \subseteq Keys
  /\ "feature.other" \notin Keys      \* a feature nobody declared
  /\ {"True", "False"} \subseteq ValuesOf["feature.llama"]
  /\ Default["feature.llama"] # "True"
  /\ WithTopic \subseteq ValuesOf["shell.current"]
  /\ Default["shell.current"] \in WithTopic
  /\ BadProxies \subseteq ValuesOf["proxy"]
  /\ Default["proxy"] \notin BadProxies

Entry == [key : TunnelIds, tid : TunnelIds]

ASSUME TunnelAssumption ==
  /\ KnownIds \subseteq TunnelIds
  /\ TunnelFiles \subseteq BoundedSeq(Entry, MaxTunnels)
  /\ Unreadable \notin BoundedSeq(Entry, MaxTunnels)

ASSUME BoundAssumption == {MaxTunnels, MaxFaults, MaxCommands} \subseteq Nat

VARIABLES
  phase,       \* what the program is doing
  daemon,      \* TRUE when it runs without a terminal
  why,         \* what ended the start of the program
  faults,      \* faults so far
  commands,    \* commands so far
  tunnelFile,  \* entries of the tunnels file in order, or Unreadable
  toLoad,      \* the part of it the start has yet to go through
  started,     \* started[t]: running instances of tunnel t
  connecting,  \* the tunnel /connect has started and not yet appended
  skipped,     \* history: an entry failed in the start that is running
  promised,    \* history: tunnels reported as connected and appended since the
               \* file was last damaged
  contactsSpoilt, \* TRUE when contacts.toml does not parse
  nodeFile,    \* nodes of the file, NoFile or NoList
  nodeConf,    \* ComputeNodeConfig.config: a set of nodes, or NoList
  serving,     \* local nodes in the compute kernel
  nodeHarm,    \* history: how the file of the nodes lost its list
  build        \* the dialogue of /node create

tunnelVars == <<tunnelFile, toLoad, started, connecting, skipped, promised>>
nodeVars == <<nodeFile, nodeConf, serving, nodeHarm, build>>
vars == <<configVars, phase, daemon, why, faults, commands, contactsSpoilt,
          tunnelVars, nodeVars>>

\* The steps of _params: the path of the model, its url, its name, four
\* options of the server, and the extra options.
Steps == [path |-> 0, url |-> 1, name |-> 2, extern |-> 7]
NoBuild == [step |-> 0, model |-> "none", stage |-> "ask"]

Command ==
  /\ phase = "ready" /\ ~daemon /\ ~saving
  /\ commands < MaxCommands
  /\ commands' = commands + 1
Fault == faults < MaxFaults /\ faults' = faults + 1

\* The program ends; what it had in memory is gone.
GoDown(reason) ==
  /\ phase' = IF reason = "" THEN "down" ELSE "failed"
  /\ why' = reason
  /\ ConfigLost
  /\ toLoad' = <<>>
  /\ started' = [t \in TunnelIds |-> 0]
  /\ connecting' = {}
  /\ nodeConf' = NoList
  /\ serving' = {}
  /\ build' = NoBuild
  /\ UNCHANGED daemon

-----------------------------------------------------------------------------
(* Start: main, declare_all_user_config, initial                           *)

\* main: the contacts are loaded, the settings are declared and loaded.  A daemon
\* cannot ask for what is missing and returns.
Boot ==
  /\ phase \in {"down", "failed"}
  /\ commands < MaxCommands /\ commands' = commands + 1
  /\ daemon' \in BOOLEAN
  /\ LET loaded == Loaded(confFile)
     IN IF contactsSpoilt
        THEN phase' = "failed" /\ conf' = Declared /\ why' = "contacts"
        ELSE IF Missing(loaded) = {}
        THEN phase' = "initial" /\ conf' = loaded /\ why' = ""
        ELSE IF daemon'
        THEN phase' = "failed" /\ conf' = Declared /\ why' = "settings"
        ELSE phase' = "ask" /\ conf' = loaded /\ why' = ""
  /\ skipped' = FALSE
  /\ UNCHANGED <<confFile, saving, settled, confHarm, faults, contactsSpoilt,
                 tunnelFile, toLoad, started, connecting, promised, nodeVars>>

\* get_user_config_from_input: each missing setting is asked for in turn;
\* what the user leaves with /exit stays missing, and all is saved at the end.
AskUser ==
  /\ phase = "ask"
  /\ \E answers \in [Missing(conf) -> Values] :
       /\ \A k \in DOMAIN answers : answers[k] \in ValuesOf[k] \cup {NoValue}
       /\ conf' = [k \in Keys |->
                     IF k \in DOMAIN answers /\ answers[k] # NoValue
                     THEN [value |-> answers[k], user |-> TRUE] ELSE conf[k]]
  /\ BeginSave
  /\ phase' = "initial"
  /\ UNCHANGED <<daemon, why, faults, commands, contactsSpoilt, tunnelVars,
                 nodeVars>>

\* AIOS_Shell.initial up to the tunnels: the contact of the owner, the nodes
\* of OpenAI, the local nodes of the file, and the feature "llama", whose node
\* is made without its arguments.
\* Mutant: the string "False" is taken for true.
FailsIfSet ==
  IF GetValue("openai_api_key") = NoValue THEN "openai"
  ELSE IF nodeFile = NoList THEN "nodes"
  ELSE IF GetValue("feature.llama") # NoValue THEN "llama"
  ELSE ""
InitialFails ==
  IF GetValue("openai_api_key") = NoValue THEN "openai"
  ELSE IF nodeFile = NoList THEN "nodes"
  ELSE IF GetValue("feature.llama") = "True" THEN "llama"
  ELSE ""

\* proxy.apply_storage: main calls it before it looks at what initial returned.
ProxyRaises == GetValue("proxy") \in BadProxies

\* An owner nobody knows is added to the contacts, and they are written.
Initial ==
  /\ phase = "initial" /\ ~saving
  /\ contactsSpoilt' \in {contactsSpoilt, FALSE}
  /\ IF InitialFails # ""
     THEN /\ phase' = "failed"
          /\ why' = IF InitialFails = "openai" /\ ProxyRaises THEN "proxy"
                    ELSE InitialFails
          /\ conf' = Declared
          /\ UNCHANGED <<confFile, saving, settled, confHarm, tunnelVars, nodeVars>>
     ELSE /\ phase' = "tunnels"
          /\ nodeConf' = IF nodeFile = NoFile THEN NoList ELSE nodeFile
          /\ serving' = IF nodeFile = NoFile THEN {} ELSE nodeFile
          /\ toLoad' = IF tunnelFile = Unreadable THEN <<>> ELSE tunnelFile
          /\ UNCHANGED <<configVars, why, tunnelFile, started, connecting,
                         skipped, promised, nodeFile, nodeHarm, build>>
  /\ UNCHANGED <<daemon, faults, commands>>

\* load_all_tunnels_from_config, one entry: an entry under another name or
\* of an unknown type is skipped; a loader may refuse; an exception in a
\* start, or of an entry without a type, leaves the rest of the file alone.
\* Mutant: a skipped entry is looked at again.
LoadTunnelAgain ==
  /\ phase = "tunnels" /\ toLoad # <<>>
  /\ LET e == Head(toLoad)
     IN IF e.key # e.tid \/ e.key \notin KnownIds
        THEN UNCHANGED <<toLoad, started>>
        ELSE toLoad' = Tail(toLoad) /\ started' = [started EXCEPT ![e.key] = @ + 1]
  /\ UNCHANGED <<configVars, phase, daemon, why, faults, commands, contactsSpoilt,
                 tunnelFile, connecting, skipped, promised, nodeVars>>
LoadTunnel ==
  /\ phase = "tunnels" /\ toLoad # <<>>
  /\ LET e == Head(toLoad)
     IN \/ /\ e.key # e.tid \/ e.key \notin KnownIds
           /\ toLoad' = Tail(toLoad)
           /\ UNCHANGED <<started, skipped, faults>>
        \/ /\ e.key = e.tid /\ e.key \in KnownIds
           /\ toLoad' = Tail(toLoad)
           /\ started' = [started EXCEPT ![e.key] = @ + 1]
           /\ UNCHANGED <<skipped, faults>>
        \/ /\ e.key = e.tid /\ e.key \in KnownIds
           /\ Fault
           /\ toLoad' \in {Tail(toLoad), <<>>}
           /\ skipped' = TRUE
           /\ UNCHANGED started
  /\ UNCHANGED <<configVars, phase, daemon, why, commands, contactsSpoilt,
                 tunnelFile, connecting, promised, nodeVars>>

\* main after initial: the proxy, and then the loop of a daemon, or the prompt,
\* for which the last target is split at the "@".
ReadyFails ==
  IF ProxyRaises THEN "proxy"
  ELSE IF ~daemon /\ GetValue("shell.current") \notin WithTopic THEN "current"
  ELSE ""

Ready ==
  /\ phase = "tunnels" /\ toLoad = <<>>
  /\ IF ReadyFails = ""
     THEN phase' = "ready" /\ UNCHANGED <<configVars, why, started, nodeConf, serving>>
     ELSE /\ phase' = "failed" /\ why' = ReadyFails
          /\ conf' = Declared
          /\ started' = [t \in TunnelIds |-> 0]
          /\ nodeConf' = NoList
          /\ serving' = {}
          /\ UNCHANGED <<confFile, saving, settled, confHarm>>
  /\ UNCHANGED <<daemon, faults, commands, contactsSpoilt, tunnelFile, toLoad,
                 connecting, skipped, promised, nodeFile, nodeHarm, build>>

\* A command, a tunnel or a function of an agent changes a contact: the whole
\* file is written.
ContactsSaved ==
  /\ phase \in {"tunnels", "ready", "connect", "build"}
  /\ contactsSpoilt /\ contactsSpoilt' = FALSE
  /\ UNCHANGED <<configVars, phase, daemon, why, faults, commands, tunnelVars, nodeVars>>

-----------------------------------------------------------------------------
(* Commands that change the settings                                       *)

Untouched ==
  UNCHANGED <<phase, daemon, why, faults, contactsSpoilt, tunnelVars, nodeVars>>

\* /set_config KEY: whatever the user types becomes the value.
SetConfig ==
  /\ Command
  /\ \E k \in Keys : \E v \in ValuesOf[k] : SetValue(k, v)
  /\ BeginSave
  /\ Untouched

\* /enable and /disable FEATURE, unless it is enabled or disabled already; of
\* a feature nobody declared the same is reported and nothing is set.
SwitchFeature ==
  /\ Command
  /\ \E f \in {"feature.llama", "feature.other"} :
       SetValue(f, IF f \in Keys /\ GetValue(f) = "True" THEN "False" ELSE "True")
  /\ BeginSave
  /\ Untouched

\* /open AGENT TOPIC, of an agent that exists.
Open ==
  /\ Command
  /\ \E v \in WithTopic : SetValue("shell.current", v)
  /\ BeginSave
  /\ Untouched

SaveEnds ==
  \/ Write /\ Untouched /\ UNCHANGED commands
  \/ /\ WriteFails /\ Fault
     /\ UNCHANGED <<phase, daemon, why, commands, contactsSpoilt, tunnelVars, nodeVars>>

-----------------------------------------------------------------------------
(* /connect: get_tunnel_config_from_input, load_tunnel_from_config,        *)
(* append_tunnel_config                                                    *)

KeysOf(file) == {file[i].key : i \in DOMAIN file}

\* all_tunnels[tunnel_id] = tunnel_config
\* Mutant: a tunnel that is there is written once more.
AppendedTwice(file, t) == Append(file, [key |-> t, tid |-> t])
Appended(file, t) ==
  IF t \in KeysOf(file)
  THEN [i \in DOMAIN file |-> IF file[i].key = t THEN [key |-> t, tid |-> t] ELSE file[i]]
  ELSE Append(file, [key |-> t, tid |-> t])

\* The answers are in, the loader has made the tunnel and its start is
\* suspended.  An aborted dialogue, an unknown type and a loader that refuses
\* change nothing.
Connect ==
  /\ Command
  /\ \E t \in KnownIds : connecting' = {t}
  /\ phase' = "connect"
  /\ UNCHANGED <<configVars, daemon, why, faults, contactsSpoilt, tunnelFile,
                 toLoad, started, skipped, promised, nodeVars>>

\* The start returns and the tunnel is written to the file.  A file that does
\* not parse is taken for an empty one.
\* Mutant: the file is not read before it is written.
StartedOnly ==
  /\ phase = "connect"
  /\ \E t \in connecting :
       /\ started' = [started EXCEPT ![t] = @ + 1]
       /\ tunnelFile' = Appended(<<>>, t)
       /\ promised' = promised \cup {t}
       /\ UNCHANGED faults
  /\ connecting' = {}
  /\ phase' = "ready"
  /\ UNCHANGED <<configVars, daemon, why, commands, contactsSpoilt, toLoad,
                 skipped, nodeVars>>
Connected ==
  /\ phase = "connect"
  /\ \E t \in connecting :
       LET file == IF tunnelFile = Unreadable THEN <<>> ELSE tunnelFile
       IN /\ started' = [started EXCEPT ![t] = @ + 1]
          /\ Len(file) < MaxTunnels \/ t \in KeysOf(file)
          /\ \/ /\ tunnelFile' = Appended(file, t)
                /\ promised' = promised \cup {t}
                /\ UNCHANGED faults
             \/ /\ Fault
                /\ UNCHANGED <<tunnelFile, promised>>
             \/ /\ Fault
                /\ tunnelFile' = <<>> /\ promised' = {}
  /\ connecting' = {}
  /\ phase' = "ready"
  /\ UNCHANGED <<configVars, daemon, why, commands, contactsSpoilt, toLoad,
                 skipped, nodeVars>>

-----------------------------------------------------------------------------
(* /node: ComputeNodeConfig                                                *)

Listed(c) == IF c = NoList THEN {} ELSE c

\* remove_node; without a list in the configuration none is made.
Without(c, n) == IF c = NoList THEN NoList ELSE c \ {n}

\* save: written in one step; the program ends when that fails.
SaveNodes(c, reason) ==
  /\ nodeConf' = c
  /\ nodeFile' = c
  /\ nodeHarm' = IF c = NoList THEN nodeHarm \cup {reason} ELSE nodeHarm

\* A node is added to the configuration, saved, and added to the kernel.
\* Mutant: saved before it is added.
ServeUnsaved(n) ==
  /\ nodeConf' = Listed(nodeConf) \cup {n}
  /\ nodeFile' = nodeConf
  /\ nodeHarm' = nodeHarm
  /\ serving' = serving \cup {n}
Serve(n) ==
  /\ SaveNodes(Listed(nodeConf) \cup {n}, "")
  /\ serving' = serving \cup {n}

NodeAdd ==
  /\ Command
  /\ \E n \in NodeIds : Serve(n)
  /\ UNCHANGED <<configVars, phase, daemon, why, faults, contactsSpoilt,
                 tunnelVars, build>>

\* The node goes on serving until the program ends.
NodeRm ==
  /\ Command
  /\ \E n \in NodeIds : SaveNodes(Without(nodeConf, n), "rm")
  /\ UNCHANGED <<configVars, phase, daemon, why, faults, contactsSpoilt,
                 tunnelVars, serving, build>>

-----------------------------------------------------------------------------
(* /node create: LocalLlamaNodeBuilder and its parameters                  *)

NodeCreate ==
  /\ Command
  /\ phase' = "build"
  /\ build' = NoBuild
  /\ UNCHANGED <<configVars, daemon, why, faults, contactsSpoilt, tunnelVars,
                 nodeFile, nodeConf, serving, nodeHarm>>

Building(stage) == phase = "build" /\ build.stage = stage

BuildOnly ==
  UNCHANGED <<configVars, phase, daemon, why, faults, commands, contactsSpoilt,
              tunnelVars, nodeFile, nodeConf, serving, nodeHarm>>

\* BuildParameterModelPath: a path that exists skips the download, an empty
\* answer leads to it, any other is asked for again.
\* Mutant: a path is not looked up.
PathUnseen ==
  /\ Building("ask") /\ build.step = Steps.path
  /\ \/ build' = [build EXCEPT !.step = @ + 1]
     \/ \E m \in {"none", "given"} : build' = [build EXCEPT !.step = @ + 2, !.model = m]
  /\ BuildOnly
ModelPath ==
  /\ Building("ask") /\ build.step = Steps.path
  /\ \/ build' = [build EXCEPT !.step = @ + 1]
     \/ build' = [build EXCEPT !.step = @ + 2, !.model = "given"]
     \/ UNCHANGED build
  /\ BuildOnly

\* BuildParameterModelUrl: asked for again as long as the download fails, as
\* it does for an empty answer.
ModelUrl ==
  /\ Building("ask") /\ build.step = Steps.url
  /\ \/ build' = [build EXCEPT !.step = @ + 1, !.model = "downloaded"]
     \/ UNCHANGED build
  /\ BuildOnly

\* The name of the node and the options of the server: any answer will do.
Option ==
  /\ Building("ask") /\ build.step \in Steps.name .. (Steps.extern - 1)
  /\ build' = [build EXCEPT !.step = @ + 1]
  /\ BuildOnly

\* ParameterExternParamsApplier: the last parameter, and then git, the image
\* and the container.
ExternParams ==
  /\ Building("ask") /\ build.step = Steps.extern
  /\ build' = [build EXCEPT !.step = @ + 1, !.stage = "git"]
  /\ BuildOnly

\* A tool succeeds, or the user is asked whether to retry or to go on with what
\* there is; any other answer is asked for again.
Tool(stage, ask, next) ==
  \/ /\ Building(stage)
     /\ \E s \in {ask, next} : build' = [build EXCEPT !.stage = s]
  \/ /\ Building(ask)
     /\ \E s \in {stage, ask, next} : build' = [build EXCEPT !.stage = s]

BuildImage == (Tool("git", "git?", "image") \/ Tool("image", "image?", "run")) /\ BuildOnly

\* docker run: on success the node serves; on failure a retry or the end.
RunService ==
  \/ /\ Building("run")
     /\ \E n \in NodeIds : Serve(n)
     /\ phase' = "ready"
     /\ UNCHANGED build
  \/ /\ Building("run")
     /\ build' = [build EXCEPT !.stage = "run?"]
     /\ UNCHANGED <<phase, nodeFile, nodeConf, serving, nodeHarm>>
  \/ /\ Building("run?")
     /\ \/ build' = [build EXCEPT !.stage = "run"] /\ UNCHANGED phase
        \/ UNCHANGED <<build, phase>>
        \/ build' = NoBuild /\ phase' = "ready"
     /\ UNCHANGED <<nodeFile, nodeConf, serving, nodeHarm>>

Run ==
  /\ RunService
  /\ UNCHANGED <<configVars, daemon, why, faults, commands, contactsSpoilt, tunnelVars>>

-----------------------------------------------------------------------------
(* The end of the program and what happens to its files                    *)

\* A command that raises ends the program: /send with too few arguments,
\* /knowledge, a tunnel whose start fails, a tool that is not installed.
CommandRaises ==
  /\ Command \/ (phase \in {"connect", "build"} /\ UNCHANGED commands)
  /\ GoDown("")
  /\ UNCHANGED <<faults, contactsSpoilt, tunnelFile, skipped, promised, nodeFile,
                 nodeHarm>>

Exit ==
  /\ Command
  /\ GoDown("")
  /\ UNCHANGED <<faults, contactsSpoilt, tunnelFile, skipped, promised, nodeFile,
                 nodeHarm>>

\* The program is killed, possibly while one of its files is truncated.
Crash ==
  /\ phase \notin {"down", "failed"}
  /\ Fault
  /\ GoDown("")
  /\ \/ UNCHANGED <<tunnelFile, promised, nodeFile, nodeHarm>>
     \/ /\ phase = "connect"
        /\ tunnelFile' = <<>> /\ promised' = {}
        /\ UNCHANGED <<nodeFile, nodeHarm>>
     \/ /\ phase \in {"ready", "build"} /\ ~daemon
        /\ nodeFile' = NoList
        /\ nodeHarm' = nodeHarm \cup {"cut off"}
        /\ UNCHANGED <<tunnelFile, promised>>
  /\ UNCHANGED <<commands, contactsSpoilt, skipped>>

\* Somebody edits a file, and it does not parse any more.
Spoil ==
  /\ Fault
  /\ ~saving
  /\ \/ ConfigSpoilt /\ UNCHANGED <<contactsSpoilt, tunnelFile, promised>>
     \/ /\ tunnelFile' = Unreadable /\ promised' = {}
        /\ UNCHANGED <<configVars, contactsSpoilt>>
     \/ /\ contactsSpoilt' = TRUE
        /\ UNCHANGED <<configVars, tunnelFile, promised>>
  /\ UNCHANGED <<phase, daemon, why, commands, toLoad, started, connecting,
                 skipped, nodeVars>>

-----------------------------------------------------------------------------

Init ==
  /\ ConfigInit
  /\ phase = "down" /\ daemon = FALSE /\ why = ""
  /\ faults = 0 /\ commands = 0
  /\ contactsSpoilt = FALSE
  /\ tunnelFile \in TunnelFiles
  /\ toLoad = <<>>
  /\ started = [t \in TunnelIds |-> 0]
  /\ connecting = {} /\ skipped = FALSE /\ promised = {}
  /\ nodeFile = NoFile /\ nodeConf = NoList
  /\ serving = {} /\ nodeHarm = {}
  /\ build = NoBuild

\* What goes on without the user.
Runs == Initial \/ LoadTunnel \/ Ready \/ SaveEnds \/ Connected

Commands ==
  \/ SetConfig \/ SwitchFeature \/ Open
  \/ Connect
  \/ NodeAdd \/ NodeRm \/ NodeCreate
  \/ ModelPath \/ ModelUrl \/ Option \/ ExternParams \/ BuildImage \/ Run
  \/ CommandRaises \/ Exit

Next == Boot \/ AskUser \/ Runs \/ Commands \/ ContactsSaved \/ Crash \/ Spoil

Spec == Init /\ [][Next]_vars

\* The program goes on by itself where it does not wait for its user; a tool,
\* a server or a disk that never answers is not considered.
FairSpec == Spec /\ WF_vars(Runs)

-----------------------------------------------------------------------------

\* The types of the variables.
TypeOK ==
  /\ ConfigTypeOK
  /\ phase \in {"down", "failed", "ask", "initial", "tunnels", "ready", "connect", "build"}
  /\ daemon \in BOOLEAN /\ skipped \in BOOLEAN /\ contactsSpoilt \in BOOLEAN
  /\ why \in {"", "contacts", "settings", "openai", "nodes", "llama", "proxy", "current"}
  /\ faults \in 0 .. MaxFaults /\ commands \in 0 .. MaxCommands
  /\ tunnelFile \in {Unreadable} \cup BoundedSeq(Entry, MaxTunnels)
  /\ toLoad \in BoundedSeq(Entry, MaxTunnels)
  /\ started \in [TunnelIds -> 0 .. MaxTunnels + MaxCommands]
  /\ connecting \subseteq TunnelIds /\ promised \subseteq TunnelIds
  /\ nodeFile \in {NoFile, NoList} \cup SUBSET NodeIds
  /\ nodeConf \in {NoList} \cup SUBSET NodeIds
  /\ serving \subseteq NodeIds
  /\ nodeHarm \subseteq {"", "rm", "cut off"}
  /\ build \in [step : 0 .. 8, model : {"none", "given", "downloaded"},
                stage : {"ask", "git", "git?", "image", "image?", "run", "run?"}]

\* What the running program takes for the settings of the user is what was
\* saved: after a start and between two commands the values in memory are the
\* last saved ones, unless the file was damaged (get_value, set_value and all
\* the commands that save).
SettingsInForce ==
  (phase = "ready" /\ ~saving /\ confHarm = {}) => WillSave(conf) = settled

\* A tunnel reported as connected is in the file until that is damaged, and
\* runs whenever the program is ready and no tunnel of the start failed
\* (append_tunnel_config, load_all_tunnels_from_config).
ConnectedComesBack ==
  /\ promised # {} =>
       /\ tunnelFile # Unreadable
       /\ \A t \in promised :
            \E i \in DOMAIN tunnelFile : tunnelFile[i] = [key |-> t, tid |-> t]
  /\ (phase = "ready" /\ ~skipped) => \A t \in promised : started[t] > 0

\* The local nodes of the file serve as long as the program is ready, and the
\* next save will not lose one of them (ComputeNodeConfig, /node add and rm).
NodesServe ==
  (phase = "ready" /\ nodeFile \notin {NoFile, NoList}) =>
    nodeFile \subseteq serving /\ nodeConf = nodeFile

\* A container is only run for a model that is there: given by a path that
\* exists, or downloaded (the parameters of LocalLlamaNodeBuilder).
ModelIsThere ==
  (phase = "build" /\ build.step >= Steps.name) => build.model # "none"

\* When the program does not start, the files explain it: contacts that do not
\* parse, a missing key that was never saved, the feature that was switched on,
\* a proxy without a host and a port, a target without a topic, a node file that
\* lost its list when nothing was there to remove or when it was cut off, or
\* damaged settings.
StartExplained ==
  phase = "failed" =>
    \/ confHarm # {}
    \/ why = "contacts" /\ contactsSpoilt
    \/ why = "settings" /\ \E k \in Required : settled[k] = NoValue
    \/ why = "openai" /\ settled["openai_api_key"] = NoValue
    \/ why = "nodes" /\ nodeHarm # {}
    \/ why = "llama" /\ settled["feature.llama"] = "True"
    \/ why = "proxy" /\ settled["proxy"] \in BadProxies
    \/ why = "current" /\ settled["shell.current"] \notin WithTopic \cup {NoValue}

\* A start that needs nothing more from the user ends: the program is ready
\* or has ended (main, load_all_tunnels_from_config).
StartEnds == phase \in {"initial", "tunnels"} ~> phase \notin {"initial", "tunnels"}

\* The handbook of the shell offers "/enable llama": switching the feature on
\* does not keep the program from starting.
LlamaStarts == why # "llama"

\* What the user has set and connected is there, in the files and in force, after
\* any number of restarts and failed saves that did not damage the files.
SettingsKept == TypeOK /\ SettingsSurvive /\ SettingsInForce /\ ConnectedComesBack

\* The local nodes are those of the file, and each was made with its model.
LocalNodesWork == NodesServe /\ ModelIsThere

\* Every start ends, and one that fails does so for a reason that is in the files.
Starts == []StartExplained /\ StartEnds

=============================================================================
