---------------------------- MODULE Shell_proofs ----------------------------
(* Proofs about Shell: what the user has set, connected and added is there   *)
(* again after any number of starts, whatever the files go through.          *)
EXTENDS Shell, SequenceTheorems, TLAPS

Up == phase \in {"tunnels", "ready", "connect", "build"}

-----------------------------------------------------------------------------
(* The settings.                                                             *)

\* A save is under way only where the start or a command waits for it.
SavingIsShort == saving => phase \in {"initial", "ready"}

\* A setting that has a value has it from the user.
ValuesAreTheUsers == \A k \in Keys : conf[k].value # NoValue => conf[k].user

\* While the file is sound the program knows everything in it: what it does not
\* have from the user was never saved, the rest is what was saved last.
ConfIsSettled ==
  phase \notin {"down", "failed"} /\ confHarm = {} =>
    \A k \in Keys :
      /\ ~conf[k].user => settled[k] = NoValue
      /\ ~saving => WillSave(conf)[k] = settled[k]

SettingsIInv ==
  /\ ConfigTypeOK
  /\ phase \in {"down", "failed", "ask", "initial", "tunnels", "ready", "connect", "build"}
  /\ SavingIsShort
  /\ ValuesAreTheUsers
  /\ ConfIsSettled
  /\ SettingsSurvive

LEMMA ValueFacts ==
  /\ NoValue \in Values
  /\ \A k \in Keys : \A v \in ValuesOf[k] : v \in Values /\ v # NoValue
PROOF
<1>1. NoValue \in Values
  BY DEF Values
<1>2. ASSUME NEW k \in Keys, NEW v \in ValuesOf[k]
      PROVE  v \in Values /\ v # NoValue
  <2>1. ValuesOf[k] \in {ValuesOf[j] : j \in Keys}
    OBVIOUS
  <2>2. v \in Values
    BY <2>1 DEF Values
  <2>3. {NoValue, Unreadable} \cap ValuesOf[k] = {}
    BY ConfigAssumption
  <2> QED BY <2>2, <2>3
<1> QED BY <1>1, <1>2

LEMMA WillSaveType ==
  ASSUME NEW c \in [Keys -> [value : Values, user : BOOLEAN]]
  PROVE  WillSave(c) \in [Keys -> Values]
PROOF
BY ValueFacts DEF WillSave

\* What is loaded is what was saved.
LEMMA LoadedFacts ==
  ASSUME NEW file \in [Keys -> Values] \cup {Unreadable}
  PROVE  /\ Loaded(file) \in [Keys -> [value : Values, user : BOOLEAN]]
         /\ \A k \in Keys : Loaded(file)[k].value # NoValue => Loaded(file)[k].user
         /\ file # Unreadable =>
              \A k \in Keys : /\ Loaded(file)[k].value = file[k]
                              /\ Loaded(file)[k].user <=> file[k] # NoValue
PROOF
BY ValueFacts DEF Loaded, Declared

\* A step that leaves the settings alone and moves within a run of the program.
LEMMA SettingsKeptAlone ==
  ASSUME SettingsIInv, UNCHANGED configVars,
         phase' \in {"ask", "initial", "tunnels", "ready", "connect", "build"},
         phase \notin {"down", "failed"},
         saving => phase' \in {"initial", "ready"}
  PROVE  SettingsIInv'
PROOF
<1>1. SavingIsShort' /\ ValuesAreTheUsers' /\ SettingsSurvive' /\ ConfigTypeOK'
  BY DEF SettingsIInv, configVars, SavingIsShort, ValuesAreTheUsers, SettingsSurvive,
         ConfigTypeOK
<1>2. ConfIsSettled'
  BY DEF SettingsIInv, configVars, ConfIsSettled, WillSave
<1> QED BY <1>1, <1>2 DEF SettingsIInv

\* A step that ends the program.
LEMMA SettingsWhenDown ==
  ASSUME SettingsIInv, ConfigLost, phase' \in {"down", "failed"}
  PROVE  SettingsIInv'
PROOF
<1>1. ConfigTypeOK'
  BY ValueFacts DEF SettingsIInv, ConfigLost, ConfigTypeOK, Declared
<1>2. SavingIsShort' /\ ValuesAreTheUsers' /\ ConfIsSettled'
  BY DEF ConfigLost, SavingIsShort, ValuesAreTheUsers, ConfIsSettled, Declared
<1>3. SettingsSurvive'
  BY DEF SettingsIInv, ConfigLost, SettingsSurvive
<1> QED BY <1>1, <1>2, <1>3 DEF SettingsIInv

\* A command that sets one setting, or none, and saves.
LEMMA SettingsWhenSet ==
  ASSUME SettingsIInv, NEW k, NEW v, k \in Keys => v \in ValuesOf[k],
         SetValue(k, v), BeginSave, phase = "ready", ~saving, phase' = phase
  PROVE  SettingsIInv'
PROOF
<1>1. conf' \in [Keys -> [value : Values, user : BOOLEAN]]
  BY ValueFacts DEF SettingsIInv, ConfigTypeOK, SetValue
<1>2. ConfigTypeOK'
  BY <1>1, ValueFacts DEF SettingsIInv, ConfigTypeOK, BeginSave, Nothing
<1>3. SavingIsShort' /\ ValuesAreTheUsers'
  BY DEF SettingsIInv, ConfigTypeOK, SavingIsShort, ValuesAreTheUsers, SetValue, BeginSave
<1>4. SettingsSurvive'
  BY DEF SettingsIInv, SettingsSurvive, BeginSave
<1>5. ConfIsSettled'
  <2> SUFFICES ASSUME confHarm' = {}, NEW j \in Keys
               PROVE  /\ ~conf'[j].user => settled'[j] = NoValue
                      /\ ~saving' => WillSave(conf')[j] = settled'[j]
    BY DEF ConfIsSettled
  <2>1. settled' = settled /\ confHarm = {}
    BY DEF BeginSave
  <2>2. ~conf'[j].user => settled'[j] = NoValue
    BY <2>1 DEF SettingsIInv, ConfigTypeOK, ConfIsSettled, SetValue
  <2>3. CASE k \in Keys
    <3>1. WillSave(conf')[k] # NoValue
      BY <2>3, ValueFacts DEF SettingsIInv, ConfigTypeOK, SetValue, WillSave
    <3>2. WillSave(conf') # Nothing
      BY <2>3, <3>1 DEF Nothing
    <3>3. saving'
      BY <3>2, <2>1 DEF BeginSave
    <3> QED BY <3>3, <2>2
  <2>4. CASE k \notin Keys
    BY <2>4, <2>1, <2>2 DEF SettingsIInv, ConfIsSettled, SetValue, BeginSave, WillSave
  <2> QED BY <2>3, <2>4
<1> QED BY <1>2, <1>3, <1>4, <1>5 DEF SettingsIInv

LEMMA BootSettings ==
  ASSUME SettingsIInv, Boot
  PROVE  SettingsIInv'
PROOF
<1>1. ~saving /\ UNCHANGED <<confFile, saving, settled, confHarm>>
  BY DEF SettingsIInv, SavingIsShort, Boot
<1>2. ConfigTypeOK /\ confFile \in [Keys -> Values] \cup {Unreadable}
  BY DEF SettingsIInv, ConfigTypeOK
<1>3. conf' = Declared \/ conf' = Loaded(confFile)
  BY DEF Boot
<1>4. conf' = Declared => phase' \in {"down", "failed"} \/ conf' = Loaded(confFile)
  BY DEF Boot
<1>5. phase' \in {"failed", "initial", "ask"}
  BY DEF Boot
<1>6. ConfigTypeOK'
  <2>1. Declared \in [Keys -> [value : Values, user : BOOLEAN]]
    BY ValueFacts DEF Declared
  <2>2. Loaded(confFile) \in [Keys -> [value : Values, user : BOOLEAN]]
    BY <1>2, LoadedFacts
  <2>3. conf' \in [Keys -> [value : Values, user : BOOLEAN]]
    BY <1>3, <2>1, <2>2
  <2> QED BY <1>1, <1>2, <2>3 DEF ConfigTypeOK
<1>7. SavingIsShort'
  BY <1>1 DEF SavingIsShort
<1>8. ValuesAreTheUsers'
  BY <1>2, <1>3, LoadedFacts DEF ValuesAreTheUsers, Declared
<1>9. SettingsSurvive'
  BY <1>1 DEF SettingsIInv, SettingsSurvive
<1>10. ConfIsSettled'
  <2> SUFFICES ASSUME phase' \notin {"down", "failed"}, confHarm' = {}, NEW k \in Keys
               PROVE  /\ ~conf'[k].user => settled'[k] = NoValue
                      /\ ~saving' => WillSave(conf')[k] = settled'[k]
    BY DEF ConfIsSettled
  <2>1. confFile = settled /\ settled \in [Keys -> Values]
    BY <1>1 DEF SettingsIInv, SettingsSurvive, ConfigTypeOK
  <2>2. confFile # Unreadable
    BY <2>1, ConfigAssumption
  <2>3. conf' = Loaded(confFile)
    BY <1>3, <1>4
  <2>4. /\ conf'[k].value = settled[k]
        /\ conf'[k].user <=> settled[k] # NoValue
    BY <1>2, <2>1, <2>2, <2>3, LoadedFacts
  <2> QED BY <1>1, <2>4 DEF WillSave
<1> QED BY <1>5, <1>6, <1>7, <1>8, <1>9, <1>10 DEF SettingsIInv

\* What is asked for has no value, so that an answer is new and a question left
\* without one changes nothing.
LEMMA AskUserSettings ==
  ASSUME SettingsIInv, AskUser
  PROVE  SettingsIInv'
PROOF
<1>1. PICK answers \in [Missing(conf) -> Values] :
        /\ \A k \in DOMAIN answers : answers[k] \in ValuesOf[k] \cup {NoValue}
        /\ conf' = [k \in Keys |->
                      IF k \in DOMAIN answers /\ answers[k] # NoValue
                      THEN [value |-> answers[k], user |-> TRUE] ELSE conf[k]]
  BY DEF AskUser
<1>2. phase = "ask" /\ phase' = "initial" /\ BeginSave /\ ~saving
  BY DEF AskUser, SettingsIInv, SavingIsShort
<1>3. ConfigTypeOK
  BY DEF SettingsIInv
<1>4. conf' \in [Keys -> [value : Values, user : BOOLEAN]]
  BY <1>1, <1>3 DEF ConfigTypeOK
<1>5. ConfigTypeOK'
  BY <1>2, <1>3, <1>4, ValueFacts DEF ConfigTypeOK, BeginSave, Nothing
<1>6. SavingIsShort' /\ ValuesAreTheUsers'
  BY <1>1, <1>2 DEF SettingsIInv, SavingIsShort, ValuesAreTheUsers
<1>7. SettingsSurvive'
  BY <1>2 DEF SettingsIInv, SettingsSurvive, BeginSave
<1>8. ConfIsSettled'
  <2> SUFFICES ASSUME confHarm' = {}, NEW k \in Keys
               PROVE  /\ ~conf'[k].user => settled'[k] = NoValue
                      /\ ~saving' => WillSave(conf')[k] = settled'[k]
    BY DEF ConfIsSettled
  <2>1. settled' = settled /\ confHarm = {}
    BY <1>2 DEF BeginSave
  <2>2. /\ ~conf[k].user => settled[k] = NoValue
        /\ WillSave(conf)[k] = settled[k]
    BY <1>2, <2>1 DEF SettingsIInv, ConfIsSettled
  <2>3. CASE k \in DOMAIN answers /\ answers[k] # NoValue
    <3>1. conf'[k] = [value |-> answers[k], user |-> TRUE]
      BY <1>1, <2>3
    <3>2. WillSave(conf')[k] # NoValue
      BY <2>3, <3>1 DEF WillSave
    <3>3. WillSave(conf') # Nothing
      BY <3>2 DEF Nothing
    <3>4. saving'
      BY <1>2, <2>1, <3>3 DEF BeginSave
    <3> QED BY <3>1, <3>4
  <2>4. CASE ~(k \in DOMAIN answers /\ answers[k] # NoValue)
    <3>1. conf'[k] = conf[k]
      BY <1>1, <2>4
    <3> QED BY <3>1, <2>1, <2>2 DEF WillSave
  <2> QED BY <2>3, <2>4
<1> QED BY <1>2, <1>5, <1>6, <1>7, <1>8 DEF SettingsIInv

\* After a write the file holds what was saved, now or before.
LEMMA WriteSettings ==
  ASSUME SettingsIInv, Write, phase' = phase
  PROVE  SettingsIInv'
PROOF
<1> DEFINE saved == [k \in Keys |-> IF conf[k].user THEN conf[k].value ELSE settled[k]]
<1>1. /\ saving /\ saving' = FALSE /\ conf' = conf
      /\ confFile' = WillSave(conf) /\ settled' = saved
      /\ confHarm' = IF saved = WillSave(conf) THEN {} ELSE confHarm
  BY DEF Write, Settle
<1>2. ConfigTypeOK
  BY DEF SettingsIInv
<1>3. WillSave(conf) \in [Keys -> Values] /\ saved \in [Keys -> Values]
  BY <1>2, WillSaveType DEF ConfigTypeOK
<1>4. ConfigTypeOK'
  <2>1. confHarm' \subseteq {"truncated", "not written", "spoilt"}
    BY <1>1, <1>2 DEF ConfigTypeOK
  <2>2. saving' \in BOOLEAN /\ confFile' \in [Keys -> Values] /\ settled' \in [Keys -> Values]
    BY <1>1, <1>3
  <2>3. conf' \in [Keys -> [value : Values, user : BOOLEAN]]
    BY <1>1, <1>2 DEF ConfigTypeOK
  <2> QED BY <2>1, <2>2, <2>3 DEF ConfigTypeOK
<1>5. SavingIsShort' /\ ValuesAreTheUsers'
  BY <1>1 DEF SettingsIInv, SavingIsShort, ValuesAreTheUsers
<1>6. phase \in {"initial", "ready"}
  BY <1>1 DEF SettingsIInv, SavingIsShort
<1>7. confHarm' = {} => saved = WillSave(conf)
  <2> SUFFICES ASSUME confHarm = {} PROVE saved = WillSave(conf)
    BY <1>1
  <2>1. \A k \in Keys : ~conf[k].user => settled[k] = NoValue
    BY <1>6 DEF SettingsIInv, ConfIsSettled
  <2> QED BY <2>1 DEF WillSave
<1>8. SettingsSurvive'
  BY <1>1, <1>7 DEF SettingsSurvive
<1>9. ConfIsSettled'
  <2> SUFFICES ASSUME confHarm' = {}, NEW k \in Keys
               PROVE  /\ ~conf'[k].user => settled'[k] = NoValue
                      /\ ~saving' => WillSave(conf')[k] = settled'[k]
    BY DEF ConfIsSettled
  <2>1. settled' = WillSave(conf) /\ conf' = conf
    BY <1>1, <1>7
  <2> QED BY <2>1 DEF WillSave
<1> QED BY <1>1, <1>4, <1>5, <1>8, <1>9 DEF SettingsIInv

LEMMA HarmedSettings ==
  ASSUME SettingsIInv, WriteFails \/ (ConfigSpoilt /\ ~saving), phase' = phase
  PROVE  SettingsIInv'
PROOF
<1>1. confHarm' # {} /\ ~saving' /\ conf' = conf
  BY DEF WriteFails, ConfigSpoilt
<1>2. ConfigTypeOK'
  BY DEF SettingsIInv, ConfigTypeOK, WriteFails, ConfigSpoilt
<1>3. SavingIsShort' /\ ValuesAreTheUsers' /\ SettingsSurvive' /\ ConfIsSettled'
  BY <1>1 DEF SettingsIInv, SavingIsShort, ValuesAreTheUsers, SettingsSurvive, ConfIsSettled
<1> QED BY <1>2, <1>3 DEF SettingsIInv

\* A step that gives up the start, and forgets what was loaded.
LEMMA FailedSettings ==
  ASSUME SettingsIInv, ~saving, conf' = Declared, phase' = "failed",
         UNCHANGED <<confFile, saving, settled, confHarm>>
  PROVE  SettingsIInv'
PROOF
<1>1. ConfigLost
  BY DEF ConfigLost
<1> QED BY <1>1, SettingsWhenDown

LEMMA NextSettings ==
  ASSUME SettingsIInv, [Next]_vars
  PROVE  SettingsIInv'
PROOF
<1>1. CASE UNCHANGED vars
  BY <1>1 DEF vars, configVars, SettingsIInv, ConfigTypeOK, SavingIsShort,
     ValuesAreTheUsers, ConfIsSettled, SettingsSurvive, WillSave
<1>2. CASE Boot
  BY <1>2, BootSettings
<1>3. CASE AskUser
  BY <1>3, AskUserSettings
<1>4. CASE Initial
  <2>1. CASE InitialFails # ""
    BY <1>4, <2>1, FailedSettings DEF Initial
  <2>2. CASE InitialFails = ""
    BY <1>4, <2>2, SettingsKeptAlone DEF Initial
  <2> QED BY <2>1, <2>2
<1>5. CASE LoadTunnel
  <2>1. phase = "tunnels" /\ phase' = phase /\ UNCHANGED configVars /\ ~saving
    BY <1>5 DEF LoadTunnel, SettingsIInv, SavingIsShort
  <2> QED BY <2>1, SettingsKeptAlone
<1>6. CASE Ready
  <2>1. ~saving
    BY <1>6 DEF Ready, SettingsIInv, SavingIsShort
  <2>2. CASE ReadyFails = ""
    BY <1>6, <2>1, <2>2, SettingsKeptAlone DEF Ready
  <2>3. CASE ReadyFails # ""
    BY <1>6, <2>1, <2>3, FailedSettings DEF Ready
  <2> QED BY <2>2, <2>3
<1>7. CASE SaveEnds
  BY <1>7, WriteSettings, HarmedSettings DEF SaveEnds, Untouched
<1>8. CASE Connected
  <2>1. phase = "connect" /\ phase' = "ready" /\ UNCHANGED configVars /\ ~saving
    BY <1>8 DEF Connected, SettingsIInv, SavingIsShort
  <2> QED BY <2>1, SettingsKeptAlone
<1>9. CASE SetConfig
  BY <1>9, SettingsWhenSet DEF SetConfig, Command, Untouched
<1>10. CASE SwitchFeature
  <2>1. PICK f \in {"feature.llama", "feature.other"} :
          SetValue(f, IF f \in Keys /\ GetValue(f) = "True" THEN "False" ELSE "True")
    BY <1>10 DEF SwitchFeature
  <2>2. f \in Keys => f = "feature.llama" /\ {"True", "False"} \subseteq ValuesOf[f]
    BY ShellAssumption
  <2> QED BY <1>10, <2>1, <2>2, SettingsWhenSet DEF SwitchFeature, Command, Untouched
<1>11. CASE Open
  BY <1>11, SettingsWhenSet, ShellAssumption DEF Open, Command, Untouched
<1>12. CASE Connect \/ NodeAdd \/ NodeRm \/ NodeCreate
  <2>1. /\ phase = "ready" /\ ~saving /\ UNCHANGED configVars
        /\ phase' \in {"ready", "connect", "build"}
    BY <1>12 DEF Connect, NodeAdd, NodeRm, NodeCreate, Command
  <2> QED BY <2>1, SettingsKeptAlone
<1>13. CASE ModelPath \/ ModelUrl \/ Option \/ ExternParams \/ BuildImage \/ Run
  <2>1. /\ phase = "build" /\ UNCHANGED configVars
        /\ phase' \in {"ready", "build"}
    BY <1>13 DEF ModelPath, ModelUrl, Option, ExternParams, BuildImage, Tool, Run,
       RunService, Building, BuildOnly
  <2>2. ~saving
    BY <2>1 DEF SettingsIInv, SavingIsShort
  <2> QED BY <2>1, <2>2, SettingsKeptAlone
<1>14. CASE CommandRaises \/ Exit \/ Crash
  BY <1>14, SettingsWhenDown DEF CommandRaises, Exit, Crash, GoDown
<1>15. CASE Spoil
  <2>1. ~saving /\ phase' = phase
    BY <1>15 DEF Spoil
  <2>2. CASE ConfigSpoilt
    BY <2>1, <2>2, HarmedSettings
  <2>3. CASE UNCHANGED configVars
    BY <2>1, <2>3 DEF configVars, SettingsIInv, ConfigTypeOK, SavingIsShort,
       ValuesAreTheUsers, ConfIsSettled, SettingsSurvive, WillSave
  <2> QED BY <1>15, <2>2, <2>3 DEF Spoil
<1>16. CASE ContactsSaved
  <2>1. /\ phase \in {"tunnels", "ready", "connect", "build"} /\ phase' = phase
        /\ UNCHANGED configVars
    BY <1>16 DEF ContactsSaved
  <2>2. saving => phase' \in {"initial", "ready"}
    BY <2>1 DEF SettingsIInv, SavingIsShort
  <2> QED BY <2>1, <2>2, SettingsKeptAlone
<1> QED BY <1>1, <1>2, <1>3, <1>4, <1>5, <1>6, <1>7, <1>8, <1>9, <1>10, <1>11, <1>12,
           <1>13, <1>14, <1>15, <1>16 DEF Next, Runs, Commands

LEMMA InitSettings == Init => SettingsIInv
PROOF
<1> SUFFICES ASSUME Init PROVE SettingsIInv
  OBVIOUS
<1>1. ConfigTypeOK
  BY ValueFacts DEF Init, ConfigInit, ConfigTypeOK, Declared, Nothing
<1>2. SavingIsShort /\ ValuesAreTheUsers /\ ConfIsSettled /\ SettingsSurvive
  BY DEF Init, ConfigInit, SavingIsShort, ValuesAreTheUsers, ConfIsSettled,
     SettingsSurvive, Declared
<1> QED BY <1>1, <1>2 DEF SettingsIInv, Init

\* The settings keep their invariant: in memory, in the file and between the
\* truncation of the file and the write (UserConfig).
THEOREM SettingsInvariance == Spec => []SettingsIInv
PROOF
BY InitSettings, NextSettings, PTL DEF Spec

-----------------------------------------------------------------------------
(* The tunnels.                                                              *)

Named(t) == [key |-> t, tid |-> t]

TunnelsTyped ==
  /\ commands \in 0 .. MaxCommands
  /\ faults \in 0 .. MaxFaults
  /\ daemon \in BOOLEAN
  /\ skipped \in BOOLEAN
  /\ tunnelFile \in {Unreadable} \cup BoundedSeq(Entry, MaxTunnels)
  /\ toLoad \in BoundedSeq(Entry, MaxTunnels)
  /\ started \in [TunnelIds -> Nat]
  /\ connecting \subseteq KnownIds
  /\ promised \subseteq KnownIds

\* Instances of a tunnel: one for each entry of the file that has been gone
\* through, and one for each command that connected it.
StartsCounted ==
  \A t \in TunnelIds :
    /\ phase \in {"down", "failed", "ask", "initial"} => started[t] = 0
    /\ phase = "tunnels" => started[t] + Len(toLoad) <= MaxTunnels
    /\ phase = "connect" => started[t] + 1 <= MaxTunnels + commands
    /\ phase \in {"ready", "build"} => started[t] <= MaxTunnels + commands

\* A promised tunnel is an entry of the file ...
PromisedAreWritten ==
  promised # {} =>
    /\ tunnelFile # Unreadable
    /\ \A t \in promised : \E i \in DOMAIN tunnelFile : tunnelFile[i] = Named(t)

\* ... and runs, or will when the rest of the file has been gone through.
PromisedComeBack ==
  ~skipped =>
    /\ phase \in {"ready", "connect", "build"} => \A t \in promised : started[t] > 0
    /\ phase = "tunnels" =>
         \A t \in promised :
           started[t] > 0 \/ \E i \in DOMAIN toLoad : toLoad[i] = Named(t)

TunnelsIInv ==
  TunnelsTyped /\ StartsCounted /\ PromisedAreWritten /\ PromisedComeBack

LEMMA BoundedFacts ==
  \A s : s \in BoundedSeq(Entry, MaxTunnels) <=> s \in Seq(Entry) /\ Len(s) <= MaxTunnels
PROOF
<1>1. MaxTunnels \in Nat
  BY BoundAssumption
<1>2. ASSUME NEW s \in BoundedSeq(Entry, MaxTunnels)
      PROVE  s \in Seq(Entry) /\ Len(s) <= MaxTunnels
  <2>1. PICK m \in 0 .. MaxTunnels : s \in [1 .. m -> Entry]
    BY DEF BoundedSeq, SeqOf
  <2>2. m \in Nat /\ m <= MaxTunnels
    BY <1>1
  <2>3. s \in Seq(Entry)
    BY <2>1, <2>2, SeqDef
  <2>4. Len(s) = m
    BY <2>1, <2>2, <2>3, LenProperties
  <2> QED BY <2>2, <2>3, <2>4
<1>3. ASSUME NEW s \in Seq(Entry), Len(s) <= MaxTunnels
      PROVE  s \in BoundedSeq(Entry, MaxTunnels)
  <2>1. Len(s) \in 0 .. MaxTunnels /\ s \in [1 .. Len(s) -> Entry]
    BY <1>1, <1>3, LenProperties
  <2> QED BY <2>1 DEF BoundedSeq, SeqOf
<1> QED BY <1>2, <1>3

LEMMA EmptyBounded == <<>> \in BoundedSeq(Entry, MaxTunnels) /\ Len(<<>>) = 0
PROOF
<1>1. <<>> \in Seq(Entry) /\ Len(<<>>) = 0
  BY EmptySeq
<1>2. Len(<<>>) <= MaxTunnels
  BY <1>1, BoundAssumption
<1>3. <<>> \in BoundedSeq(Entry, MaxTunnels)
  BY <1>1, <1>2, BoundedFacts
<1> QED BY <1>1, <1>3

\* The rest of a short file is short.
LEMMA TailBounded ==
  ASSUME NEW s \in BoundedSeq(Entry, MaxTunnels), s # <<>>
  PROVE  Tail(s) \in BoundedSeq(Entry, MaxTunnels)
PROOF
<1>1. s \in Seq(Entry) /\ Len(s) <= MaxTunnels
  BY BoundedFacts
<1>2. Len(s) \in Nat
  BY <1>1, LenProperties
<1>3. Tail(s) \in Seq(Entry) /\ Len(Tail(s)) = Len(s) - 1
  BY <1>1, HeadTailProperties
<1>4. Len(Tail(s)) <= MaxTunnels
  BY <1>1, <1>2, <1>3, BoundAssumption
<1> QED BY <1>3, <1>4, BoundedFacts

\* Writing a tunnel to the file puts its entry there and leaves the entries of
\* others where they are.
LEMMA AppendedFacts ==
  ASSUME NEW file \in BoundedSeq(Entry, MaxTunnels), NEW t \in TunnelIds,
         Len(file) < MaxTunnels \/ t \in KeysOf(file)
  PROVE  /\ Appended(file, t) \in BoundedSeq(Entry, MaxTunnels)
         /\ \E i \in DOMAIN Appended(file, t) : Appended(file, t)[i] = Named(t)
         /\ \A u \in TunnelIds :
              (\E i \in DOMAIN file : file[i] = Named(u)) =>
                \E i \in DOMAIN Appended(file, t) : Appended(file, t)[i] = Named(u)
PROOF
<1>1. file \in Seq(Entry) /\ Len(file) <= MaxTunnels /\ MaxTunnels \in Nat
  BY BoundedFacts, BoundAssumption
<1>2. Len(file) \in Nat /\ DOMAIN file = 1 .. Len(file) /\ file \in [1 .. Len(file) -> Entry]
  BY <1>1, LenProperties
<1>3. Named(t) \in Entry
  BY DEF Named, Entry
<1>4. CASE t \in KeysOf(file)
  <2> DEFINE new == [i \in DOMAIN file |-> IF file[i].key = t THEN Named(t) ELSE file[i]]
  <2>1. Appended(file, t) = new
    BY <1>4 DEF Appended, Named
  <2>2. new \in [1 .. Len(file) -> Entry]
    BY <1>2, <1>3
  <2>3. Len(file) \in 0 .. MaxTunnels
    BY <1>1, <1>2
  <2>4. new \in BoundedSeq(Entry, MaxTunnels)
    BY <2>2, <2>3 DEF BoundedSeq, SeqOf
  <2>5. PICK i \in DOMAIN file : file[i].key = t
    BY <1>4 DEF KeysOf
  <2>6. i \in DOMAIN new /\ new[i] = Named(t)
    BY <2>5
  <2>7. ASSUME NEW u \in TunnelIds, NEW j \in DOMAIN file, file[j] = Named(u)
        PROVE  j \in DOMAIN new /\ new[j] = Named(u)
    BY <2>7 DEF Named
  <2> HIDE DEF new
  <2> QED BY <2>1, <2>4, <2>6, <2>7
<1>5. CASE t \notin KeysOf(file)
  <2>1. Appended(file, t) = Append(file, Named(t))
    BY <1>5 DEF Appended, Named
  <2> DEFINE new == Append(file, Named(t))
  <2>2. /\ new \in Seq(Entry)
        /\ Len(new) = Len(file) + 1
        /\ \A i \in 1 .. Len(file) : new[i] = file[i]
        /\ new[Len(file) + 1] = Named(t)
    BY <1>1, <1>3, AppendProperties
  <2> HIDE DEF new
  <2>3. Len(new) <= MaxTunnels
    BY <1>1, <1>2, <1>5, <2>2
  <2>4. new \in BoundedSeq(Entry, MaxTunnels)
    BY <2>2, <2>3, BoundedFacts
  <2>5. DOMAIN new = 1 .. Len(file) + 1
    BY <2>2, LenProperties
  <2>6. Len(file) + 1 \in DOMAIN new /\ \A i \in DOMAIN file : i \in DOMAIN new
    BY <1>2, <2>5
  <2>7. Appended(file, t) = new
    BY <2>1 DEF new
  <2> QED BY <1>2, <2>2, <2>4, <2>6, <2>7
<1> QED BY <1>4, <1>5

Early == {"down", "failed", "ask", "initial"}

\* A step that leaves the tunnels alone.
LEMMA TunnelsAlone ==
  ASSUME TunnelsIInv, UNCHANGED <<tunnelFile, toLoad, started, connecting, promised>>,
         commands' \in 0 .. MaxCommands, commands' >= commands,
         faults' \in 0 .. MaxFaults, daemon' \in BOOLEAN, skipped' \in BOOLEAN,
         \/ phase' = phase /\ skipped' = skipped
         \/ phase \in Early /\ phase' \in Early
         \/ phase \in {"ready", "build"} /\ phase' \in {"ready", "build"} /\ skipped' = skipped
  PROVE  TunnelsIInv'
PROOF
<1>1. TunnelsTyped'
  BY DEF TunnelsIInv, TunnelsTyped
<1>2. StartsCounted'
  <2> SUFFICES ASSUME NEW t \in TunnelIds
               PROVE  StartsCounted!(t)'
    BY DEF StartsCounted
  <2>1. StartsCounted!(t) /\ commands \in Nat /\ commands' \in Nat /\ started[t] \in Nat
    BY DEF TunnelsIInv, StartsCounted, TunnelsTyped
  <2> QED BY <2>1, BoundAssumption DEF Early
<1>3. PromisedAreWritten'
  BY DEF TunnelsIInv, PromisedAreWritten
<1>4. PromisedComeBack'
  BY DEF TunnelsIInv, PromisedComeBack, Early
<1> QED BY <1>1, <1>2, <1>3, <1>4 DEF TunnelsIInv

\* A step that ends the program.
LEMMA TunnelsWhenDown ==
  ASSUME TunnelsIInv, phase' \in {"down", "failed"},
         started' = [t \in TunnelIds |-> 0],
         toLoad' \in {toLoad, <<>>}, connecting' \in {connecting, {}},
         \/ UNCHANGED <<tunnelFile, promised>>
         \/ tunnelFile' = <<>> /\ promised' = {},
         commands' \in 0 .. MaxCommands,
         faults' \in 0 .. MaxFaults, UNCHANGED <<daemon, skipped>>
  PROVE  TunnelsIInv'
PROOF
<1>1. <<>> \in BoundedSeq(Entry, MaxTunnels)
  BY EmptyBounded
<1>2. TunnelsTyped'
  BY <1>1 DEF TunnelsIInv, TunnelsTyped
<1>3. StartsCounted'
  BY DEF StartsCounted
<1>4. PromisedAreWritten'
  BY DEF TunnelsIInv, PromisedAreWritten
<1>5. PromisedComeBack'
  BY DEF PromisedComeBack
<1> QED BY <1>2, <1>3, <1>4, <1>5 DEF TunnelsIInv

\* The file is read: all that was promised is in it.
LEMMA InitialTunnels ==
  ASSUME TunnelsIInv, Initial
  PROVE  TunnelsIInv'
PROOF
<1>1. CASE InitialFails # ""
  <2>1. phase \in Early /\ phase' \in Early
    BY <1>1 DEF Initial, Early
  <2>2. UNCHANGED <<tunnelVars, daemon, faults, commands>>
    BY <1>1 DEF Initial
  <2> QED BY <2>1, <2>2, TunnelsAlone DEF tunnelVars, TunnelsIInv, TunnelsTyped
<1>2. CASE InitialFails = ""
  <2>1. /\ phase = "initial" /\ phase' = "tunnels"
        /\ toLoad' = IF tunnelFile = Unreadable THEN <<>> ELSE tunnelFile
        /\ UNCHANGED <<tunnelFile, started, connecting, skipped, promised, daemon, faults,
                       commands>>
    BY <1>2 DEF Initial
  <2>2. TunnelsTyped
    BY DEF TunnelsIInv
  <2>3. toLoad' \in BoundedSeq(Entry, MaxTunnels)
    BY <2>1, <2>2, EmptyBounded DEF TunnelsTyped
  <2>4. TunnelsTyped'
    BY <2>1, <2>2, <2>3 DEF TunnelsTyped
  <2>5. StartsCounted'
    <3>1. Len(toLoad') <= MaxTunnels /\ Len(toLoad') \in Nat
      BY <2>3, BoundedFacts, LenProperties
    <3>2. \A t \in TunnelIds : started[t] = 0
      BY <2>1 DEF TunnelsIInv, StartsCounted
    <3> QED BY <2>1, <3>1, <3>2 DEF StartsCounted
  <2>6. PromisedAreWritten'
    BY <2>1 DEF TunnelsIInv, PromisedAreWritten
  <2>7. PromisedComeBack'
    BY <2>1 DEF TunnelsIInv, PromisedAreWritten, PromisedComeBack
  <2> QED BY <2>4, <2>5, <2>6, <2>7 DEF TunnelsIInv
<1> QED BY <1>1, <1>2

\* An entry is gone through: a promised tunnel is started, as its entry is neither
\* skipped nor, unless that is noted, refused.
LEMMA LoadTunnels ==
  ASSUME TunnelsIInv, LoadTunnel
  PROVE  TunnelsIInv'
PROOF
<1> DEFINE e == Head(toLoad)
           loads == e.key = e.tid /\ e.key \in KnownIds
<1>1. /\ phase = "tunnels" /\ phase' = "tunnels" /\ toLoad # <<>>
      /\ UNCHANGED <<daemon, commands, tunnelFile, connecting, promised>>
  BY DEF LoadTunnel
<1>2. /\ ~loads => toLoad' = Tail(toLoad) /\ started' = started /\ skipped' = skipped
      /\ loads => \/ /\ toLoad' = Tail(toLoad) /\ skipped' = skipped
                     /\ started' = [started EXCEPT ![e.key] = @ + 1]
                  \/ /\ toLoad' \in {Tail(toLoad), <<>>} /\ skipped' = TRUE
                     /\ started' = started
  BY DEF LoadTunnel
<1>3. faults' = faults \/ (faults < MaxFaults /\ faults' = faults + 1)
  BY DEF LoadTunnel, Fault
<1>4. TunnelsTyped
  BY DEF TunnelsIInv
<1>5. toLoad \in Seq(Entry) /\ Len(toLoad) <= MaxTunnels /\ MaxTunnels \in Nat /\ MaxFaults \in Nat
  BY <1>4, BoundedFacts, BoundAssumption DEF TunnelsTyped
<1>6. /\ Tail(toLoad) \in Seq(Entry) /\ Len(Tail(toLoad)) = Len(toLoad) - 1
      /\ \A i \in 1 .. Len(Tail(toLoad)) : Tail(toLoad)[i] = toLoad[i + 1]
      /\ e \in Entry /\ e = toLoad[1]
  BY <1>1, <1>5, HeadTailProperties
<1>7. Len(toLoad) \in Nat /\ Len(toLoad) > 0 /\ DOMAIN toLoad = 1 .. Len(toLoad)
  BY <1>1, <1>5, LenProperties, EmptySeq
<1>8. <<>> \in BoundedSeq(Entry, MaxTunnels) /\ Len(<<>>) = 0
  BY EmptyBounded
<1>9. Tail(toLoad) \in BoundedSeq(Entry, MaxTunnels)
  BY <1>1, <1>4, TailBounded DEF TunnelsTyped
<1>10. toLoad' \in {Tail(toLoad), <<>>}
  BY <1>2
<1>11. e.key \in TunnelIds
  BY <1>6 DEF Entry
<1>12. TunnelsTyped'
  <2>1. faults' \in 0 .. MaxFaults
    BY <1>3, <1>4, <1>5 DEF TunnelsTyped
  <2>2. started' \in [TunnelIds -> Nat]
    BY <1>2, <1>4, <1>11 DEF TunnelsTyped
  <2>3. skipped' \in BOOLEAN
    BY <1>2, <1>4 DEF TunnelsTyped
  <2>4. toLoad' \in BoundedSeq(Entry, MaxTunnels)
    BY <1>8, <1>9, <1>10
  <2> QED BY <1>1, <1>4, <2>1, <2>2, <2>3, <2>4 DEF TunnelsTyped
<1>13. StartsCounted'
  <2> SUFFICES ASSUME NEW t \in TunnelIds
               PROVE  started'[t] + Len(toLoad') <= MaxTunnels
    BY <1>1 DEF StartsCounted
  <2>1. started[t] + Len(toLoad) <= MaxTunnels /\ started[t] \in Nat
    BY <1>1, <1>4 DEF TunnelsIInv, StartsCounted, TunnelsTyped
  <2>2. Len(toLoad') <= Len(toLoad) - 1 /\ Len(toLoad') \in Nat
    BY <1>6, <1>7, <1>8, <1>10
  <2>3. started'[t] <= started[t] + 1 /\ started'[t] \in Nat
    BY <1>2, <1>4, <2>1 DEF TunnelsTyped
  <2> QED BY <1>5, <1>7, <2>1, <2>2, <2>3
<1>14. PromisedAreWritten'
  BY <1>1 DEF TunnelsIInv, PromisedAreWritten
<1>15. PromisedComeBack'
  <2> SUFFICES ASSUME ~skipped', NEW t \in promised
               PROVE  started'[t] > 0 \/ \E i \in DOMAIN toLoad' : toLoad'[i] = Named(t)
    BY <1>1 DEF PromisedComeBack
  <2>1. toLoad' = Tail(toLoad) /\ ~skipped
    BY <1>2
  <2>2. t \in KnownIds /\ t \in TunnelIds
    BY <1>4, TunnelAssumption DEF TunnelsTyped
  <2>3. \A u \in TunnelIds : started[u] > 0 => started'[u] > 0
    BY <1>2, <1>4, <1>11 DEF TunnelsTyped
  <2>4. CASE started[t] > 0
    BY <2>2, <2>3, <2>4
  <2>5. CASE e = Named(t)
    <3>1. loads /\ e.key = t
      BY <2>2, <2>5 DEF Named
    <3>2. started'[t] = started[t] + 1
      BY <1>2, <1>4, <2>2, <3>1 DEF TunnelsTyped
    <3> QED BY <1>4, <2>2, <3>2 DEF TunnelsTyped
  <2>6. CASE ~(started[t] > 0) /\ e # Named(t)
    <3>1. PICK i \in DOMAIN toLoad : toLoad[i] = Named(t)
      BY <1>1, <2>1, <2>6 DEF TunnelsIInv, PromisedComeBack
    <3>2. i \in 2 .. Len(toLoad)
      BY <1>6, <1>7, <2>6, <3>1
    <3>3. i - 1 \in 1 .. Len(Tail(toLoad)) /\ toLoad[i] = toLoad[(i - 1) + 1]
      BY <1>6, <1>7, <3>2
    <3>4. Tail(toLoad)[i - 1] = Named(t)
      BY <1>6, <3>1, <3>3
    <3>5. i - 1 \in DOMAIN Tail(toLoad)
      BY <1>6, <3>3, LenProperties
    <3> QED BY <2>1, <3>4, <3>5
  <2> QED BY <2>4, <2>5, <2>6
<1> QED BY <1>12, <1>13, <1>14, <1>15 DEF TunnelsIInv

\* All entries have been gone through, so that what was promised runs.
LEMMA ReadyTunnels ==
  ASSUME TunnelsIInv, Ready
  PROVE  TunnelsIInv'
PROOF
<1>1. /\ phase = "tunnels" /\ toLoad = <<>>
      /\ UNCHANGED <<daemon, faults, commands, tunnelFile, toLoad, connecting, skipped, promised>>
  BY DEF Ready
<1>2. \/ phase' = "ready" /\ started' = started
      \/ phase' = "failed" /\ started' = [t \in TunnelIds |-> 0]
  BY DEF Ready
<1>3. TunnelsTyped
  BY DEF TunnelsIInv
<1>4. TunnelsTyped'
  BY <1>1, <1>2, <1>3 DEF TunnelsTyped
<1>5. StartsCounted'
  <2> SUFFICES ASSUME phase' = "ready", NEW t \in TunnelIds
               PROVE  started'[t] <= MaxTunnels + commands'
    BY <1>2 DEF StartsCounted
  <2>1. started[t] + Len(toLoad) <= MaxTunnels /\ started[t] \in Nat /\ commands \in Nat
    BY <1>1, <1>3 DEF TunnelsIInv, StartsCounted, TunnelsTyped
  <2>2. Len(toLoad) = 0
    BY <1>1, EmptySeq
  <2> QED BY <1>1, <1>2, <2>1, <2>2, BoundAssumption
<1>6. PromisedAreWritten'
  BY <1>1 DEF TunnelsIInv, PromisedAreWritten
<1>7. PromisedComeBack'
  <2>1. DOMAIN toLoad = {}
    BY <1>1
  <2> QED BY <1>1, <1>2, <2>1 DEF TunnelsIInv, PromisedComeBack
<1> QED BY <1>4, <1>5, <1>6, <1>7 DEF TunnelsIInv

\* One more command fits into the bound, and so does one more fault.
LEMMA CountedFacts ==
  ASSUME TunnelsIInv
  PROVE  /\ commands \in 0 .. MaxCommands /\ faults \in 0 .. MaxFaults
         /\ Command => commands' \in 0 .. MaxCommands /\ commands' = commands + 1
         /\ Fault => faults' \in 0 .. MaxFaults
PROOF
<1>1. commands \in 0 .. MaxCommands /\ faults \in 0 .. MaxFaults
  BY DEF TunnelsIInv, TunnelsTyped
<1>2. MaxCommands \in Nat /\ MaxFaults \in Nat
  BY BoundAssumption
<1>3. Command => commands' \in 0 .. MaxCommands /\ commands' = commands + 1
  BY <1>1, <1>2 DEF Command
<1>4. Fault => faults' \in 0 .. MaxFaults
  BY <1>1, <1>2 DEF Fault
<1> QED BY <1>1, <1>3, <1>4

LEMMA ConnectTunnels ==
  ASSUME TunnelsIInv, Connect
  PROVE  TunnelsIInv'
PROOF
<1>1. /\ phase = "ready" /\ phase' = "connect" /\ connecting' \subseteq KnownIds
      /\ UNCHANGED <<daemon, faults, tunnelFile, toLoad, started, skipped, promised>>
  BY DEF Connect, Command
<1>2. commands' \in 0 .. MaxCommands /\ commands' = commands + 1
  BY CountedFacts DEF Connect
<1>3. TunnelsTyped'
  BY <1>1, <1>2 DEF TunnelsIInv, TunnelsTyped
<1>4. StartsCounted'
  <2> SUFFICES ASSUME NEW t \in TunnelIds
               PROVE  started[t] + 1 <= MaxTunnels + commands'
    BY <1>1 DEF StartsCounted
  <2>1. started[t] <= MaxTunnels + commands /\ started[t] \in Nat /\ commands \in Nat
    BY <1>1 DEF TunnelsIInv, TunnelsTyped, StartsCounted
  <2> QED BY <1>2, <2>1, BoundAssumption
<1>5. PromisedAreWritten'
  BY <1>1 DEF TunnelsIInv, PromisedAreWritten
<1>6. PromisedComeBack'
  BY <1>1 DEF TunnelsIInv, PromisedComeBack
<1> QED BY <1>3, <1>4, <1>5, <1>6 DEF TunnelsIInv

\* The tunnel is written to the file and runs; or it runs and the file is what it
\* was, or empty.
LEMMA ConnectedTunnels ==
  ASSUME TunnelsIInv, Connected
  PROVE  TunnelsIInv'
PROOF
<1> DEFINE file == IF tunnelFile = Unreadable THEN <<>> ELSE tunnelFile
<1>1. PICK t \in connecting :
        /\ started' = [started EXCEPT ![t] = @ + 1]
        /\ Len(file) < MaxTunnels \/ t \in KeysOf(file)
        /\ \/ /\ tunnelFile' = Appended(file, t)
              /\ promised' = promised \cup {t}
              /\ UNCHANGED faults
           \/ Fault /\ UNCHANGED <<tunnelFile, promised>>
           \/ Fault /\ tunnelFile' = <<>> /\ promised' = {}
  BY DEF Connected
<1>2. /\ phase = "connect" /\ phase' = "ready" /\ connecting' = {}
      /\ UNCHANGED <<daemon, commands, toLoad, skipped>>
  BY DEF Connected
<1>3. TunnelsTyped
  BY DEF TunnelsIInv
<1>4. t \in KnownIds /\ t \in TunnelIds
  BY <1>1, <1>3, TunnelAssumption DEF TunnelsTyped
<1>5. file \in BoundedSeq(Entry, MaxTunnels)
  BY <1>3, EmptyBounded DEF TunnelsTyped
<1>6. /\ Appended(file, t) \in BoundedSeq(Entry, MaxTunnels)
      /\ \E i \in DOMAIN Appended(file, t) : Appended(file, t)[i] = Named(t)
      /\ \A u \in TunnelIds :
           (\E i \in DOMAIN file : file[i] = Named(u)) =>
             \E i \in DOMAIN Appended(file, t) : Appended(file, t)[i] = Named(u)
  BY <1>1, <1>4, <1>5, AppendedFacts
<1>7. faults' \in 0 .. MaxFaults
  BY <1>1, CountedFacts
<1>8. started' \in [TunnelIds -> Nat]
  BY <1>1, <1>3, <1>4 DEF TunnelsTyped
<1>9. tunnelFile' \in {Unreadable} \cup BoundedSeq(Entry, MaxTunnels)
  BY <1>1, <1>3, <1>6, EmptyBounded DEF TunnelsTyped
<1>10. promised' \subseteq KnownIds
  BY <1>1, <1>3, <1>4 DEF TunnelsTyped
<1>11. TunnelsTyped'
  BY <1>2, <1>3, <1>7, <1>8, <1>9, <1>10 DEF TunnelsTyped
<1>12. StartsCounted'
  <2> SUFFICES ASSUME NEW u \in TunnelIds
               PROVE  started'[u] <= MaxTunnels + commands
    BY <1>2 DEF StartsCounted
  <2>1. started[u] + 1 <= MaxTunnels + commands /\ started[u] \in Nat /\ commands \in Nat
    BY <1>2, <1>3 DEF TunnelsIInv, TunnelsTyped, StartsCounted
  <2>2. started'[u] \in {started[u], started[u] + 1}
    BY <1>1, <1>3 DEF TunnelsTyped
  <2> QED BY <2>1, <2>2, BoundAssumption
<1>13. PromisedAreWritten'
  <2>1. CASE tunnelFile' = Appended(file, t) /\ promised' = promised \cup {t}
    <3>1. tunnelFile' # Unreadable
      BY <1>6, <2>1, TunnelAssumption
    <3>2. ASSUME NEW u \in promised
          PROVE  \E i \in DOMAIN tunnelFile' : tunnelFile'[i] = Named(u)
      <4>1. u \in TunnelIds
        BY <1>3, TunnelAssumption DEF TunnelsTyped
      <4>2. tunnelFile # Unreadable /\ \E i \in DOMAIN tunnelFile : tunnelFile[i] = Named(u)
        BY DEF TunnelsIInv, PromisedAreWritten
      <4> QED BY <1>6, <2>1, <4>1, <4>2
    <3>3. \E i \in DOMAIN tunnelFile' : tunnelFile'[i] = Named(t)
      BY <1>6, <2>1
    <3> QED BY <2>1, <3>1, <3>2, <3>3 DEF PromisedAreWritten
  <2>2. CASE UNCHANGED <<tunnelFile, promised>>
    BY <2>2 DEF TunnelsIInv, PromisedAreWritten
  <2>3. CASE promised' = {}
    BY <2>3 DEF PromisedAreWritten
  <2> QED BY <1>1, <2>1, <2>2, <2>3
<1>14. PromisedComeBack'
  <2> SUFFICES ASSUME ~skipped, NEW u \in promised'
               PROVE  started'[u] > 0
    BY <1>2 DEF PromisedComeBack
  <2>1. u \in TunnelIds /\ started[u] \in Nat
    BY <1>3, <1>10, TunnelAssumption DEF TunnelsTyped
  <2>2. CASE u = t
    BY <1>1, <1>3, <2>1, <2>2 DEF TunnelsTyped
  <2>3. CASE u # t
    <3>1. u \in promised
      BY <1>1, <2>3
    <3>2. started[u] > 0
      BY <1>2, <3>1 DEF TunnelsIInv, PromisedComeBack
    <3> QED BY <1>1, <1>3, <2>1, <2>3, <3>2 DEF TunnelsTyped
  <2> QED BY <2>2, <2>3
<1> QED BY <1>11, <1>12, <1>13, <1>14 DEF TunnelsIInv

LEMMA SpoiltTunnels ==
  ASSUME TunnelsIInv, Spoil
  PROVE  TunnelsIInv'
PROOF
<1>1. /\ UNCHANGED <<phase, daemon, commands, toLoad, started, connecting, skipped>>
      /\ UNCHANGED <<tunnelFile, promised>> \/ (tunnelFile' = Unreadable /\ promised' = {})
  BY DEF Spoil
<1>2. faults' \in 0 .. MaxFaults
  BY CountedFacts DEF Spoil
<1>3. TunnelsTyped'
  BY <1>1, <1>2 DEF TunnelsIInv, TunnelsTyped
<1>4. StartsCounted'
  BY <1>1 DEF TunnelsIInv, StartsCounted
<1>5. PromisedAreWritten'
  BY <1>1 DEF TunnelsIInv, PromisedAreWritten
<1>6. PromisedComeBack'
  BY <1>1 DEF TunnelsIInv, PromisedComeBack
<1> QED BY <1>3, <1>4, <1>5, <1>6 DEF TunnelsIInv

LEMMA NextTunnels == TunnelsIInv /\ [Next]_vars => TunnelsIInv'
PROOF
<1> SUFFICES ASSUME TunnelsIInv, [Next]_vars
             PROVE  TunnelsIInv'
  OBVIOUS
<1> USE DEF tunnelVars
<1>0. /\ commands \in 0 .. MaxCommands /\ faults \in 0 .. MaxFaults
      /\ daemon \in BOOLEAN /\ skipped \in BOOLEAN
  BY DEF TunnelsIInv, TunnelsTyped
<1>1. CASE UNCHANGED vars
  BY <1>0, <1>1, TunnelsAlone DEF vars
<1>2. CASE Boot
  <2>1. /\ phase \in Early /\ phase' \in Early /\ skipped' = FALSE /\ daemon' \in BOOLEAN
        /\ commands < MaxCommands /\ commands' = commands + 1
        /\ UNCHANGED <<faults, tunnelFile, toLoad, started, connecting, promised>>
    BY <1>2 DEF Boot, Early
  <2>2. commands' \in 0 .. MaxCommands /\ commands' >= commands
    BY <1>0, <2>1, BoundAssumption
  <2> QED BY <1>0, <2>1, <2>2, TunnelsAlone
<1>3. CASE AskUser
  <2>1. phase \in Early /\ phase' \in Early /\ UNCHANGED <<daemon, faults, commands, tunnelVars>>
    BY <1>3 DEF AskUser, Early
  <2> QED BY <1>0, <2>1, TunnelsAlone
<1>4. CASE Initial
  BY <1>4, InitialTunnels
<1>5. CASE LoadTunnel
  BY <1>5, LoadTunnels
<1>6. CASE Ready
  BY <1>6, ReadyTunnels
<1>7. CASE SaveEnds
  <2>1. UNCHANGED <<phase, daemon, commands, tunnelVars>>
    BY <1>7 DEF SaveEnds, Untouched
  <2>2. faults' \in 0 .. MaxFaults
    BY <1>0, <1>7, CountedFacts DEF SaveEnds, Untouched
  <2> QED BY <1>0, <2>1, <2>2, TunnelsAlone
<1>8. CASE Connected
  BY <1>8, ConnectedTunnels
<1>9. CASE Connect
  BY <1>9, ConnectTunnels
<1>10. CASE SetConfig \/ SwitchFeature \/ Open \/ NodeAdd \/ NodeRm \/ NodeCreate
  <2>1. /\ Command /\ phase = "ready" /\ phase' \in {"ready", "build"}
        /\ UNCHANGED <<daemon, faults, tunnelVars>>
    BY <1>10 DEF SetConfig, SwitchFeature, Open, NodeAdd, NodeRm, NodeCreate, Untouched, Command
  <2>2. commands' \in 0 .. MaxCommands /\ commands' >= commands
    BY <1>0, <2>1, CountedFacts
  <2> QED BY <1>0, <2>1, <2>2, TunnelsAlone
<1>11. CASE ModelPath \/ ModelUrl \/ Option \/ ExternParams \/ BuildImage \/ Run
  <2>1. /\ phase = "build" /\ phase' \in {"ready", "build"}
        /\ UNCHANGED <<daemon, faults, commands, tunnelVars>>
    BY <1>11 DEF ModelPath, ModelUrl, Option, ExternParams, BuildImage, Tool, Run,
       RunService, Building, BuildOnly
  <2> QED BY <1>0, <2>1, TunnelsAlone
<1>12. CASE CommandRaises \/ Exit
  <2>1. /\ phase' \in {"down", "failed"} /\ started' = [t \in TunnelIds |-> 0]
        /\ toLoad' = <<>> /\ connecting' = {}
        /\ UNCHANGED <<daemon, faults, tunnelFile, skipped, promised>>
    BY <1>12 DEF CommandRaises, Exit, GoDown
  <2>2. commands' \in 0 .. MaxCommands
    BY <1>0, <1>12, CountedFacts DEF CommandRaises, Exit
  <2> QED BY <1>0, <2>1, <2>2, TunnelsWhenDown
<1>13. CASE Crash
  <2>1. /\ phase' \in {"down", "failed"} /\ started' = [t \in TunnelIds |-> 0]
        /\ toLoad' = <<>> /\ connecting' = {}
        /\ UNCHANGED <<daemon, commands, skipped>>
        /\ UNCHANGED <<tunnelFile, promised>> \/ (tunnelFile' = <<>> /\ promised' = {})
    BY <1>13 DEF Crash, GoDown
  <2>2. faults' \in 0 .. MaxFaults
    BY <1>13, CountedFacts DEF Crash
  <2> QED BY <1>0, <2>1, <2>2, TunnelsWhenDown
<1>14. CASE Spoil
  BY <1>14, SpoiltTunnels
<1>15. CASE ContactsSaved
  <2>1. UNCHANGED <<phase, daemon, faults, commands, tunnelVars>>
    BY <1>15 DEF ContactsSaved
  <2> QED BY <1>0, <2>1, TunnelsAlone
<1> QED BY <1>1, <1>2, <1>3, <1>4, <1>5, <1>6, <1>7, <1>8, <1>9, <1>10, <1>11, <1>12,
           <1>13, <1>14, <1>15 DEF Next, Runs, Commands

LEMMA InitTunnels == Init => TunnelsIInv
PROOF
<1> SUFFICES ASSUME Init PROVE TunnelsIInv
  OBVIOUS
<1>1. TunnelsTyped
  <2>1. toLoad \in BoundedSeq(Entry, MaxTunnels)
    BY EmptyBounded DEF Init
  <2>2. tunnelFile \in BoundedSeq(Entry, MaxTunnels)
    BY TunnelAssumption DEF Init
  <2>3. commands \in 0 .. MaxCommands /\ faults \in 0 .. MaxFaults
    <3>1. MaxCommands \in Nat /\ MaxFaults \in Nat
      BY BoundAssumption
    <3>2. commands = 0 /\ faults = 0
      BY DEF Init
    <3> QED BY <3>1, <3>2
  <2> QED BY <2>1, <2>2, <2>3 DEF Init, TunnelsTyped
<1>2. StartsCounted /\ PromisedAreWritten /\ PromisedComeBack
  BY DEF Init, StartsCounted, PromisedAreWritten, PromisedComeBack
<1> QED BY <1>1, <1>2 DEF TunnelsIInv

\* The tunnels keep theirs: what was reported as connected stays in the file and is
\* started with it (append_tunnel_config, load_all_tunnels_from_config).
THEOREM TunnelsInvariance == Spec => []TunnelsIInv
PROOF
BY InitTunnels, NextTunnels, PTL DEF Spec


-----------------------------------------------------------------------------
(* The local nodes and the dialogue that makes one.                          *)

NodesTyped ==
  /\ nodeFile \in {NoFile, NoList} \cup SUBSET NodeIds
  /\ nodeConf \in {NoList} \cup SUBSET NodeIds
  /\ serving \subseteq NodeIds
  /\ nodeHarm \subseteq {"", "rm", "cut off"}

\* A file without a list has had it taken away.
ListIsMissed == nodeFile = NoList => nodeHarm # {}

\* What the running program would save is what it has loaded or saved, and serves.
NodesAgree ==
  Up => /\ nodeConf = IF nodeFile = NoFile THEN NoList ELSE nodeFile
        /\ Listed(nodeConf) \subseteq serving

NodesIInv == NodesTyped /\ ListIsMissed /\ NodesAgree

Models == {"none", "given", "downloaded"}
Stages == {"ask", "git", "git?", "image", "image?", "run", "run?"}

BuildTyped ==
  /\ build \in [step : 0 .. 8, model : Models, stage : Stages]
  /\ why \in {"", "contacts", "settings", "openai", "nodes", "llama", "proxy", "current"}

\* A step that leaves the nodes alone and does not start them.
LEMMA NodesAlone ==
  ASSUME NodesIInv, UNCHANGED <<nodeFile, nodeConf, serving, nodeHarm>>, Up' => Up
  PROVE  NodesIInv'
PROOF
BY DEF NodesIInv, NodesTyped, ListIsMissed, NodesAgree

\* A step that ends the program, possibly in the middle of a save.
LEMMA NodesWhenDown ==
  ASSUME NodesIInv, phase' \in {"down", "failed"},
         nodeConf' \in {nodeConf, NoList}, serving' \in {serving, {}},
         \/ UNCHANGED <<nodeFile, nodeHarm>>
         \/ nodeFile' = NoList /\ nodeHarm' = nodeHarm \cup {"cut off"}
  PROVE  NodesIInv'
PROOF
<1>1. NodesTyped'
  BY DEF NodesIInv, NodesTyped
<1>2. ListIsMissed'
  BY DEF NodesIInv, ListIsMissed
<1>3. NodesAgree'
  BY DEF NodesAgree, Up
<1> QED BY <1>1, <1>2, <1>3 DEF NodesIInv

LEMMA ServedNodes ==
  ASSUME NodesIInv, Up, NEW n \in NodeIds, Serve(n)
  PROVE  NodesIInv'
PROOF
<1>1. Listed(nodeConf) \cup {n} \in SUBSET NodeIds
  BY DEF NodesIInv, NodesTyped, Listed
<1>2. Listed(nodeConf) \cup {n} # NoList /\ Listed(nodeConf) \cup {n} # NoFile
  BY <1>1, ShellAssumption
<1>3. /\ nodeConf' = Listed(nodeConf) \cup {n}
      /\ nodeFile' = nodeConf' /\ nodeHarm' = nodeHarm
      /\ serving' = serving \cup {n}
  BY <1>2 DEF Serve, SaveNodes
<1>4. NodesTyped'
  BY <1>1, <1>3 DEF NodesIInv, NodesTyped
<1>5. Listed(nodeConf)' \subseteq serving'
  BY <1>2, <1>3 DEF NodesIInv, NodesAgree, Listed
<1>6. ListIsMissed' /\ NodesAgree'
  BY <1>2, <1>3, <1>5 DEF ListIsMissed, NodesAgree
<1> QED BY <1>4, <1>6 DEF NodesIInv

LEMMA RemovedNodes ==
  ASSUME NodesIInv, NodeRm
  PROVE  NodesIInv'
PROOF
<1>1. PICK n \in NodeIds : SaveNodes(Without(nodeConf, n), "rm")
  BY DEF NodeRm
<1>2. phase = "ready" /\ phase' = "ready" /\ serving' = serving
  BY DEF NodeRm, Command
<1>3. /\ nodeConf' = Without(nodeConf, n) /\ nodeFile' = nodeConf'
      /\ nodeHarm' = IF nodeConf' = NoList THEN nodeHarm \cup {"rm"} ELSE nodeHarm
  BY <1>1 DEF SaveNodes
<1>4. Without(nodeConf, n) \in {NoList} \cup SUBSET NodeIds
  BY DEF NodesIInv, NodesTyped, Without
<1>5. Without(nodeConf, n) # NoFile
  BY <1>4, ShellAssumption
<1>6. Listed(Without(nodeConf, n)) \subseteq Listed(nodeConf)
  BY DEF Listed, Without
<1>7. NodesTyped'
  BY <1>2, <1>3, <1>4 DEF NodesIInv, NodesTyped
<1>8. ListIsMissed'
  BY <1>3 DEF ListIsMissed
<1>9. Listed(nodeConf)' \subseteq serving'
  BY <1>2, <1>3, <1>6 DEF NodesIInv, NodesAgree, Up, Listed
<1>10. NodesAgree'
  BY <1>3, <1>5, <1>9 DEF NodesAgree
<1> QED BY <1>7, <1>8, <1>10 DEF NodesIInv

LEMMA InitialNodes ==
  ASSUME NodesIInv, Initial
  PROVE  NodesIInv'
PROOF
<1>1. CASE InitialFails # ""
  <2>1. phase' = "failed" /\ UNCHANGED nodeVars
    BY <1>1 DEF Initial
  <2> QED BY <2>1, NodesAlone DEF Up, nodeVars
<1>2. CASE InitialFails = ""
  <2>1. /\ nodeConf' = IF nodeFile = NoFile THEN NoList ELSE nodeFile
        /\ serving' = IF nodeFile = NoFile THEN {} ELSE nodeFile
        /\ UNCHANGED <<nodeFile, nodeHarm>>
    BY <1>2 DEF Initial
  <2>2. nodeFile # NoList
    BY <1>2 DEF InitialFails
  <2>3. nodeFile \in {NoFile} \cup SUBSET NodeIds
    BY <2>2 DEF NodesIInv, NodesTyped
  <2>4. NodesTyped'
    BY <2>1, <2>3 DEF NodesIInv, NodesTyped
  <2>5. Listed(nodeConf)' \subseteq serving'
    BY <2>1, <2>2 DEF Listed
  <2>6. ListIsMissed' /\ NodesAgree'
    BY <2>1, <2>2, <2>5 DEF ListIsMissed, NodesAgree
  <2> QED BY <2>4, <2>6 DEF NodesIInv
<1> QED BY <1>1, <1>2

LEMMA NextNodes == NodesIInv /\ [Next]_vars => NodesIInv'
PROOF
<1> SUFFICES ASSUME NodesIInv, [Next]_vars
             PROVE  NodesIInv'
  OBVIOUS
<1>1. CASE UNCHANGED vars
  BY <1>1, NodesAlone DEF vars, nodeVars, Up
<1>2. CASE Boot
  BY <1>2, NodesAlone DEF Boot, nodeVars, Up
<1>3. CASE AskUser
  BY <1>3, NodesAlone DEF AskUser, nodeVars, Up
<1>4. CASE Initial
  BY <1>4, InitialNodes
<1>5. CASE LoadTunnel
  <2>1. UNCHANGED <<phase, nodeVars>>
    BY <1>5 DEF LoadTunnel
  <2> QED BY <2>1, NodesAlone DEF nodeVars, Up
<1>6. CASE Ready
  <2>1. CASE phase' = "ready"
    <3>1. phase = "tunnels" /\ UNCHANGED <<nodeFile, nodeConf, serving, nodeHarm>>
      BY <1>6, <2>1 DEF Ready
    <3> QED BY <3>1, NodesAlone DEF Up
  <2>2. CASE phase' = "failed"
    <3>1. nodeConf' = NoList /\ serving' = {} /\ UNCHANGED <<nodeFile, nodeHarm>>
      BY <1>6, <2>2 DEF Ready
    <3> QED BY <2>2, <3>1, NodesWhenDown
  <2> QED BY <1>6, <2>1, <2>2 DEF Ready
<1>7. CASE SaveEnds \/ SetConfig \/ SwitchFeature \/ Open
  BY <1>7, NodesAlone DEF SaveEnds, SetConfig, SwitchFeature, Open, Untouched, nodeVars, Up
<1>8. CASE Connected \/ Connect \/ NodeCreate
  BY <1>8, NodesAlone DEF Connected, Connect, NodeCreate, Command, nodeVars, Up
<1>9. CASE NodeAdd
  <2>1. phase = "ready"
    BY <1>9 DEF NodeAdd, Command
  <2> QED BY <1>9, <2>1, ServedNodes DEF NodeAdd, Up
<1>10. CASE NodeRm
  BY <1>10, RemovedNodes
<1>11. CASE ModelPath \/ ModelUrl \/ Option \/ ExternParams \/ BuildImage
  <2>1. UNCHANGED <<phase, nodeFile, nodeConf, serving, nodeHarm>>
    BY <1>11 DEF ModelPath, ModelUrl, Option, ExternParams, BuildImage, BuildOnly
  <2> QED BY <2>1, NodesAlone DEF Up
<1>12. CASE Run
  <2>1. phase = "build"
    BY <1>12 DEF Run, RunService, Building
  <2>2. CASE \E n \in NodeIds : Serve(n)
    BY <2>1, <2>2, ServedNodes DEF Up
  <2>3. CASE UNCHANGED <<nodeFile, nodeConf, serving, nodeHarm>>
    BY <2>1, <2>3, NodesAlone DEF Up
  <2> QED BY <1>12, <2>2, <2>3 DEF Run, RunService
<1>13. CASE CommandRaises \/ Exit \/ Crash
  <2>1. phase' \in {"down", "failed"} /\ nodeConf' = NoList /\ serving' = {}
    BY <1>13 DEF CommandRaises, Exit, Crash, GoDown
  <2>2. \/ UNCHANGED <<nodeFile, nodeHarm>>
        \/ nodeFile' = NoList /\ nodeHarm' = nodeHarm \cup {"cut off"}
    BY <1>13 DEF CommandRaises, Exit, Crash
  <2> QED BY <2>1, <2>2, NodesWhenDown
<1>14. CASE Spoil
  BY <1>14, NodesAlone DEF Spoil, nodeVars, Up
<1>15. CASE ContactsSaved
  BY <1>15, NodesAlone DEF ContactsSaved, nodeVars, Up
<1> QED BY <1>1, <1>2, <1>3, <1>4, <1>5, <1>6, <1>7, <1>8, <1>9, <1>10, <1>11, <1>12,
           <1>13, <1>14, <1>15 DEF Next, Runs, Commands

LEMMA InitNodes == Init => NodesIInv
PROOF
BY ShellAssumption DEF Init, NodesIInv, NodesTyped, ListIsMissed, NodesAgree, Up

\* The local nodes keep theirs: file, configuration and kernel agree
\* (ComputeNodeConfig).
THEOREM NodesInvariance == Spec => []NodesIInv
PROOF
BY InitNodes, NextNodes, PTL DEF Spec

\* A step of the dialogue leads to a next one with a model, or is none.
LEMMA NextBuild == BuildTyped /\ ModelIsThere /\ [Next]_vars => BuildTyped' /\ ModelIsThere'
PROOF
<1> SUFFICES ASSUME BuildTyped, ModelIsThere, [Next]_vars
             PROVE  BuildTyped' /\ ModelIsThere'
  OBVIOUS
<1> DEFINE Builds == [step : 0 .. 8, model : Models, stage : Stages]
           Whys == {"", "contacts", "settings", "openai", "nodes", "llama", "proxy", "current"}
<1>1. NoBuild \in Builds /\ NoBuild.step = 0
  BY DEF NoBuild, Models, Stages
<1>20. Steps.path = 0 /\ Steps.url = 1 /\ Steps.name = 2 /\ Steps.extern = 7
  BY DEF Steps
<1>0. build \in Builds /\ build.step \in 0 .. 8 /\ build.model \in Models
  BY DEF BuildTyped
<1>2. ASSUME build' = build, why' \in Whys, phase' = "build" => phase = "build"
      PROVE  BuildTyped' /\ ModelIsThere'
  BY <1>2 DEF BuildTyped, ModelIsThere
<1>3. ASSUME build' = NoBuild, why' \in Whys
      PROVE  BuildTyped' /\ ModelIsThere'
  <2>1. BuildTyped'
    BY <1>1, <1>3 DEF BuildTyped
  <2>2. build'.step = 0 /\ Steps.name = 2
    BY <1>1, <1>3 DEF Steps
  <2> QED BY <2>1, <2>2 DEF ModelIsThere
<1>4. why \in Whys
  BY DEF BuildTyped
<1>5. CASE UNCHANGED vars
  BY <1>2, <1>4, <1>5 DEF vars, nodeVars
<1>6. CASE Boot \/ AskUser
  BY <1>2, <1>4, <1>6 DEF Boot, AskUser, nodeVars
<1>7. CASE Initial
  <2>1. why' \in Whys /\ build' = build /\ phase' # "build"
    BY <1>4, <1>7 DEF Initial, InitialFails, nodeVars
  <2> QED BY <1>2, <2>1
<1>8. CASE LoadTunnel
  <2>1. UNCHANGED <<phase, why, build>>
    BY <1>8 DEF LoadTunnel, nodeVars
  <2> QED BY <1>2, <1>4, <2>1
<1>9. CASE Ready
  BY <1>2, <1>4, <1>9 DEF Ready, ReadyFails
<1>10. CASE SaveEnds \/ SetConfig \/ SwitchFeature \/ Open
  BY <1>2, <1>4, <1>10 DEF SaveEnds, SetConfig, SwitchFeature, Open, Untouched, nodeVars
<1>11. CASE Connected \/ Connect
  BY <1>2, <1>4, <1>11 DEF Connected, Connect, nodeVars
<1>12. CASE NodeAdd \/ NodeRm
  BY <1>2, <1>4, <1>12 DEF NodeAdd, NodeRm
<1>13. CASE NodeCreate
  BY <1>3, <1>4, <1>13 DEF NodeCreate
<1>14. CASE ModelPath \/ ModelUrl
  <2>1. phase = "build" /\ UNCHANGED <<phase, why>>
    BY <1>14 DEF ModelPath, ModelUrl, Building, BuildOnly
  <2>2. \/ build' = build
        \/ build' = [build EXCEPT !.step = 1]
        \/ \E m \in {"given", "downloaded"} : build' = [build EXCEPT !.step = 2, !.model = m]
    <3>1. CASE ModelPath
      <4>1. /\ build.step = 0
            /\ \/ build' = build
               \/ build' = [build EXCEPT !.step = @ + 1]
               \/ build' = [build EXCEPT !.step = @ + 2, !.model = "given"]
        BY <3>1, <1>20 DEF ModelPath
      <4>2. build.step + 1 = 1 /\ build.step + 2 = 2
        BY <4>1
      <4> QED BY <4>1, <4>2, Zenon
    <3>2. CASE ModelUrl
      <4>1. /\ build.step = 1
            /\ \/ build' = build
               \/ build' = [build EXCEPT !.step = @ + 1, !.model = "downloaded"]
        BY <3>2, <1>20 DEF ModelUrl
      <4>2. build.step + 1 = 2
        BY <4>1
      <4> QED BY <4>1, <4>2, Zenon
    <3> QED BY <1>14, <3>1, <3>2
  <2>3. build' \in Builds /\ (build' = build \/ build'.step = 1 \/ build'.model # "none")
    <3>1. CASE build' = [build EXCEPT !.step = 1]
      BY <3>1, <1>0
    <3>2. ASSUME NEW m \in {"given", "downloaded"},
                 build' = [build EXCEPT !.step = 2, !.model = m]
          PROVE  build' \in Builds /\ build'.model # "none"
      <4>1. m \in Models /\ m # "none"
        BY DEF Models
      <4>2. build' = [step |-> 2, model |-> m, stage |-> build.stage]
        BY <3>2, <1>0
      <4>3. build.stage \in Stages
        BY <1>0
      <4> QED BY <4>1, <4>2, <4>3
    <3> QED BY <2>2, <3>1, <3>2, <1>0
  <2>5. ModelIsThere'
    BY <2>1, <2>3 DEF ModelIsThere, Steps
  <2> QED BY <1>4, <2>1, <2>3, <2>5 DEF BuildTyped
<1>15. CASE Option \/ ExternParams
  <2>1. phase = "build" /\ UNCHANGED <<phase, why>>
    BY <1>15 DEF Option, ExternParams, Building, BuildOnly
  <2>2. /\ build.step \in 2 .. 7
        /\ \/ build' = [build EXCEPT !.step = @ + 1]
           \/ build' = [build EXCEPT !.step = @ + 1, !.stage = "git"]
    BY <1>15 DEF Option, ExternParams, Steps
  <2>3. build' \in Builds /\ build'.model = build.model
    <3>1. build.step + 1 \in 0 .. 8 /\ "git" \in Stages
      BY <2>2 DEF Stages
    <3>2. CASE build' = [build EXCEPT !.step = @ + 1]
      BY <3>1, <3>2, <1>0
    <3>3. CASE build' = [build EXCEPT !.step = @ + 1, !.stage = "git"]
      BY <3>1, <3>3, <1>0
    <3> QED BY <2>2, <3>2, <3>3
  <2>4. build.model # "none"
    BY <2>1, <2>2 DEF ModelIsThere, Steps
  <2> QED BY <1>4, <2>1, <2>3, <2>4 DEF BuildTyped, ModelIsThere
<1>16. CASE BuildImage
  <2>1. UNCHANGED <<phase, why>>
    BY <1>16 DEF BuildImage, BuildOnly
  <2>2. PICK s \in {"git", "git?", "image", "image?", "run"} :
          build' = [build EXCEPT !.stage = s]
    BY <1>16 DEF BuildImage, Tool
  <2>3. build' \in Builds /\ build'.model = build.model /\ build'.step = build.step
    BY <2>2, <1>0 DEF Stages
  <2> QED BY <1>4, <2>1, <2>3 DEF BuildTyped, ModelIsThere
<1>17. CASE Run
  <2>1. phase = "build" /\ why' = why
    BY <1>17 DEF Run, RunService, Building
  <2>2. \/ build' = build
        \/ build' = NoBuild
        \/ \E s \in {"run", "run?"} : build' = [build EXCEPT !.stage = s] /\ phase' = phase
    BY <1>17 DEF Run, RunService
  <2>3. CASE \E s \in {"run", "run?"} : build' = [build EXCEPT !.stage = s] /\ phase' = phase
    <3>1. build' \in Builds /\ build'.model = build.model /\ build'.step = build.step
      BY <2>3, <1>0 DEF Stages
    <3> QED BY <1>4, <2>1, <2>3, <3>1 DEF BuildTyped, ModelIsThere
  <2> QED BY <1>2, <1>3, <1>4, <2>1, <2>2, <2>3
<1>18. CASE CommandRaises \/ Exit \/ Crash
  BY <1>3, <1>18 DEF CommandRaises, Exit, Crash, GoDown
<1>19. CASE Spoil
  BY <1>2, <1>4, <1>19 DEF Spoil, nodeVars
<1>21. CASE ContactsSaved
  BY <1>2, <1>4, <1>21 DEF ContactsSaved, nodeVars
<1> QED BY <1>5, <1>6, <1>7, <1>8, <1>9, <1>10, <1>11, <1>12, <1>13, <1>14, <1>15, <1>16,
           <1>17, <1>18, <1>19, <1>21 DEF Next, Runs, Commands

LEMMA NextContacts == contactsSpoilt \in BOOLEAN /\ [Next]_vars => contactsSpoilt' \in BOOLEAN
PROOF
<1> SUFFICES ASSUME contactsSpoilt \in BOOLEAN, [Next]_vars
             PROVE  contactsSpoilt' \in BOOLEAN
  OBVIOUS
<1>1. CASE UNCHANGED contactsSpoilt
  BY <1>1
<1>2. CASE contactsSpoilt' \in {contactsSpoilt, TRUE, FALSE}
  BY <1>2
<1>3. Commands => UNCHANGED contactsSpoilt
  BY DEF Commands, SetConfig, SwitchFeature, Open, Untouched, Connect, NodeAdd, NodeRm,
     NodeCreate, ModelPath, ModelUrl, Option, ExternParams, BuildImage, BuildOnly, Run,
     CommandRaises, Exit
<1>4. Boot \/ AskUser \/ LoadTunnel \/ Ready \/ SaveEnds \/ Connected \/ Crash =>
        UNCHANGED contactsSpoilt
  BY DEF Boot, AskUser, LoadTunnel, Ready, SaveEnds, Untouched, Connected, Crash
<1>5. Initial \/ ContactsSaved \/ Spoil => contactsSpoilt' \in {contactsSpoilt, TRUE, FALSE}
  BY DEF Initial, ContactsSaved, Spoil
<1>6. UNCHANGED vars => UNCHANGED contactsSpoilt
  BY DEF vars
<1> QED BY <1>1, <1>2, <1>3, <1>4, <1>5, <1>6 DEF Next, Runs

LEMMA InitBuild == Init => BuildTyped /\ ModelIsThere
PROOF
<1> SUFFICES ASSUME Init PROVE BuildTyped /\ ModelIsThere
  OBVIOUS
<1>1. build = NoBuild /\ why = "" /\ phase # "build"
  BY DEF Init
<1>2. NoBuild \in [step : 0 .. 8, model : Models, stage : Stages]
  BY DEF NoBuild, Models, Stages
<1> QED BY <1>1, <1>2 DEF BuildTyped, ModelIsThere

-----------------------------------------------------------------------------
(* What is claimed of every reachable state.                                 *)

\* Every state of the three invariants has the types of Shell; that a tunnel is not
\* started beyond its bound needs what StartsCounted says of the phases.
THEOREM ShellTypes ==
  SettingsIInv /\ TunnelsIInv /\ NodesIInv /\ BuildTyped /\ contactsSpoilt \in BOOLEAN
    => TypeOK
PROOF
<1> SUFFICES ASSUME SettingsIInv, TunnelsIInv, NodesIInv, BuildTyped,
                    contactsSpoilt \in BOOLEAN
             PROVE  TypeOK
  OBVIOUS
<1>1. started \in [TunnelIds -> 0 .. MaxTunnels + MaxCommands]
  <2>1. MaxTunnels \in Nat /\ MaxCommands \in Nat /\ commands \in 0 .. MaxCommands
    BY BoundAssumption DEF TunnelsIInv, TunnelsTyped
  <2>2. toLoad \in Seq(Entry) /\ Len(toLoad) \in Nat
    BY BoundedFacts, LenProperties DEF TunnelsIInv, TunnelsTyped
  <2>3. ASSUME NEW t \in TunnelIds
        PROVE  started[t] \in 0 .. MaxTunnels + MaxCommands
    <3>1. started[t] \in Nat
      BY DEF TunnelsIInv, TunnelsTyped
    <3>2. started[t] <= MaxTunnels + commands
      BY <2>1, <2>2, <3>1 DEF TunnelsIInv, StartsCounted, SettingsIInv
    <3> QED BY <2>1, <3>1, <3>2
  <2>4. started \in [TunnelIds -> Nat]
    BY DEF TunnelsIInv, TunnelsTyped
  <2> QED BY <2>3, <2>4
<1>2. connecting \subseteq TunnelIds /\ promised \subseteq TunnelIds
  BY TunnelAssumption DEF TunnelsIInv, TunnelsTyped
<1> QED BY <1>1, <1>2 DEF TypeOK, SettingsIInv, TunnelsIInv, TunnelsTyped, NodesIInv, NodesTyped,
           BuildTyped, Models, Stages

\* What the user has set and connected is in the files and in force: the settings
\* after any number of restarts and failed saves that did not damage the file, the
\* connected tunnels until their file is damaged (UserConfig, append_tunnel_config,
\* load_all_tunnels_from_config).
THEOREM KeepsSettings == Spec => []SettingsKept
PROOF
<1>1. Init => BuildTyped /\ ModelIsThere
  BY InitBuild
<1>2. BuildTyped /\ ModelIsThere /\ [Next]_vars => (BuildTyped /\ ModelIsThere)'
  BY NextBuild
<1>3. Init => contactsSpoilt \in BOOLEAN
  BY DEF Init
<1>4. contactsSpoilt \in BOOLEAN /\ [Next]_vars => (contactsSpoilt \in BOOLEAN)'
  BY NextContacts
<1>5. SettingsIInv /\ TunnelsIInv /\ NodesIInv /\ BuildTyped /\ contactsSpoilt \in BOOLEAN
        => SettingsKept
  <2> SUFFICES ASSUME SettingsIInv, TunnelsIInv, NodesIInv, BuildTyped,
                      contactsSpoilt \in BOOLEAN
               PROVE  SettingsKept
    OBVIOUS
  <2>1. TypeOK
    BY ShellTypes
  <2>2. SettingsSurvive
    BY DEF SettingsIInv
  <2>3. SettingsInForce
    <3> SUFFICES ASSUME phase = "ready", ~saving, confHarm = {}
                 PROVE  WillSave(conf) = settled
      BY DEF SettingsInForce
    <3>1. \A k \in Keys : WillSave(conf)[k] = settled[k]
      BY DEF SettingsIInv, ConfIsSettled
    <3>2. settled \in [Keys -> Values] /\ WillSave(conf) \in [Keys -> Values]
      BY WillSaveType DEF SettingsIInv, ConfigTypeOK
    <3> QED BY <3>1, <3>2
  <2>4. ConnectedComesBack
    BY DEF TunnelsIInv, PromisedAreWritten, PromisedComeBack, ConnectedComesBack, Named
  <2> QED BY <2>1, <2>2, <2>3, <2>4 DEF SettingsKept
<1> QED BY <1>1, <1>2, <1>3, <1>4, <1>5, SettingsInvariance, TunnelsInvariance, NodesInvariance, PTL DEF Spec

\* The local nodes of the file serve and survive the next save, and a container is
\* only run for a model that is there (ComputeNodeConfig, LocalLlamaNodeBuilder).
THEOREM NodesWork == Spec => []LocalNodesWork
PROOF
<1>1. Init => BuildTyped /\ ModelIsThere
  BY InitBuild
<1>2. BuildTyped /\ ModelIsThere /\ [Next]_vars => (BuildTyped /\ ModelIsThere)'
  BY NextBuild
<1>3. NodesIInv /\ ModelIsThere => LocalNodesWork
  BY DEF NodesIInv, NodesAgree, Up, Listed, NodesServe, LocalNodesWork
<1> QED BY <1>1, <1>2, <1>3, NodesInvariance, PTL DEF Spec

\* When the program has failed to start, a step has not changed what explains it ...
LEMMA FailedStays ==
  ASSUME SettingsIInv, [Next]_vars, StartExplained, phase = "failed", phase' = "failed",
         ~Boot
  PROVE  StartExplained'
PROOF
<1>1. ~saving
  BY DEF SettingsIInv, SavingIsShort
<1>2. \/ UNCHANGED vars
      \/ Spoil
  BY <1>1 DEF Next, AskUser, Runs, Initial, ContactsSaved, LoadTunnel, Ready, SaveEnds, Write, WriteFails,
     Connected, Commands, SetConfig, SwitchFeature, Open, Connect, NodeAdd, NodeRm,
     NodeCreate, ModelPath, ModelUrl, Option, ExternParams, BuildImage, Tool, Run,
     RunService, Building, CommandRaises, Exit, Crash, Command
<1>3. CASE UNCHANGED vars
  BY <1>3 DEF vars, configVars, nodeVars, StartExplained
<1>4. CASE Spoil
  BY <1>4 DEF Spoil, ConfigSpoilt, configVars, nodeVars, StartExplained
<1> QED BY <1>2, <1>3, <1>4

\* ... and the step that made it fail had it from the files.
LEMMA FailingIsExplained ==
  ASSUME SettingsIInv, NodesIInv, [Next]_vars, phase' = "failed", phase # "failed" \/ Boot
  PROVE  StartExplained'
PROOF
<1>1. ASSUME confHarm = {}, phase \notin {"down", "failed"}, ~saving, NEW k \in Keys
      PROVE  /\ GetValue(k) = NoValue => settled[k] = NoValue
             /\ GetValue(k) = settled[k] \/ GetValue(k) = Default[k]
             /\ GetValue(k) # Default[k] => settled[k] # NoValue
  <2>1. conf \in [Keys -> [value : Values, user : BOOLEAN]]
    BY DEF SettingsIInv, ConfigTypeOK
  <2>2. WillSave(conf)[k] = settled[k]
    BY <1>1 DEF SettingsIInv, ConfIsSettled
  <2>3. conf[k].value # NoValue => conf[k].user
    BY DEF SettingsIInv, ValuesAreTheUsers
  <2> QED BY <2>1, <2>2, <2>3 DEF WillSave, GetValue
<1>7. ASSUME confHarm = {}, phase \notin {"down", "failed"}, ~saving, ProxyRaises
      PROVE  settled["proxy"] \in BadProxies
  <2>1. /\ "proxy" \in Keys /\ Default["proxy"] \notin BadProxies
        /\ GetValue("proxy") \in BadProxies
    BY <1>7, ShellAssumption DEF ProxyRaises
  <2> QED BY <1>1, <1>7, <2>1
<1>2. CASE Boot
  <2>1. /\ ~saving /\ UNCHANGED <<confHarm, settled, contactsSpoilt>>
        /\ why' = IF contactsSpoilt THEN "contacts" ELSE "settings"
    BY <1>2 DEF Boot, SettingsIInv, SavingIsShort
  <2>6. CASE contactsSpoilt
    BY <2>1, <2>6 DEF StartExplained
  <2>7. SUFFICES ASSUME ~contactsSpoilt
                 PROVE  StartExplained'
    BY <2>6
  <2>2. PICK k \in Required : Loaded(confFile)[k].value = NoValue
    BY <1>2, <2>7 DEF Boot, Missing
  <2>3. SUFFICES ASSUME confHarm = {}
                 PROVE  settled[k] = NoValue
    BY <2>1, <2>7 DEF StartExplained
  <2>4. confFile = settled /\ settled \in [Keys -> Values] /\ confFile # Unreadable
    BY <2>1, <2>3, ConfigAssumption DEF SettingsIInv, SettingsSurvive, ConfigTypeOK
  <2>5. Loaded(confFile)[k].value = settled[k]
    BY <2>4, ConfigAssumption, LoadedFacts
  <2> QED BY <2>2, <2>5
<1>3. CASE Initial
  <2>1. /\ phase = "initial" /\ ~saving /\ InitialFails # ""
        /\ \/ why' = InitialFails
           \/ why' = "proxy" /\ ProxyRaises
        /\ UNCHANGED <<confHarm, settled, nodeHarm>>
    BY <1>3 DEF Initial, nodeVars
  <2>2. SUFFICES ASSUME confHarm = {}
                 PROVE  \/ why' = "openai" /\ settled["openai_api_key"] = NoValue
                        \/ why' = "nodes" /\ nodeHarm # {}
                        \/ why' = "llama" /\ settled["feature.llama"] = "True"
                        \/ why' = "proxy" /\ settled["proxy"] \in BadProxies
    BY <2>1 DEF StartExplained
  <2>3. CASE why' = "openai"
    <3>1. GetValue("openai_api_key") = NoValue /\ "openai_api_key" \in Keys
      BY <2>1, <2>3, ShellAssumption DEF InitialFails
    <3> QED BY <1>1, <2>1, <2>2, <2>3, <3>1
  <2>4. CASE why' = "nodes"
    <3>1. nodeFile = NoList
      BY <2>1, <2>4 DEF InitialFails
    <3> QED BY <2>4, <3>1 DEF NodesIInv, ListIsMissed
  <2>5. CASE why' = "llama"
    <3>1. /\ GetValue("feature.llama") = "True" /\ "feature.llama" \in Keys
          /\ Default["feature.llama"] # "True"
      BY <2>1, <2>5, ShellAssumption DEF InitialFails
    <3> QED BY <1>1, <2>1, <2>2, <2>5, <3>1
  <2>6. CASE why' = "proxy" /\ ProxyRaises
    BY <1>1, <1>7, <2>1, <2>2, <2>6
  <2> QED BY <2>1, <2>3, <2>4, <2>5, <2>6 DEF InitialFails
<1>4. CASE Ready
  <2>1. /\ phase = "tunnels" /\ why' = ReadyFails /\ ReadyFails # ""
        /\ UNCHANGED <<confHarm, settled>>
    BY <1>4 DEF Ready
  <2>2. ~saving
    BY <2>1 DEF SettingsIInv, SavingIsShort
  <2>3. SUFFICES ASSUME confHarm = {}
                 PROVE  \/ why' = "proxy" /\ settled["proxy"] \in BadProxies
                        \/ /\ why' = "current"
                           /\ settled["shell.current"] \notin WithTopic \cup {NoValue}
    BY <2>1 DEF StartExplained
  <2>4. CASE why' = "proxy" /\ ProxyRaises
    BY <1>7, <2>1, <2>2, <2>3, <2>4
  <2>5. CASE why' = "current" /\ GetValue("shell.current") \notin WithTopic
    <3>1. "shell.current" \in Keys /\ GetValue("shell.current") # Default["shell.current"]
      BY <2>5, ShellAssumption
    <3> QED BY <1>1, <2>1, <2>2, <2>3, <2>5, <3>1
  <2> QED BY <2>1, <2>4, <2>5 DEF ReadyFails
<1>5. phase # "failed" => Boot \/ Initial \/ Ready
  BY DEF Next, AskUser, Runs, LoadTunnel, SaveEnds, Connected, Commands, SetConfig,
     SwitchFeature, Open, Connect, NodeAdd, NodeRm, NodeCreate, ModelPath, ModelUrl, Option,
     ExternParams, BuildImage, Run, RunService, Building, BuildOnly, Untouched, CommandRaises,
     Exit, Crash, Spoil, ContactsSaved, GoDown, Command, vars
<1> QED BY <1>2, <1>3, <1>4, <1>5

\* When the program does not start, its files explain it (main, AIOS_Shell.initial).
THEOREM FailuresAreExplained == Spec => []StartExplained
PROOF
<1>1. Init => StartExplained
  BY DEF Init, StartExplained
<1>2. SettingsIInv /\ NodesIInv /\ StartExplained /\ [Next]_vars => StartExplained'
  <2>1. phase' # "failed" => StartExplained'
    BY DEF StartExplained
  <2> QED BY <2>1, FailedStays, FailingIsExplained
<1> QED BY <1>1, <1>2, SettingsInvariance, NodesInvariance, PTL DEF Spec

=============================================================================
