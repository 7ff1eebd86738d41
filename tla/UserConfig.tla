----------------------------- MODULE UserConfig -----------------------------
(***************************************************************************)
(* The settings of the user: UserConfig of storage/storage.py and the file *)
(* etc/system.cfg.toml it is loaded from and saved to.                     *)
(*                                                                         *)
(* Every setting is declared with a default and a mark that says whether   *)
(* it may be left out.  Only values the user has set are saved.  A save    *)
(* opens the file with "w", which truncates it, and writes it after a      *)
(* suspension; loading swallows whatever is wrong with the file.           *)
(*                                                                         *)
(* system.cfg.toml of the program itself declares no setting of the user,  *)
(* so the load of it changes nothing and is left out.                      *)
(***************************************************************************)
EXTENDS Naturals

CONSTANTS Keys,       \* the declared settings
          Required,   \* those that are not optional
          ValuesOf,   \* ValuesOf[k]: values of k, its default included
          Default,    \* Default[k]: its default, or NoValue
          NoValue,    \* None
          Unreadable  \* the file when it does not parse

\* What a setting may be, in memory and in the file.
Values == {NoValue} \cup UNION {ValuesOf[k] : k \in Keys}

ASSUME ConfigAssumption ==
  /\ Required \subseteq Keys
  /\ \A k \in Keys : Default[k] \in ValuesOf[k] \cup {NoValue}
  /\ \A k \in Keys : {NoValue, Unreadable} \cap ValuesOf[k] = {}
  /\ Unreadable \notin [Keys -> Values]

VARIABLES
  conf,      \* config_table: value and user_set of every setting
  confFile,  \* the file: a value or NoValue for every setting, or Unreadable
  saving,    \* TRUE between the truncation of the file and the write
  settled,   \* history: for every setting the last value a save completed
  confHarm   \* history: what has damaged the file since

configVars == <<conf, confFile, saving, settled, confHarm>>

Nothing == [k \in Keys |-> NoValue]

Declared == [k \in Keys |-> [value |-> NoValue, user |-> FALSE]]

\* get_value
GetValue(k) == IF conf[k].value = NoValue THEN Default[k] ELSE conf[k].value

\* check_config: what the user has to be asked for.
Missing(c) == {k \in Required : c[k].value = NoValue}

\* What save_to_user_config writes.
WillSave(c) == [k \in Keys |-> IF c[k].user THEN c[k].value ELSE NoValue]

\* load_value_from_file after declaring everything again: an unreadable file
\* is a warning in the log and all defaults.
\* Mutant: loaded values do not count as set by the user.
LoadedUnmarked(file) ==
  IF file = Unreadable THEN Declared
  ELSE [k \in Keys |-> [value |-> file[k], user |-> FALSE]]
Loaded(file) ==
  IF file = Unreadable THEN Declared
  ELSE [k \in Keys |-> [value |-> file[k], user |-> file[k] # NoValue]]

\* set_value; a key that is not declared is a warning and nothing else.
SetValue(k, v) ==
  conf' = IF k \in Keys THEN [conf EXCEPT ![k] = [value |-> v, user |-> TRUE]]
          ELSE conf

\* save_to_user_config up to its suspension.  With nothing to save the file
\* is left alone; opening it may fail, and nobody looks at what is returned.
BeginSave ==
  \/ /\ WillSave(conf') = Nothing
     /\ UNCHANGED <<confFile, saving, settled, confHarm>>
  \/ /\ WillSave(conf') # Nothing
     /\ confFile' = Nothing
     /\ saving' = TRUE
     /\ UNCHANGED <<settled, confHarm>>
  \/ /\ WillSave(conf') # Nothing
     /\ confHarm' = confHarm \cup {"not written"}
     /\ UNCHANGED <<confFile, saving, settled>>

\* History: what has been saved counts for good, and the file is sound again
\* if the program still knew all of it.
Settle ==
  LET saved == [k \in Keys |-> IF conf[k].user THEN conf[k].value ELSE settled[k]]
  IN /\ settled' = saved
     /\ confHarm' = IF saved = WillSave(conf) THEN {} ELSE confHarm

\* The write goes through ...
\* Mutant: only what differs from the default is written.
WriteChanged ==
  /\ saving
  /\ confFile' = [k \in Keys |-> IF WillSave(conf)[k] = Default[k] THEN NoValue
                                 ELSE WillSave(conf)[k]]
  /\ Settle
  /\ saving' = FALSE
  /\ UNCHANGED conf
Write ==
  /\ saving
  /\ confFile' = WillSave(conf)
  /\ Settle
  /\ saving' = FALSE
  /\ UNCHANGED conf

\* ... or fails and leaves the truncated file, of which nobody is told.
WriteFails ==
  /\ saving
  /\ saving' = FALSE
  /\ confHarm' = confHarm \cup {"truncated"}
  /\ UNCHANGED <<conf, confFile, settled>>

\* The program ends; in the middle of a save the file stays truncated.
ConfigLost ==
  /\ conf' = Declared
  /\ saving' = FALSE
  /\ confHarm' = IF saving THEN confHarm \cup {"truncated"} ELSE confHarm
  /\ UNCHANGED <<confFile, settled>>

\* The user edits the file by hand and it does not parse any more.
ConfigSpoilt ==
  /\ confFile' = Unreadable
  /\ confHarm' = confHarm \cup {"spoilt"}
  /\ UNCHANGED <<conf, saving, settled>>

-----------------------------------------------------------------------------

ConfigInit ==
  /\ conf = Declared
  /\ confFile = Nothing
  /\ saving = FALSE
  /\ settled = Nothing
  /\ confHarm = {}

\* The types of the settings, of the file and of the histories.
ConfigTypeOK ==
  /\ conf \in [Keys -> [value : Values, user : BOOLEAN]]
  /\ confFile \in [Keys -> Values] \cup {Unreadable}
  /\ saving \in BOOLEAN
  /\ settled \in [Keys -> Values]
  /\ confHarm \subseteq {"truncated", "not written", "spoilt"}

\* A save never loses a setting: as long as no write failed or was cut off
\* and nobody spoilt the file, it holds the last saved value of every
\* setting, over any number of restarts and of saves of other settings
\* (UserConfig.save_to_user_config, load_value_from_file).
SettingsSurvive == (confHarm = {} /\ ~saving) => confFile = settled

=============================================================================
