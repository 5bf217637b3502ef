---------------------------- MODULE ServiceSettings ----------------------------
(***************************************************************************)
(* The model-service block of the .env file: ModelServiceSettingsStore     *)
(* rewrites it line by line, AppSettings.load reads it at the next start   *)
(* under the process environment.  A line assigns a key or is text; a      *)
(* common key stands for all the keys that are saved and loaded alike.     *)
(***************************************************************************)
EXTENDS Integers, SequencesExt

CONSTANTS Values, Blank, Default

Text      == "text"                                  \* comments and empty lines
BaseKeys  == <<"API_BASE", "MODEL_NAME">>             \* _BASE_KEYS, in order
SyncKeys  == {"JUDGMENT_MODEL_NAME"}                  \* _SYNC_WITH_MODEL_NAME
RoleKeys  == {"JUDGMENT_API_BASE", "JUDGMENT_API_KEY"}  \* overrides no save touches
LineKeys  == ToSet(BaseKeys) \cup SyncKeys \cup RoleKeys \cup {"API_KEY", "OTHER", Text}

Line(k, v) == [key |-> k, value |-> v]
Config     == [base : Values, model : Values, api_key : Values \cup {Blank}]

\* _read_values: the last assignment of a key counts.
Assigned(file)   == {file[i].key : i \in DOMAIN file} \ {Text}
LastOf(file, k)  == file[CHOOSE i \in DOMAIN file :
                           /\ file[i].key = k
                           /\ \A j \in DOMAIN file : file[j].key = k => j <= i].value
ReadValues(file) == [k \in Assigned(file) |-> LastOf(file, k)]
-------------------------------------------------------------------------------
\* Mutant: the role's model name stays what it was.
Updates_NoSync(file, config) ==
    [k \in ToSet(BaseKeys) \cup (IF config.api_key = Blank THEN {} ELSE {"API_KEY"}) |->
        CASE k = "API_BASE" -> config.base [] k = "API_KEY" -> config.api_key
          [] OTHER -> config.model]

\* What a save writes: the block, the key if a new one is given, and the model name of
\* every role that overrides it in the file.
Updates(file, config) ==
    [k \in ToSet(BaseKeys) \cup (IF config.api_key = Blank THEN {} ELSE {"API_KEY"})
                           \cup (SyncKeys \cap Assigned(file)) |->
        CASE k = "API_BASE" -> config.base [] k = "API_KEY" -> config.api_key
          [] OTHER -> config.model]

\* save: the first line of an owned key takes the new value, later ones go, all others
\* stay; keys the file lacks follow at the end, under a mark.
Save(file, config) ==
    LET new     == Updates(file, config)
        owned   == DOMAIN new
        First(i) == \A j \in 1..(i - 1) : file[j].key # file[i].key
        kept    == SelectSeq([i \in DOMAIN file |-> i],
                             LAMBDA i : file[i].key \in owned => First(i))
        body    == [n \in DOMAIN kept |->
                      IF file[kept[n]].key \in owned
                      THEN Line(file[kept[n]].key, new[file[kept[n]].key]) ELSE file[kept[n]]]
        missing == SelectSeq(BaseKeys \o <<"API_KEY">>,
                             LAMBDA k : k \in owned \ Assigned(file))
    IN  IF missing = <<>> THEN body
        ELSE body \o <<Line(Text, Blank)>>
                  \o [n \in DOMAIN missing |-> Line(missing[n], new[missing[n]])]

\* read(): what the page shows as saved.
Read(file) ==
    LET values == ReadValues(file)
        Of(k)  == IF k \in DOMAIN values THEN values[k] ELSE Blank
    IN  [base |-> Of("API_BASE"), model |-> Of("MODEL_NAME")]

\* AppSettings.load: the environment over the file, an empty value counts as none, the
\* role's own key over the common one; the report model is the judgment model.
Load(file, environ) ==
    LET values == [k \in Assigned(file) \cup DOMAIN environ |->
                     IF k \in DOMAIN environ THEN environ[k] ELSE LastOf(file, k)]
        Get(k, default) == IF k \in DOMAIN values /\ values[k] # Blank
                           THEN values[k] ELSE default
    IN  [base    |-> Get("JUDGMENT_API_BASE", Get("API_BASE", Default)),
         model   |-> Get("JUDGMENT_MODEL_NAME", Get("MODEL_NAME", Blank)),
         api_key |-> Get("JUDGMENT_API_KEY", Get("API_KEY", Blank))]

\* require_models, before an LLM run is assembled.
Usable(settings) == settings.api_key # Blank /\ settings.model # Blank

\* save() of the settings page: what it reports about the running process.
RestartRequired(file, settings) ==
    LET saved == Read(file)
    IN  saved.base # settings.base \/ saved.model # settings.model
-------------------------------------------------------------------------------
\* "values written here must produce a usable chat model on the next service restart" and
\* "preserves the existing file line-for-line and only rewrites the keys it owns"
\* (settings_store.py): whatever duplicates, role overrides and blanks the file has, the
\* next start uses the saved model name, and the saved base and key unless the role has its
\* own, which a save neither changes nor brings into force; without a new key the old one
\* stays; every other line is there, in its order, and a second start needs no further
\* restart.
SavedSettingsApply(file, config) ==
    LET after  == Save(file, config)
        old    == Load(file, <<>>)
        next   == Load(after, <<>>)
        owned  == DOMAIN Updates(file, config) \cup {"API_KEY"}
        Others(f) == SelectSeq(f, LAMBDA l : l.key \notin owned)
        Overridden(k) == k \in Assigned(file) /\ LastOf(file, k) # Blank
    IN  /\ next.model = config.model
        /\ next.base = IF Overridden("JUDGMENT_API_BASE") THEN old.base ELSE config.base
        /\ next.api_key = IF config.api_key = Blank \/ Overridden("JUDGMENT_API_KEY")
                          THEN old.api_key ELSE config.api_key
        /\ old.api_key # Blank \/ config.api_key # Blank => Usable(next)
        /\ IsPrefix(Others(file), Others(after))
        /\ ~Overridden("JUDGMENT_API_BASE") => ~RestartRequired(after, next)
        /\ Save(after, [config EXCEPT !.api_key = Blank]) = after
===============================================================================
