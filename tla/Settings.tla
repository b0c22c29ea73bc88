------------------------------ MODULE Settings ------------------------------
(***************************************************************************)
(* The settings of the server, from the environment a process starts with  *)
(* to the form of the dashboard: load_dotenv in __init__.py, settings.py,  *)
(* /api/settings and /api/restart in route.py, and the form of             *)
(* dashboard.html, which is loaded from the running process and posts all  *)
(* its fields, edited or not.  What is saved goes to data/settings.env,    *)
(* which overrides .env from the next start on.                            *)
(*                                                                         *)
(* Secrets are longer than the four characters that are shown of them, and *)
(* FLASK_DEBUG, a checkbox, is left out.                                   *)
(***************************************************************************)
EXTENDS Integers, Sequences, FiniteSets, Functions

CONSTANTS
  SettingsKeys,   \* the keys of the form, in the order of _SETTINGS_KEYS
  Required,       \* _REQUIRED_IF_SET
  Secrets,        \* _SECRET_KEYS
  Entries,        \* what can be typed or chosen for each key
  Base,           \* .env and the container's environment, by key
  Saved,          \* what earlier processes may have left in data/settings.env
  Default,        \* the defaults of settings.py, by key
  Tabs,           \* the browser tabs with a settings form
  MaxEdited,      \* bound: the fields that are edited before a form is saved
  MaxSaves,       \* bound: the times a form is saved
  MaxRestarts,    \* bound: the times the server is restarted
  Unset,          \* a key that a file or the environment does not have
  Mask            \* the beginning of a secret, followed by stars

Keys == DOMAIN Base
Empty == ""

\* What a file or the environment says, key by key.
Environments ==
  {e \in [Keys -> (UNION {Entries[k] : k \in Keys}) \cup {Unset, Empty}] :
     \A k \in Keys : e[k] \in Entries[k] \cup {Unset, Empty}}

ASSUME SettingsAssumption ==
  /\ SettingsKeys \in Seq(Keys) /\ Required \subseteq Keys /\ Secrets \subseteq Keys
  /\ Base \in Environments /\ Saved \subseteq Environments
  /\ \A k \in Keys : {Unset, Mask, Empty} \cap Entries[k] = {}
  /\ Unset # Empty /\ Mask # Empty /\ Unset # Mask
  /\ {MaxEdited, MaxSaves, MaxRestarts} \subseteq Nat

VARIABLES
  environ,     \* os.environ of the running process
  override,    \* data/settings.env
  loaded,      \* the environ each form was loaded from
  edited,      \* history: the keys that were edited, when a form was just saved
  saves, restarts

settings == <<environ, override, loaded, edited, saves, restarts>>

SettingsTypeOK ==
  /\ {environ, override} \subseteq Environments /\ loaded \in [Tabs -> Environments]
  /\ edited \subseteq Keys /\ saves \in 0..MaxSaves /\ restarts \in 0..MaxRestarts

\* load_dotenv of .env, then of settings.env with override=True.
Loaded(file) == [k \in Keys |-> IF file[k] = Unset THEN Base[k] ELSE file[k]]

\* settings.py: an empty value is a value, only an unset key has its default.
Setting(k) == IF environ[k] = Unset THEN Default[k] ELSE environ[k]

\* A process that has just started, and tabs with its form.
SettingsInit ==
  /\ override \in Saved /\ environ = Loaded(override)
  /\ loaded = [t \in Tabs |-> environ] /\ edited = {}
  /\ saves = 0 /\ restarts = 0

------------------------------------------------------------------------------
\* GET /api/settings: what the running process has, which the form is filled with.
Shown(k, value) ==
  IF value \in {Unset, Empty} THEN Empty ELSE IF k \in Secrets THEN Mask ELSE value
OpenForm(t) ==
  /\ loaded' = [loaded EXCEPT ![t] = environ]
  /\ edited' = {}
  /\ UNCHANGED <<environ, override, saves, restarts>>

\* POST /api/settings: the loop over the keys and set_key.
SkipsEmpty(k, value) == value = Empty /\ k \in Required    \* mutant: masked secrets are saved
Skips(k, value) == (k \in Secrets /\ value = Mask) \/ (value = Empty /\ k \in Required)
Written(posted, keys) ==
  [k \in Keys |-> IF k \in keys /\ ~Skips(k, posted[k]) THEN posted[k] ELSE override[k]]

\* Save in tab t after the fields of changes were edited.  If set_key raises, the
\* keys before are saved and the answer is an error.
Save(t, changes) ==
  /\ saves < MaxSaves
  /\ saves' = saves + 1
  /\ edited' = DOMAIN changes
  /\ \E n \in 0..Len(SettingsKeys) :
       override' = Written([k \in Keys |-> IF k \in DOMAIN changes THEN changes[k] ELSE Shown(k, loaded[t][k])],
                           Range(SubSeq(SettingsKeys, 1, n)))
  /\ UNCHANGED <<environ, loaded, restarts>>

\* POST /api/restart, or any other end of the process; tabs stay as they are.
RestartServer ==
  /\ restarts < MaxRestarts
  /\ restarts' = restarts + 1
  /\ environ' = Loaded(override)
  /\ edited' = {}
  /\ UNCHANGED <<override, loaded, saves>>

\* A step of the rest of the server.
SettingsRest == edited' = {} /\ UNCHANGED <<environ, override, loaded, saves, restarts>>

Changes ==
  UNION {{f \in [ks -> (UNION {Entries[k] : k \in ks}) \cup {Empty}] :
            \A k \in ks : f[k] \in Entries[k] \cup {Empty}} :
         ks \in {x \in SUBSET Range(SettingsKeys) : Cardinality(x) <= MaxEdited}}
SettingsStep == \E t \in Tabs : OpenForm(t) \/ \E changes \in Changes : Save(t, changes)

------------------------------------------------------------------------------
\* Whatever is saved, restarted and loaded in between, in however many tabs, and
\* wherever a save breaks off: it gives a field that nobody edited no value but
\* the one the process had when a form was loaded, the secret behind its mask
\* included.  (That value may be older than the one saved last: a form loaded
\* before the restart takes it back.  And an unset key becomes an empty one
\* unless it is Required.)
UneditedIsSeen ==
  [][\A k \in Keys \ edited' : override'[k] # override[k] =>
       \E t \in Tabs : \/ override'[k] = loaded[t][k]
                       \/ loaded[t][k] = Unset /\ override'[k] = Empty /\ k \notin Required]_settings
=============================================================================
