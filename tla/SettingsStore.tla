----------------------------- MODULE SettingsStore -----------------------------
(****************************************************************************)
(* The settings store (settings_store.py): the configuration in memory, the *)
(* file data/settings.json, its temporary file and its .bak copy, and the   *)
(* start-up that seeds them.  The web handlers run on the event loop and    *)
(* hold the store's lock for a whole save, so one operation is in progress  *)
(* at a time; what can come between its steps is a failing system call or   *)
(* the end of the process.                                                  *)
(*                                                                          *)
(* A configuration is the part the web forms edit ("data", one value per    *)
(* form), and whether it holds a password and a session secret.             *)
(****************************************************************************)
EXTENDS Naturals

CONSTANTS Fields, Vals,            \* the web forms and what they can save
          EmptyData, RestoredData, YamlData,
          MaxSaves,                \* bound on the saves of one process
          MaxSetUps,               \* bound on the first-password forms awaited at once
          None, Torn               \* no file; a file written half-way

Data == [Fields -> Vals]
Config == [data: Data, password: BOOLEAN, secret: BOOLEAN]
Environment == [restore: {"none", "good", "bad"}, strict: BOOLEAN,
                yaml: BOOLEAN, password: BOOLEAN]

ASSUME SettingsAssumption ==
  /\ MaxSaves \in Nat /\ MaxSetUps \in Nat
  /\ {EmptyData, RestoredData, YamlData} \subseteq Data
  /\ None \notin Config /\ Torn \notin Config /\ None # Torn

VARIABLES
  env,       \* what the container's environment asks for, fixed
  pc,        \* "down", "seed", "idle", or the next step of the operation
  op,        \* the operation in progress, or the last one
  mem,       \* SettingsStore._config
  gen,       \* SettingsStore.generation
  file,      \* data/settings.json
  stamped,   \* it names its schema version
  tmp,       \* data/settings.json.tmp
  bak,       \* data/settings.json.bak
  cand,      \* the configuration being imported
  setups,    \* first-password forms past the check that no password is set
  acked,     \* (history) the last configuration reported saved, or loaded
  tried,     \* (history) the configuration the save in progress writes
  pre        \* (history) settings.json when the last import started

vars == <<env, pc, op, mem, gen, file, stamped, tmp, bak, cand, setups, acked, tried, pre>>
disk == <<file, stamped, tmp, bak>>
history == <<acked, tried, pre>>

Ops == {"boot", "password", "secret", "update", "import"}

TypeOK ==
  /\ env \in Environment
  /\ pc \in {"down", "seed", "idle", "backup", "copying", "write", "filling",
             "rename", "bump"}
  /\ op \in Ops
  /\ mem \in Config \cup {None}
  /\ (pc = "down") = (mem = None)
  /\ gen \in Nat
  /\ file \in Config \cup {None}
  /\ stamped \in BOOLEAN
  /\ tmp \in Config \cup {None, Torn}
  /\ bak \in Config \cup {None, Torn}
  /\ cand \in Config \cup {None}
  /\ setups \in 0..MaxSetUps
  /\ {acked, tried, pre} \subseteq Config \cup {None}

\* a fresh volume, or the settings.json an earlier release left
Init ==
  /\ env \in Environment
  /\ file \in [data: {YamlData}, password: {TRUE}, secret: {TRUE}] \cup {None}
  /\ stamped \in BOOLEAN /\ (file = None => stamped)
  /\ pc = "down" /\ op = "boot" /\ mem = None /\ gen = 0
  /\ tmp = None /\ bak = None /\ cand = None /\ setups = 0
  /\ acked = file /\ tried = None /\ pre = None

-------------------------------------------------------------------------------
(* _persist: write the temporary file, then rename it                       *)

\* _config is assigned, then _persist is called
Assign(c, o) ==
  /\ mem' = c
  /\ op' = o
  /\ tried' = c
  /\ pc' = "write"

OpenTmp ==
  /\ pc = "write"
  /\ tmp' = Torn
  /\ pc' = "filling"
  /\ UNCHANGED <<env, setups, op, mem, gen, file, stamped, bak, cand>> /\ UNCHANGED history

\* mutant: the save is reported before the rename
FillTmp_reports ==
  /\ pc = "filling"
  /\ tmp' = mem
  /\ pc' = "bump"
  /\ UNCHANGED <<env, setups, op, mem, gen, file, stamped, bak, cand>> /\ UNCHANGED history

FillTmp ==
  /\ pc = "filling"
  /\ tmp' = mem
  /\ pc' = "rename"
  /\ UNCHANGED <<env, setups, op, mem, gen, file, stamped, bak, cand>> /\ UNCHANGED history

\* mutant: the rename does not wait for the temporary file to be complete
RenameTmp_early ==
  /\ pc \in {"filling", "rename"}
  /\ file' = tmp
  /\ stamped' = TRUE
  /\ tmp' = None
  /\ pc' = IF op = "boot" THEN "seed" ELSE "bump"
  /\ UNCHANGED <<env, setups, op, mem, gen, bak, cand>> /\ UNCHANGED history

\* os.replace; bootstrap calls _persist directly, without the generation
RenameTmp ==
  /\ pc = "rename"
  /\ file' = tmp
  /\ stamped' = TRUE
  /\ tmp' = None
  /\ pc' = IF op = "boot" THEN "seed" ELSE "bump"
  /\ UNCHANGED <<env, setups, op, mem, gen, bak, cand>> /\ UNCHANGED history

\* the rest of replace or update_field, which then returns
BumpGeneration ==
  /\ pc = "bump"
  /\ gen' = gen + 1
  /\ acked' = mem /\ tried' = None
  /\ pc' = IF op \in {"update", "import"} THEN "idle" ELSE "seed"
  /\ UNCHANGED <<env, setups, op, mem, file, stamped, tmp, bak, cand, pre>>

\* write_text, chmod's rename or copy2 raises: a handler answers with an error and
\* the process goes on; during start-up the exception ends the process
SystemCallFails ==
  /\ pc \in {"backup", "copying", "write", "filling", "rename"}
  /\ IF op \in {"update", "import"}
       THEN pc' = "idle" /\ UNCHANGED <<mem, gen>>
       ELSE pc' = "down" /\ mem' = None /\ gen' = 0
  /\ pre' = IF pc \in {"backup", "copying"} THEN None ELSE pre
  /\ cand' = None /\ tried' = None
  /\ UNCHANGED <<env, setups, op, acked>> /\ UNCHANGED disk

-------------------------------------------------------------------------------
(* SettingsStore.bootstrap                                                  *)

\* settings.json exists: load it, migrating it when its schema is older, and
\* rewrite it when it was migrated or does not name its schema
BootFromFile ==
  /\ pc = "down" /\ file # None
  /\ acked' = file
  /\ IF stamped
       THEN mem' = file /\ op' = "boot" /\ pc' = "seed" /\ tried' = None
       ELSE Assign(file, "boot")
  /\ UNCHANGED <<env, setups, gen, cand, pre>> /\ UNCHANGED disk

\* mutant: a mounted export is restored although settings.json exists
BootWithoutFile_always ==
  /\ pc = "down"
  /\ ~(env.restore = "bad" /\ env.strict)
  /\ Assign([data |-> IF env.restore = "good" THEN RestoredData
                      ELSE IF env.yaml THEN YamlData ELSE EmptyData,
             password |-> FALSE, secret |-> FALSE], "boot")
  /\ UNCHANGED <<env, setups, gen, cand, acked, pre>> /\ UNCHANGED disk

\* first start: a mounted export, else config.yaml, else an empty configuration;
\* an export that cannot be read stops a strict start and is skipped otherwise
BootWithoutFile ==
  /\ pc = "down" /\ file = None
  /\ ~(env.restore = "bad" /\ env.strict)
  /\ Assign([data |-> IF env.restore = "good" THEN RestoredData
                      ELSE IF env.yaml THEN YamlData ELSE EmptyData,
             password |-> FALSE, secret |-> FALSE], "boot")
  /\ UNCHANGED <<env, setups, gen, cand, acked, pre>> /\ UNCHANGED disk

NeedsPassword == env.password /\ ~mem.password

\* WEBUI_PASSWORD, when no password is set yet
SeedPassword ==
  /\ pc = "seed" /\ NeedsPassword
  /\ Assign([mem EXCEPT !.password = TRUE], "password")
  /\ UNCHANGED <<env, setups, gen, cand, acked, pre>> /\ UNCHANGED disk

SeedSecret ==
  /\ pc = "seed" /\ ~NeedsPassword /\ ~mem.secret
  /\ Assign([mem EXCEPT !.secret = TRUE], "secret")
  /\ UNCHANGED <<env, setups, gen, cand, acked, pre>> /\ UNCHANGED disk

\* mutant: an existing store is taken to be seeded already
StartServing_early ==
  /\ pc = "seed"
  /\ pc' = "idle"
  /\ UNCHANGED <<env, setups, op, mem, gen, cand>> /\ UNCHANGED disk /\ UNCHANGED history

StartServing ==
  /\ pc = "seed" /\ ~NeedsPassword /\ mem.secret
  /\ pc' = "idle"
  /\ UNCHANGED <<env, setups, op, mem, gen, cand>> /\ UNCHANGED disk /\ UNCHANGED history

-------------------------------------------------------------------------------
(* update_field and replace                                                 *)

\* a form is saved: the mutator changes its part of a copy of the configuration
UpdateField(f, v) ==
  /\ pc = "idle" /\ gen < MaxSaves
  /\ Assign([mem EXCEPT !.data[f] = v], "update")
  /\ UNCHANGED <<env, setups, gen, cand, acked, pre>> /\ UNCHANGED disk

\* the first password is submitted while none is set; the form is then awaited,
\* and other requests are served meanwhile
BeginSetUp ==
  /\ pc = "idle" /\ ~mem.password
  /\ setups < MaxSetUps /\ setups' = setups + 1
  /\ UNCHANGED <<env, pc, op, mem, gen, cand>> /\ UNCHANGED disk /\ UNCHANGED history

\* the form is here: too short, or not confirmed
RefuseSetUp ==
  /\ pc = "idle" /\ setups > 0 /\ setups' = setups - 1
  /\ UNCHANGED <<env, pc, op, mem, gen, cand>> /\ UNCHANGED disk /\ UNCHANGED history

\* ... or good: it is stored, over the password that a second form may have set
SetUpPassword ==
  /\ pc = "idle" /\ gen < MaxSaves
  /\ setups > 0 /\ setups' = setups - 1
  /\ Assign([mem EXCEPT !.password = TRUE], "update")
  /\ UNCHANGED <<env, gen, cand, acked, pre>> /\ UNCHANGED disk

\* replace(config, backup=True): import_config keeps the web UI's own section
ReplaceWithBackup(d) ==
  /\ pc = "idle" /\ gen < MaxSaves
  /\ cand' = [mem EXCEPT !.data = d]
  /\ op' = "import"
  /\ pre' = file
  /\ pc' = "backup"
  /\ UNCHANGED <<env, setups, mem, gen, acked, tried>> /\ UNCHANGED disk

\* shutil.copy2 opens the backup ...
OpenBackup ==
  /\ pc = "backup"
  /\ bak' = Torn
  /\ pc' = "copying"
  /\ UNCHANGED <<env, setups, op, mem, gen, file, stamped, tmp, cand>> /\ UNCHANGED history

\* mutant: the new configuration is what gets copied aside
CopyBackup_new ==
  /\ pc = "copying"
  /\ bak' = cand
  /\ Assign(cand, "import")
  /\ cand' = None
  /\ UNCHANGED <<env, setups, gen, file, stamped, tmp, acked, pre>>

\* ... and completes it; only then is the new configuration assigned
CopyBackup ==
  /\ pc = "copying"
  /\ bak' = file
  /\ Assign(cand, "import")
  /\ cand' = None
  /\ UNCHANGED <<env, setups, gen, file, stamped, tmp, acked, pre>>

-------------------------------------------------------------------------------
\* the process ends wherever it is
Crash ==
  /\ pc # "down"
  /\ pc' = "down" /\ mem' = None /\ gen' = 0 /\ setups' = 0
  /\ pre' = IF pc \in {"backup", "copying"} THEN None ELSE pre
  /\ cand' = None
  /\ UNCHANGED <<env, op, acked, tried>> /\ UNCHANGED disk

\* the documented way to retry a restore: delete data/settings.json
OperatorDeletes ==
  /\ pc = "down" /\ file # None
  /\ file' = None /\ stamped' = TRUE
  /\ acked' = None /\ pre' = None
  /\ UNCHANGED <<env, setups, pc, op, mem, gen, tmp, bak, cand, tried>>

Next ==
  \/ BootFromFile \/ BootWithoutFile \/ SeedPassword \/ SeedSecret \/ StartServing
  \/ \E f \in Fields, v \in Vals : UpdateField(f, v)
  \/ BeginSetUp \/ RefuseSetUp \/ SetUpPassword
  \/ \E d \in Data : ReplaceWithBackup(d)
  \/ OpenBackup \/ CopyBackup
  \/ OpenTmp \/ FillTmp \/ RenameTmp \/ BumpGeneration
  \/ SystemCallFails \/ Crash \/ OperatorDeletes

Spec == Init /\ [][Next]_vars

-------------------------------------------------------------------------------
(* Properties                                                               *)

\* "written atomically": settings.json is always a whole configuration, and it is
\* the last one reported saved or the one a save not yet reported wrote; a save that
\* was reported survives every later crash and every later failing save.
DurableSave == acked # None => file # None /\ file \in {acked, tried}

\* "so a bad restore is recoverable": from the start of an import on, what
\* settings.json held before it is in settings.json or in settings.json.bak,
\* whatever fails and whatever is saved afterwards.
ImportRecoverable == pre # None => pre \in {file, bak}

\* However often the start-up was interrupted, the web UI only serves once the
\* session secret, and the password the environment asks for, are on disk: no
\* restart invalidates the sessions or brings the UI up without that password.
ServesSeeded ==
  pc = "idle" =>
    /\ file # None /\ file.secret /\ mem.secret
    /\ env.password => file.password /\ mem.password

\* "it never clobbers a live config": once settings.json exists only a save made in
\* the web UI changes what the forms edit, and nothing takes a password away.
LiveConfigKept ==
  [][file # None /\ file' # None =>
       /\ file'.data = file.data \/ op \in {"update", "import"}
       /\ file.password => file'.password]_file
================================================================================
