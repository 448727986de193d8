---------------------------- MODULE ConfigStore ----------------------------
(***************************************************************************)
(* The driver's configuration: config.py (ConfigStore), the file it writes *)
(* through _private_files.py, and the boots and exits of app.py and        *)
(* routes/admin.py around it.                                              *)
(*                                                                         *)
(* load and apply_patch hold a lock and never await, so one of them runs   *)
(* at a time; an exit, a kill or a failing filesystem can still come       *)
(* between any two steps of the write.  Reads only wait for the lock.      *)
(* A value is what a field can be set to; Unset is None (or, for a secret, *)
(* the empty string, which the code folds into None).                      *)
(***************************************************************************)
EXTENDS FiniteSets

CONSTANTS
  Fields,      \* the known fields (_FIELDS_BY_KEY)
  Secrets,     \* those of them that are sensitive
  Restart,     \* those with requiresRestart
  Managed,     \* managed_keys(): this machine's agent writes them
  Values,      \* valid values
  Invalid,     \* a value that fails validation
  Unset,       \* None
  Default,     \* the default of each field, Unset when it has none
  MasterKeys,  \* secretbox keys a boot may be given
  NoKey,       \* no master key, and on disk: not sealed
  Absent,      \* there is no config file
  Broken,      \* a file that does not parse to a mapping
  Torn,        \* a file somebody began to write
  Unknown      \* nothing is promised about a field

ASSUME ConfigAssumptions ==
  /\ Secrets \subseteq Fields /\ Restart \subseteq Fields /\ Managed \subseteq Fields
  /\ Unset \notin Values /\ Invalid \notin Values \cup {Unset}
  /\ Unknown \notin Values \cup {Unset}
  /\ Default \in [Fields -> Values \cup {Unset}]
  /\ NoKey \notin MasterKeys
  /\ \A f \in Secrets : Default[f] = Unset
  /\ Torn \notin {Absent, Broken}

Setting == Values \cup {Unset}
Document == [Fields -> Setting]

(* What the file says of a field: a value, and the key that sealed it. *)
Cell == [v : Setting, by : MasterKeys \cup {NoKey}]
DiskDocument == [Fields -> Cell]
Junk == {Absent, Broken, Torn}
ASSUME JunkAssumption == Junk \cap DiskDocument = {}

VARIABLES
  file,     \* the config file
  temp,     \* the temporary file of the write in progress
  life,     \* "down", "unbootable" (its load raised), "booting" or "up"
  stage,    \* of _write_locked: "idle", "writing", "flushed"
  key,      \* the process's _master_key
  values,   \* _values
  started,  \* _started
  applied,  \* the fields the PATCH in progress applied
  given,    \* history: fields some PATCH to this process set
  blind,    \* history: fields whose saved value the process never read
  ahead,    \* history: _values is not what was last loaded or written
  promised  \* history: the value last acknowledged for each field

process == <<key, started>>
vars == <<file, temp, life, stage, process, values, applied, given, blind, ahead, promised>>

\* The types of the file, of memory and of the history.
TypeOK ==
  /\ file \in DiskDocument \cup Junk
  /\ temp \in DiskDocument \cup {Absent, Torn}
  /\ life \in {"down", "unbootable", "booting", "up"}
  /\ stage \in {"idle", "writing", "flushed"}
  /\ key \in MasterKeys \cup {NoKey}
  /\ values \in Document /\ started \in Document
  /\ {applied, given, blind} \subseteq SUBSET Fields
  /\ ahead \in BOOLEAN
  /\ promised \in [Fields -> Setting \cup {Unknown}]

(* A fresh install, or a file somebody wrote by hand: nothing is sealed. *)
Init ==
  /\ file \in {Absent} \cup {[f \in Fields |-> [v |-> d[f], by |-> NoKey]] : d \in Document}
  /\ temp = Absent
  /\ life = "down" /\ stage = "idle"
  /\ key = NoKey
  /\ values = Default /\ started = Default
  /\ applied = {} /\ given = {} /\ blind = {} /\ ahead = FALSE
  /\ promised = [f \in Fields |-> Unknown]

(***************************************************************************)
(* Reading and writing the document.                                       *)
(***************************************************************************)

\* Fault: sealed or not, the value is taken.
OpenedRaw(cell, k) == cell.v

(* _decrypt_loaded, on a sealed cell: only the key that sealed it opens it. *)
Opened(cell, k) == IF cell.by \in {NoKey, k} THEN cell.v ELSE Unset

(* load's merge: a null, and what cannot be opened, are the default. *)
Loaded(doc, k) ==
  [f \in Fields |-> LET v == Opened(doc[f], k) IN IF v = Unset THEN Default[f] ELSE v]

(* _write_locked: secrets are sealed when the process has a key. *)
Sealed(vals, k) ==
  [f \in Fields |-> [v |-> vals[f],
                     by |-> IF f \in Secrets /\ vals[f] # Unset THEN k ELSE NoKey]]

(* The keys of a PATCH that are neither invalid nor the agent's. *)
Accepted(patch) == {f \in DOMAIN patch : patch[f] \in Setting} \ Managed

\* Fault: a null stays a null.
PatchedNull(vals, patch) ==
  [f \in Fields |-> IF f \notin Accepted(patch) THEN vals[f] ELSE patch[f]]

(* apply_patch's loop: a null is the field's default. *)
Patched(vals, patch) ==
  [f \in Fields |-> IF f \notin Accepted(patch) THEN vals[f]
                    ELSE IF patch[f] = Unset THEN Default[f] ELSE patch[f]]

(* pending_restart(): what the next start would change. *)
Pending == {f \in Restart : values[f] # started[f]}

BeginWrite == stage' = "writing" /\ temp' = Torn

(***************************************************************************)
(* Boots and exits.                                                        *)
(***************************************************************************)
(* What the process held in memory is gone. *)
Forgotten ==
  /\ stage' = "idle" /\ temp' = Absent
  /\ key' = NoKey
  /\ values' = Default /\ started' = Default
  /\ applied' = {} /\ given' = {} /\ blind' = {} /\ ahead' = FALSE

NotRunning == life \in {"down", "unbootable"}

(* The lifespan, its load included, over a file that reads. *)
BootLoads(k) ==
  /\ NotRunning
  /\ file \in DiskDocument
  /\ key' = k
  /\ values' = Loaded(file, k)
  /\ started' = values'
  /\ blind' = {f \in Fields : file[f].by \notin {NoKey, k}}
  /\ ahead' = FALSE
  /\ life' = "up"
  /\ UNCHANGED <<file, temp, stage, applied, given, promised>>

(* The first boot of all writes the defaults before it serves. *)
BootCreates(k) ==
  /\ NotRunning
  /\ file = Absent
  /\ key' = k
  /\ values' = Default /\ started' = Default
  /\ blind' = {} /\ ahead' = FALSE
  /\ life' = "booting"
  /\ BeginWrite
  /\ UNCHANGED <<file, applied, given, promised>>

(* A file that is no mapping: load raises, and the driver does not start. *)
BootFails ==
  /\ life = "down"
  /\ file \in {Broken, Torn}
  /\ life' = "unbootable"
  /\ UNCHANGED <<file, temp, stage, process, values, applied, given, blind, ahead, promised>>

(* Safe mode: the file is not read, whatever it holds. *)
BootSafe(k) ==
  /\ NotRunning
  /\ key' = k
  /\ values' = Default /\ started' = Default
  /\ blind' = Fields
  /\ ahead' = TRUE
  /\ life' = "up"
  /\ UNCHANGED <<file, temp, stage, applied, given, promised>>

(* POST /v1/admin/restart's os._exit, a kill, a crash: at any point. *)
Exit ==
  /\ life \in {"booting", "up"}
  /\ life' = "down"
  /\ Forgotten
  /\ UNCHANGED <<file, promised>>

(* External: while the driver is stopped, an edit that does not parse. *)
OperatorBreaks ==
  /\ life = "down"
  /\ file' = Broken
  /\ promised' = [f \in Fields |-> Unknown]
  /\ UNCHANGED <<temp, life, stage, process, values, applied, given, blind, ahead>>

(***************************************************************************)
(* PATCH /v1/config.                                                       *)
(***************************************************************************)
BeginPatch(patch) ==
  /\ life = "up" /\ stage = "idle"
  /\ Accepted(patch) # {}
  /\ values' = Patched(values, patch)
  /\ applied' = Accepted(patch)
  /\ given' = given \cup Accepted(patch)
  /\ ahead' = TRUE
  /\ promised' = [f \in Fields |-> IF f \in Accepted(patch) THEN Unknown ELSE promised[f]]
  /\ BeginWrite
  /\ UNCHANGED <<file, life, process, blind>>

\* Fault: not flushed before the rename.
FlushNothing ==
  /\ stage = "writing"
  /\ stage' = "flushed"
  /\ UNCHANGED <<file, temp, life, process, values, applied, given, blind, ahead, promised>>

(* The temporary file is whole and fsynced. *)
Flush ==
  /\ stage = "writing"
  /\ temp' = Sealed(values, key)
  /\ stage' = "flushed"
  /\ UNCHANGED <<file, life, process, values, applied, given, blind, ahead, promised>>

(* os.replace, and the answer: every applied field is acknowledged.  The   *)
(* file now holds this process's word on every field, those it was blind   *)
(* to included.                                                            *)
Replace ==
  /\ stage = "flushed"
  /\ file' = temp
  /\ temp' = Absent /\ stage' = "idle"
  /\ life' = "up"
  /\ promised' = [f \in Fields |-> IF f \in applied THEN values[f]
                                   ELSE IF f \in blind THEN Unknown ELSE promised[f]]
  /\ applied' = {} /\ blind' = {} /\ ahead' = FALSE
  /\ UNCHANGED <<process, values, given>>

(* The filesystem refuses one of the steps and the temporary file goes.    *)
(* The PATCH answers 500; _values keep what it set.                        *)
PatchFails ==
  /\ life = "up" /\ stage \in {"writing", "flushed"}
  /\ stage' = "idle" /\ temp' = Absent
  /\ applied' = {}
  /\ UNCHANGED <<file, life, process, values, given, blind, ahead, promised>>

(* The same in the first boot's write: the driver does not start. *)
CreateFails ==
  /\ life = "booting"
  /\ life' = "unbootable"
  /\ Forgotten
  /\ UNCHANGED <<file, promised>>

Next ==
  \/ \E k \in MasterKeys \cup {NoKey} :
       BootLoads(k) \/ BootCreates(k) \/ BootSafe(k)
  \/ BootFails
  \/ \E D \in SUBSET Fields : \E patch \in [D -> Setting \cup {Invalid}] : BeginPatch(patch)
  \/ Flush \/ Replace \/ PatchFails \/ CreateFails
  \/ Exit
  \/ OperatorBreaks

Spec == Init /\ [][Next]_vars

(***************************************************************************)
(* Properties.                                                             *)
(***************************************************************************)

(* However a write is cut short, by an exit or by the filesystem, the file *)
(* is never half of one; and what a PATCH acknowledged stays in it, across *)
(* failing writes, exits, boots with another master key and in safe mode,  *)
(* until the next PATCH of that field or until a process that never read   *)
(* the field writes the file.                                              *)
AcknowledgedIsSaved ==
  file # Torn /\ \A f \in Fields : promised[f] # Unknown =>
    file \in DiskDocument /\ file[f].v = promised[f]

(* While memory is what was last loaded or saved, pending_restart() names  *)
(* exactly the restart fields that the next start with this key changes.   *)
PendingIsExact ==
  life = "up" /\ stage = "idle" /\ ~ahead =>
    /\ file \in DiskDocument
    /\ Pending = {f \in Restart : Loaded(file, key)[f] # started[f]}

(* A secret the file once sealed is written there in plaintext only by a   *)
(* keyless process that a PATCH has given it anew: no boot without the key *)
(* carries the old one over, whatever fails on the way.                    *)
SealedStaysSealed ==
  [][\A f \in Secrets :
       /\ file \in DiskDocument /\ file' \in DiskDocument
       /\ file[f].by # NoKey /\ file'[f].by = NoKey /\ file'[f].v # Unset
       => f \in given /\ key = NoKey]_vars

=============================================================================
