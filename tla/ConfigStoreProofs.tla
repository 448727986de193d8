-------------------------- MODULE ConfigStoreProofs --------------------------
(***************************************************************************)
(* A setting that was acknowledged is in the file, pending_restart() names *)
(* what the next start changes, and no secret falls out of its seal: for   *)
(* any fields, values and master keys, and any number of boots, kills and  *)
(* failing writes.                                                         *)
(***************************************************************************)
EXTENDS ConfigStore, TLAPS

Running == life \in {"booting", "up"}

MemoryTyped ==
  /\ values \in Document
  /\ key \in MasterKeys \cup {NoKey}
  /\ promised \in [Fields -> Setting \cup {Unknown}]
  /\ applied \subseteq Fields

FileTyped == file \in DiskDocument \cup {Absent, Broken}

(* A write is in progress in a driver that runs, and what it is about to   *)
(* put in place is what memory holds.                                      *)
WriteUnderWay ==
  /\ stage \in {"idle", "writing", "flushed"}
  /\ life \in {"down", "unbootable", "booting", "up"}
  /\ stage # "idle" => Running
  /\ life = "booting" => stage # "idle"
  /\ stage = "flushed" => temp = Sealed(values, key)

(* None is kept in memory only for a field whose default it is.            *)
NullIsDefault ==
  \A f \in Fields : values[f] = Unset \/ promised[f] = Unset => Default[f] = Unset

(* What is promised is in the file, and in the memory that writes it next. *)
PromiseKept ==
  \A f \in Fields : promised[f] # Unknown =>
    /\ file \in DiskDocument /\ file[f].v = promised[f]
    /\ Running /\ f \notin blind => values[f] = promised[f]

(* Memory that nothing changed since is what the file says.                *)
InStep ==
  life = "up" /\ ~ahead => file \in DiskDocument /\ Loaded(file, key) = values

(* A secret sealed with another key was not opened.                        *)
UnopenedIsUnset ==
  \A f \in Secrets :
    Running /\ f \notin given /\ file \in DiskDocument /\ file[f].by \notin {NoKey, key}
      => values[f] = Unset

IInv ==
  MemoryTyped /\ FileTyped /\ WriteUnderWay /\ NullIsDefault /\ PromiseKept /\ InStep
    /\ UnopenedIsUnset

-----------------------------------------------------------------------------
(* What the operators of the module return.                                *)
LEMMA DefaultTyped == Default \in Document
BY ConfigAssumptions DEF Document, Setting

LEMMA LoadedAt ==
  ASSUME NEW doc \in DiskDocument, NEW k, NEW f \in Fields
  PROVE  /\ Loaded(doc, k)[f] \in Setting
         /\ doc[f].by \in {NoKey, k} /\ doc[f].v # Unset => Loaded(doc, k)[f] = doc[f].v
         /\ doc[f].by \in {NoKey, k} /\ doc[f].v = Unset => Loaded(doc, k)[f] = Default[f]
         /\ doc[f].by \notin {NoKey, k} => Loaded(doc, k)[f] = Default[f]
         /\ Loaded(doc, k)[f] = Unset => Default[f] = Unset
<1>1. Loaded(doc, k)[f] =
        IF Opened(doc[f], k) = Unset THEN Default[f] ELSE Opened(doc[f], k)
  BY DEF Loaded
<1>2. doc[f].v \in Setting /\ Default[f] \in Setting
  BY ConfigAssumptions DEF DiskDocument, Cell, Setting
<1> QED
  BY <1>1, <1>2 DEF Opened

LEMMA LoadedTyped == ASSUME NEW doc \in DiskDocument, NEW k PROVE Loaded(doc, k) \in Document
<1>1. DOMAIN Loaded(doc, k) = Fields /\ Loaded(doc, k) = [f \in Fields |-> Loaded(doc, k)[f]]
  BY DEF Loaded
<1> QED
  BY <1>1, LoadedAt DEF Document

LEMMA SealedAt ==
  ASSUME NEW vals \in Document, NEW k \in MasterKeys \cup {NoKey}
  PROVE  /\ Sealed(vals, k) \in DiskDocument
         /\ \A f \in Fields :
              /\ Sealed(vals, k)[f].v = vals[f]
              /\ Sealed(vals, k)[f].by \in {NoKey, k}
              /\ f \in Secrets /\ vals[f] # Unset => Sealed(vals, k)[f].by = k
<1>1. \A f \in Fields : vals[f] \in Setting
  BY DEF Document
<1> QED
  BY <1>1 DEF Sealed, DiskDocument, Cell

(* What was sealed is what is loaded with the same key.                    *)
LEMMA SealedLoads ==
  ASSUME NEW vals \in Document, NEW k \in MasterKeys \cup {NoKey},
         \A f \in Fields : vals[f] = Unset => Default[f] = Unset
  PROVE  Loaded(Sealed(vals, k), k) = vals
<1> DEFINE doc == Sealed(vals, k)
<1>1. \A f \in Fields : Loaded(doc, k)[f] = vals[f]
  BY SealedAt, LoadedAt
<1>2. Loaded(doc, k) = [f \in Fields |-> Loaded(doc, k)[f]] /\ vals = [f \in Fields |-> vals[f]]
  BY DEF Loaded, Document
<1> QED
  BY <1>1, <1>2

LEMMA PatchedAt ==
  ASSUME NEW vals \in Document, NEW patch
  PROVE  /\ Patched(vals, patch) \in Document
         /\ \A f \in Fields :
              /\ f \notin Accepted(patch) => Patched(vals, patch)[f] = vals[f]
              /\ f \in Accepted(patch) /\ Patched(vals, patch)[f] = Unset => Default[f] = Unset
<1>1. \A f \in Fields : vals[f] \in Setting /\ Default[f] \in Setting
  BY ConfigAssumptions DEF Document, Setting
<1>2. \A f \in Accepted(patch) : patch[f] \in Setting
  BY DEF Accepted
<1> QED
  BY <1>1, <1>2 DEF Patched, Document

-----------------------------------------------------------------------------
LEMMA InitIInv == Init => IInv
<1> SUFFICES ASSUME Init PROVE IInv
  OBVIOUS
<1>1. MemoryTyped
  BY DefaultTyped DEF Init, MemoryTyped
<1>2. FileTyped
  <2>1. SUFFICES ASSUME NEW d \in Document
                 PROVE  [f \in Fields |-> [v |-> d[f], by |-> NoKey]] \in DiskDocument
    BY DEF Init, FileTyped
  <2> QED
    BY DEF Document, DiskDocument, Cell
<1>3. NullIsDefault /\ PromiseKept
  BY ConfigAssumptions DEF Init, NullIsDefault, PromiseKept
<1>4. WriteUnderWay /\ InStep /\ UnopenedIsUnset
  BY DEF Init, WriteUnderWay, InStep, UnopenedIsUnset, Running
<1> QED
  BY <1>1, <1>2, <1>3, <1>4 DEF IInv

-----------------------------------------------------------------------------
(* One lemma for each action that the invariant is not plainly kept by.    *)
LEMMA BootKeeps == ASSUME IInv, NEW k \in MasterKeys \cup {NoKey}, BootLoads(k) PROVE IInv'
<1>1. /\ file \in DiskDocument /\ key' = k /\ values' = Loaded(file, k)
      /\ blind' = {f \in Fields : file[f].by \notin {NoKey, k}}
      /\ life' = "up" /\ life \in {"down", "unbootable"}
      /\ UNCHANGED <<file, temp, stage, applied, given, promised>>
  BY DEF BootLoads, NotRunning
<1>2. stage = "idle"
  BY <1>1 DEF IInv, WriteUnderWay, Running
<1>3. MemoryTyped' /\ FileTyped'
  BY <1>1, LoadedTyped DEF IInv, MemoryTyped, FileTyped
<1>4. WriteUnderWay'
  BY <1>1, <1>2 DEF WriteUnderWay, Running
<1>5. NullIsDefault'
  BY <1>1, LoadedAt DEF IInv, NullIsDefault
<1>6. PromiseKept'
  <2>1. SUFFICES ASSUME NEW f \in Fields, promised[f] # Unknown, f \notin blind'
                 PROVE  values'[f] = promised[f]
    BY <1>1 DEF IInv, PromiseKept
  <2>2. file[f].v = promised[f] /\ file[f].by \in {NoKey, k}
    BY <1>1, <2>1 DEF IInv, PromiseKept
  <2>3. promised[f] = Unset => Default[f] = Unset
    BY DEF IInv, NullIsDefault
  <2> QED
    BY <1>1, <2>2, <2>3, LoadedAt
<1>7. InStep'
  BY <1>1 DEF InStep
<1>8. UnopenedIsUnset'
  <2>1. SUFFICES ASSUME NEW f \in Secrets, file[f].by \notin {NoKey, k} PROVE values'[f] = Unset
    BY <1>1 DEF UnopenedIsUnset
  <2>2. f \in Fields /\ Default[f] = Unset
    BY ConfigAssumptions
  <2> QED
    BY <1>1, <2>1, <2>2, LoadedAt
<1> QED
  BY <1>3, <1>4, <1>5, <1>6, <1>7, <1>8 DEF IInv

LEMMA CreateKeeps == ASSUME IInv, NEW k \in MasterKeys \cup {NoKey}, BootCreates(k) PROVE IInv'
<1>1. /\ file = Absent /\ key' = k /\ values' = Default
      /\ life' = "booting" /\ stage' = "writing"
      /\ UNCHANGED <<file, applied, given, promised>>
  BY DEF BootCreates, BeginWrite
<1>2. file \notin DiskDocument
  BY <1>1, JunkAssumption DEF Junk
<1>3. MemoryTyped' /\ FileTyped' /\ WriteUnderWay' /\ InStep'
  BY <1>1, DefaultTyped DEF IInv, MemoryTyped, FileTyped, WriteUnderWay, InStep, Running
<1>4. NullIsDefault' /\ PromiseKept' /\ UnopenedIsUnset'
  BY <1>1, <1>2 DEF IInv, NullIsDefault, PromiseKept, UnopenedIsUnset
<1> QED
  BY <1>3, <1>4 DEF IInv

LEMMA SafeKeeps == ASSUME IInv, NEW k \in MasterKeys \cup {NoKey}, BootSafe(k) PROVE IInv'
<1>1. /\ key' = k /\ values' = Default /\ blind' = Fields /\ ahead' = TRUE
      /\ life' = "up" /\ life \in {"down", "unbootable"}
      /\ UNCHANGED <<file, temp, stage, applied, given, promised>>
  BY DEF BootSafe, NotRunning
<1>2. stage = "idle"
  BY <1>1 DEF IInv, WriteUnderWay, Running
<1>3. MemoryTyped' /\ FileTyped' /\ WriteUnderWay' /\ InStep'
  BY <1>1, <1>2, DefaultTyped DEF IInv, MemoryTyped, FileTyped, WriteUnderWay, InStep, Running
<1>4. NullIsDefault' /\ PromiseKept'
  BY <1>1 DEF IInv, NullIsDefault, PromiseKept
<1>5. UnopenedIsUnset'
  BY <1>1, ConfigAssumptions DEF UnopenedIsUnset
<1> QED
  BY <1>3, <1>4, <1>5 DEF IInv

(* An exit, and a first boot whose write fails: the memory is gone.        *)
LEMMA ForgottenKeeps ==
  ASSUME IInv, Forgotten, life' \in {"down", "unbootable"}, UNCHANGED <<file, promised>>
  PROVE  IInv'
<1>1. MemoryTyped' /\ FileTyped' /\ WriteUnderWay' /\ InStep'
  BY DefaultTyped DEF Forgotten, IInv, MemoryTyped, FileTyped, WriteUnderWay, InStep, Running
<1>2. NullIsDefault' /\ PromiseKept' /\ UnopenedIsUnset'
  BY DEF Forgotten, IInv, NullIsDefault, PromiseKept, UnopenedIsUnset, Running
<1> QED
  BY <1>1, <1>2 DEF IInv

LEMMA PatchKeeps ==
  ASSUME IInv, NEW D \in SUBSET Fields, NEW patch \in [D -> Setting \cup {Invalid}], BeginPatch(patch)
  PROVE  IInv'
<1> DEFINE S == Accepted(patch)
<1>1. /\ life = "up" /\ stage' = "writing"
      /\ values' = Patched(values, patch)
      /\ applied' = S /\ given' = given \cup S /\ ahead' = TRUE
      /\ promised' = [f \in Fields |-> IF f \in S THEN Unknown ELSE promised[f]]
      /\ UNCHANGED <<file, life, key, blind>>
  BY DEF BeginPatch, BeginWrite, process
<1>2. values \in Document /\ \A f \in Fields : promised[f] \in Setting \cup {Unknown}
  BY DEF IInv, MemoryTyped
<1>3. /\ values' \in Document
      /\ \A f \in Fields : f \notin S => values'[f] = values[f]
      /\ \A f \in S \cap Fields : values'[f] = Unset => Default[f] = Unset
  BY <1>1, <1>2, PatchedAt
<1>4. \A f \in Fields : promised'[f] = IF f \in S THEN Unknown ELSE promised[f]
  BY <1>1
<1>5. MemoryTyped'
  <2>1. promised' \in [Fields -> Setting \cup {Unknown}]
    BY <1>1, <1>2
  <2>2. S \subseteq Fields
    BY DEF Accepted
  <2> QED
    BY <1>1, <1>3, <2>1, <2>2 DEF IInv, MemoryTyped
<1>6. FileTyped' /\ WriteUnderWay' /\ InStep'
  BY <1>1 DEF IInv, FileTyped, WriteUnderWay, InStep, Running
<1>7. NullIsDefault'
  BY <1>3, <1>4, ConfigAssumptions DEF IInv, NullIsDefault
<1>8. PromiseKept'
  BY <1>1, <1>3, <1>4 DEF IInv, PromiseKept, Running
<1>9. UnopenedIsUnset'
  BY <1>1, <1>3, ConfigAssumptions DEF IInv, UnopenedIsUnset, Running
<1> QED
  BY <1>5, <1>6, <1>7, <1>8, <1>9 DEF IInv

(* What the file says once the temporary one is in place.                  *)
LEMMA ReplaceWrites ==
  ASSUME IInv, Replace
  PROVE  /\ file' = Sealed(values, key) /\ file' \in DiskDocument
         /\ \A f \in Fields :
              /\ file'[f].v = values[f] /\ file'[f].by \in {NoKey, key}
              /\ f \in Secrets /\ values[f] # Unset => file'[f].by = key
<1>1. file' = Sealed(values, key)
  BY DEF Replace, IInv, WriteUnderWay
<1>2. values \in Document /\ key \in MasterKeys \cup {NoKey}
  BY DEF IInv, MemoryTyped
<1> QED
  BY <1>1, <1>2, SealedAt

LEMMA ReplaceKeeps == ASSUME IInv, Replace PROVE IInv'
<1>1. /\ temp' = Absent /\ stage' = "idle" /\ life' = "up" /\ Running
      /\ promised' = [f \in Fields |-> IF f \in applied THEN values[f]
                                       ELSE IF f \in blind THEN Unknown ELSE promised[f]]
      /\ applied' = {} /\ blind' = {} /\ UNCHANGED <<key, values, given>>
  BY DEF Replace, process, IInv, WriteUnderWay
<1>2. values \in Document /\ key \in MasterKeys \cup {NoKey}
  BY DEF IInv, MemoryTyped
<1>3. \A f \in Fields : values[f] \in Setting /\ promised[f] \in Setting \cup {Unknown}
  BY <1>2 DEF IInv, MemoryTyped, Document
<1>4. \A f \in Fields :
        promised'[f] = IF f \in applied THEN values[f] ELSE IF f \in blind THEN Unknown ELSE promised[f]
  BY <1>1
<1>5. MemoryTyped'
  <2>1. promised' \in [Fields -> Setting \cup {Unknown}]
    BY <1>1, <1>3
  <2> QED
    BY <1>1, <1>2, <2>1 DEF MemoryTyped
<1>6. FileTyped'
  BY ReplaceWrites DEF FileTyped
<1>7. WriteUnderWay'
  BY <1>1 DEF WriteUnderWay, Running
<1>8. NullIsDefault'
  BY <1>1, <1>4, ConfigAssumptions DEF IInv, NullIsDefault
<1>9. PromiseKept'
  <2>1. \A f \in Fields : promised'[f] # Unknown => promised'[f] = values[f]
    BY <1>1, <1>4 DEF IInv, PromiseKept
  <2> QED
    BY <1>1, <2>1, ReplaceWrites DEF PromiseKept
<1>10. InStep'
  <2>1. \A f \in Fields : values[f] = Unset => Default[f] = Unset
    BY DEF IInv, NullIsDefault
  <2>2. Loaded(Sealed(values, key), key) = values
    BY <1>2, <2>1, SealedLoads
  <2> QED
    BY <1>1, <2>2, ReplaceWrites DEF InStep
<1>11. UnopenedIsUnset'
  BY <1>1, ReplaceWrites, ConfigAssumptions DEF UnopenedIsUnset
<1> QED
  BY <1>5, <1>6, <1>7, <1>8, <1>9, <1>10, <1>11 DEF IInv

-----------------------------------------------------------------------------
LEMMA StepIInv == IInv /\ [Next]_vars => IInv'
<1> SUFFICES ASSUME IInv, [Next]_vars PROVE IInv'
  OBVIOUS
<1>1. ASSUME NEW k \in MasterKeys \cup {NoKey}, BootLoads(k) \/ BootCreates(k) \/ BootSafe(k) PROVE IInv'
  BY <1>1, BootKeeps, CreateKeeps, SafeKeeps
<1>2. CASE BootFails
  BY <1>2 DEF BootFails, process, IInv, MemoryTyped, FileTyped, WriteUnderWay, NullIsDefault, PromiseKept,
              InStep, UnopenedIsUnset, Running
<1>3. ASSUME NEW D \in SUBSET Fields, NEW patch \in [D -> Setting \cup {Invalid}], BeginPatch(patch)
      PROVE  IInv'
  BY <1>3, PatchKeeps
<1>4. CASE Flush
  <2>1. WriteUnderWay'
    BY <1>4 DEF Flush, process, IInv, WriteUnderWay, Running
  <2> QED
    BY <1>4, <2>1 DEF Flush, process, IInv, MemoryTyped, FileTyped, NullIsDefault, PromiseKept, InStep,
                      UnopenedIsUnset, Running
<1>5. CASE Replace
  BY <1>5, ReplaceKeeps
<1>6. CASE PatchFails
  <2>1. WriteUnderWay'
    BY <1>6 DEF PatchFails, process, IInv, WriteUnderWay, Running
  <2> QED
    BY <1>6, <2>1 DEF PatchFails, process, IInv, MemoryTyped, FileTyped, NullIsDefault, PromiseKept, InStep,
                      UnopenedIsUnset, Running
<1>7. CASE CreateFails
  BY <1>7, ForgottenKeeps DEF CreateFails
<1>8. CASE Exit
  BY <1>8, ForgottenKeeps DEF Exit
<1>9. CASE OperatorBreaks
  <2>1. \A f \in Fields : promised'[f] = Unknown
    BY <1>9 DEF OperatorBreaks
  <2>2. file' = Broken /\ file' \notin DiskDocument
    BY <1>9, JunkAssumption DEF OperatorBreaks, Junk
  <2>3. promised' \in [Fields -> Setting \cup {Unknown}]
    BY <1>9 DEF OperatorBreaks
  <2>4. MemoryTyped' /\ FileTyped' /\ WriteUnderWay'
    BY <1>9, <2>2, <2>3 DEF OperatorBreaks, process, IInv, MemoryTyped, FileTyped, WriteUnderWay, Running
  <2>5. NullIsDefault' /\ PromiseKept' /\ InStep' /\ UnopenedIsUnset'
    BY <1>9, <2>1, <2>2, ConfigAssumptions
       DEF OperatorBreaks, process, IInv, NullIsDefault, PromiseKept, InStep, UnopenedIsUnset, Running
  <2> QED
    BY <2>4, <2>5 DEF IInv
<1>10. CASE UNCHANGED vars
  BY <1>10 DEF vars, process, IInv, MemoryTyped, FileTyped, WriteUnderWay, NullIsDefault, PromiseKept,
               InStep, UnopenedIsUnset, Running
<1> QED
  BY <1>1, <1>2, <1>3, <1>4, <1>5, <1>6, <1>7, <1>8, <1>9, <1>10 DEF Next

-----------------------------------------------------------------------------
(* The types that the invariant does not speak of.                         *)
RestTyped ==
  /\ temp \in DiskDocument \cup {Absent, Torn} /\ started \in Document
  /\ given \subseteq Fields /\ blind \subseteq Fields /\ ahead \in BOOLEAN

LEMMA StepTypes == IInv /\ RestTyped /\ [Next]_vars => RestTyped'
<1> SUFFICES ASSUME IInv, RestTyped, [Next]_vars PROVE RestTyped'
  OBVIOUS
<1>1. values \in Document /\ key \in MasterKeys \cup {NoKey}
  BY DEF IInv, MemoryTyped
<1>2. ASSUME NEW k \in MasterKeys \cup {NoKey}, BootLoads(k) \/ BootCreates(k) \/ BootSafe(k)
      PROVE  RestTyped'
  BY <1>2, DefaultTyped, LoadedTyped DEF BootLoads, BootCreates, BootSafe, BeginWrite, RestTyped
<1>3. ASSUME NEW patch, DOMAIN patch \in SUBSET Fields, BeginPatch(patch)  PROVE RestTyped'
  BY <1>3 DEF BeginPatch, BeginWrite, Accepted, process, RestTyped
<1>4. CASE Flush
  BY <1>1, <1>4, SealedAt DEF Flush, process, RestTyped
<1>5. CASE Replace \/ PatchFails
  BY <1>5 DEF Replace, PatchFails, process, RestTyped
<1>6. CASE CreateFails \/ Exit
  BY <1>6, DefaultTyped DEF CreateFails, Exit, Forgotten, RestTyped
<1>7. CASE BootFails \/ OperatorBreaks \/ UNCHANGED vars
  BY <1>7 DEF BootFails, OperatorBreaks, vars, process, RestTyped
<1> QED
  BY <1>2, <1>3, <1>4, <1>5, <1>6, <1>7 DEF Next

\* The types of the file, of what a write prepares and of what a process keeps.
THEOREM TypeCorrect == Spec => []TypeOK
<1>1. Init => RestTyped
  BY DefaultTyped DEF Init, RestTyped
<1>2. IInv /\ RestTyped => TypeOK
  BY DEF IInv, MemoryTyped, FileTyped, WriteUnderWay, RestTyped, TypeOK, Junk
<1> QED
  BY InitIInv, StepIInv, StepTypes, <1>1, <1>2, PTL DEF Spec

-----------------------------------------------------------------------------
\* What PATCH /v1/config acknowledged stays in the file (_write_locked), which is
\* never half of one, whatever write fails and whenever the process is killed.
THEOREM Durable == Spec => []AcknowledgedIsSaved
<1>1. IInv => AcknowledgedIsSaved
  BY ConfigAssumptions, JunkAssumption DEF IInv, FileTyped, PromiseKept, AcknowledgedIsSaved, Junk
<1> QED
  BY InitIInv, StepIInv, <1>1, PTL DEF Spec

\* pending_restart() names exactly what the next start with this key would change.
THEOREM Exact == Spec => []PendingIsExact
<1>1. IInv => PendingIsExact
  BY DEF IInv, InStep, PendingIsExact, Pending
<1> QED
  BY InitIInv, StepIInv, <1>1, PTL DEF Spec

\* A sealed secret is written in plaintext only by a keyless process that was given
\* it anew (_write_locked, _decrypt_loaded), for any keys a boot may bring.
THEOREM StaysSealed == Spec => SealedStaysSealed
<1> DEFINE P == \A f \in Secrets :
                  /\ file \in DiskDocument /\ file' \in DiskDocument
                  /\ file[f].by # NoKey /\ file'[f].by = NoKey /\ file'[f].v # Unset
                  => f \in given /\ key = NoKey
<1>1. IInv /\ [Next]_vars => [P]_vars
  <2> SUFFICES ASSUME IInv, [Next]_vars, NEW f \in Secrets,
                      file \in DiskDocument, file' \in DiskDocument,
                      file[f].by # NoKey, file'[f].by = NoKey, file'[f].v # Unset
               PROVE  f \in given /\ key = NoKey
    OBVIOUS
  <2>1. Replace
    <3>1. file' # file /\ file' # Broken
      BY JunkAssumption DEF Junk
    <3> QED
      BY <3>1 DEF Next, vars, BootLoads, BootCreates, BootSafe, BootFails, BeginPatch, Flush, PatchFails,
                  CreateFails, Exit, OperatorBreaks
  <2>2. f \in Fields /\ values[f] # Unset /\ key = NoKey
    BY <2>1, ReplaceWrites, ConfigAssumptions
  <2>3. Running
    BY <2>1 DEF Replace, IInv, WriteUnderWay
  <2> QED
    BY <2>2, <2>3 DEF IInv, UnopenedIsUnset
<1> QED
  BY InitIInv, StepIInv, <1>1, PTL DEF Spec, SealedStaysSealed
=============================================================================
