---------------------------- MODULE TrustBundle ----------------------------
(***************************************************************************)
(* Whom the driver believes: tokens.py (BundleFile, accepts_replacement,   *)
(* verify, and build_bundle, which the root runs), auth_state.py and       *)
(* dependencies.py.                                                        *)
(*                                                                         *)
(* The control root signs bundles, its agent copies the newest one to a    *)
(* file beside the driver, and the driver follows that file while threads  *)
(* verify callers' tokens.  The root, its standby and the agent are        *)
(* external: a root numbers each change, a promoted copy starts one epoch  *)
(* higher from a log that may be behind, and keeps the old root's key.     *)
(* Signatures hold, and the machines' clocks agree.                        *)
(***************************************************************************)
EXTENDS Integers, FiniteSets

CONSTANTS
  Sessions,    \* the jti of the sessions the roots sign
  Nobody,      \* no inode, no session
  Inodes,      \* what tells one file from another: see Written
  Lifetime,    \* of a session
  Leeway,      \* LEEWAY_SECONDS
  MaxTime,     \* bound: clock ticks
  MaxEpoch,    \* bound: promotions
  MaxVersion   \* bound: changes of the root's log

ASSUME TrustAssumptions ==
  /\ Nobody \notin Inodes
  /\ Cardinality(Inodes) >= 2
  /\ {Lifetime, Leeway, MaxTime, MaxEpoch, MaxVersion} \subseteq Nat

Here == "node:here"       \* this machine, as a token's audience names it
There == "node:there"     \* another machine of the install
Control == "control"      \* the root
Machines == {Here, There}
Recipients == Machines \cup {Control}

(* What a machine's key may issue: nothing (the machine is not in the      *)
(* bundle), a job site's tokens, a node's, or also the gateway's.          *)
Levels == {"gone", "files", "node", "gateway"}

Unmarked == [since |-> 0, epoch |-> 0]
NoBundle == [epoch |-> 0, version |-> 0, out |-> {}, level |-> [m \in Machines |-> "gone"],
             marks |-> Unmarked]
First == [epoch |-> 1, version |-> 1, out |-> {}, level |-> [m \in Machines |-> "node"],
          marks |-> Unmarked]
Junk == [NoBundle EXCEPT !.version = -1]
NoStamp == Nobody
NoEpoch == 0             \* a token without `ep`
Unsigned(j) == [jti |-> j, by |-> 0]

VARIABLES
  now,      \* everybody's clock
  root,     \* the root followed by the agent: its next bundle, unpruned
  copy,     \* the standby's copy of the root's log
  session,  \* each session signed: when, by which root, and with what `ep`
  file,     \* the bundle file: what it says and its stamp
  held,     \* BundleFile._bundle
  stamp,    \* BundleFile._stamp
  lock,     \* who holds BundleFile._lock, and the stamp it saw
  call,     \* the request's thread
  dead      \* history: sessions some bundle held by this process rules out

world == <<now, root, copy, session, file>>
reader == <<held, stamp, lock>>
vars == <<world, reader, call, dead>>

\* One request is followed through, "it"; the "others" are there for what their
\* threads do to the bundle and its lock.
Free == [by |-> "nobody", seen |-> NoStamp]
Idle == [at |-> "idle", token |-> Unsigned(Nobody), bundle |-> NoBundle, barred |-> {}]

-----------------------------------------------------------------------------
(* verify(): a token's record says what its claims do, and `signer` whose  *)
(* key signed it.                                                          *)

\* _check_grants. The root's key holds `authority`. A standby's own tokens are for
\* the root alone, never for a driver.
MayIssue(t, level) ==
  \/ t.signer = Control
  \/ /\ t.typ = "service"
     /\ CASE level = "gone" -> FALSE
          [] level = "files" ->
               \/ t.aud \subseteq {t.signer}
               \/ t.sub = "agent" /\ t.aud \subseteq {t.signer, Control}
          [] OTHER ->
               \/ t.aud \subseteq {t.signer}
               \/ t.sub = "agent"
               \/ t.sub = "gateway" /\ level = "gateway"

\* _check_lifetime, with three lengths of a token's life: an hour, a session's
\* fourteen days, and the year of a machine's own service token.
MayLive(t) ==
  CASE t.typ = "session" -> t.life \in {"hour", "weeks"}
    [] t.aud \subseteq {t.iss} -> TRUE
    [] OTHER -> t.life = "hour"

\* Fault: a token without `ep` outlives the root that signed it.
EpochStandsUnmarked(t, b) ==
  \/ t.iss # Control
  \/ IF t.ep = NoEpoch THEN b.marks = Unmarked \/ t.iat < b.marks.since
     ELSE t.ep >= b.epoch

\* _check_epoch.
EpochStands(t, b) ==
  \/ t.iss # Control
  \/ IF t.ep = NoEpoch
     THEN b.marks = Unmarked \/ (t.iat < b.marks.since /\ b.epoch <= b.marks.epoch)
     ELSE t.ep >= b.epoch

\* A session is not signed out, and each machine it names is in the bundle.
Rules(b, t) ==
  t.typ = "session" =>
    /\ t.jti \notin b.out
    /\ t.signer = Control => \A m \in t.aud \cap Machines : b.level[m] # "gone"

KeyListed(t, b) == t.signer = Control \/ b.level[t.signer] # "gone"

Verified(t, b, classes) ==
  /\ t.typ \in classes
  /\ KeyListed(t, b)
  /\ t.exp + Leeway > now /\ t.iat <= now + Leeway
  /\ t.iss = t.signer
  /\ Here \in t.aud
  /\ MayIssue(t, IF t.signer = Control THEN "gateway" ELSE b.level[t.signer])
  /\ MayLive(t)
  /\ EpochStands(t, b)
  /\ Rules(b, t)

\* Claims.is_local_service
Local(t) == t.iss = Here /\ t.aud = {Here}

\* dependencies._validate, for the routes that read and those an operator owns.
Authorized(t, b) ==
  /\ b # NoBundle
  /\ Verified(t, b, {"session", "service"})
  /\ t.typ = "service" => Local(t) \/ t.sub = "gateway"

Operator(t, b) == b # NoBundle /\ Verified(t, b, {"session"})

-----------------------------------------------------------------------------
(* The world outside.                                                      *)

Tick ==
  /\ now < MaxTime
  /\ now' = now + 1
  /\ UNCHANGED <<root, copy, session, file, reader, call, dead>>

\* A root signs a session for this machine: the one in office, or one that was
\* replaced and does not know. A root older than `ep` leaves it out.
SignIn(j) ==
  /\ session[j].by = 0
  /\ \E e \in 1 .. root.epoch :
       session' = [session EXCEPT ![j] =
         [jti |-> j, typ |-> "session", signer |-> Control, iss |-> Control,
          sub |-> "operator", aud |-> {Here, There}, life |-> "weeks",
          iat |-> now, exp |-> now + Lifetime, by |-> e,
          ep |-> IF root.marks = Unmarked THEN NoEpoch ELSE e]]
  /\ UNCHANGED <<now, root, copy, file, reader, call, dead>>

Changes(r) ==
  /\ root.version < MaxVersion
  /\ root' = [r EXCEPT !.version = root.version + 1]
  /\ UNCHANGED <<now, copy, session, file, reader, call, dead>>

SignOut(j) ==
  /\ session[j].by # 0 /\ j \notin root.out
  /\ Changes([root EXCEPT !.out = root.out \cup {j}])

\* The other machine leaves the install for good.
MachineLeaves ==
  /\ root.level[There] # "gone"
  /\ Changes([root EXCEPT !.level[There] = "gone"])

\* The root is updated to one that marks its tokens.
RootUpgrades ==
  /\ root.marks = Unmarked
  /\ Changes([root EXCEPT !.marks = [since |-> now, epoch |-> root.epoch]])

\* A standby is as new as that, and its copy is as old as it likes.
StandbyCopies ==
  /\ root.marks # Unmarked /\ copy = NoBundle
  /\ copy' = root
  /\ UNCHANGED <<now, root, session, file, reader, call, dead>>

Promote ==
  /\ copy # NoBundle /\ root.epoch < MaxEpoch
  /\ root' = [copy EXCEPT !.epoch = root.epoch + 1]
  /\ UNCHANGED <<now, copy, session, file, reader, call, dead>>

\* Fault: a sign-out is forgotten when its session expires, leeway or not.
BuiltStrictly == [root EXCEPT !.out = {j \in root.out : session[j].exp > now}]

\* build_bundle: expired sign-outs are pruned.
Built == [root EXCEPT !.out = {j \in root.out : session[j].exp + Leeway >= now}]

\* os.replace: a new file, under an inode no file has now.  Its size and a coarse
\* time of writing may well be those of another, so the inode is all that tells.
Written(content) ==
  \E i \in Inodes \ {file.stamp} : file' = [says |-> content, stamp |-> i]

AgentWrites ==
  /\ file.says # Built
  /\ Written(Built)
  /\ UNCHANGED <<now, root, copy, session, reader, call, dead>>

\* Somebody puts back the first bundle there was, or damages the file.
FileMeddledWith ==
  /\ \E content \in {First, Junk} \ {file.says} : Written(content)
  /\ UNCHANGED <<now, root, copy, session, reader, call, dead>>

-----------------------------------------------------------------------------
(* BundleFile.get(), its lock held: a look at the stamp, then the reading. *)

Given(b) == call' = [call EXCEPT !.at = "checking", !.bundle = b]

\* Why the driver has to refuse a session from now on.
BarredNow(j) ==
  {why \in {"revoked", "superseded"} :
     \/ why = "revoked" /\ j \in dead
     \/ why = "superseded" /\ session[j].by < held.epoch}

\* A request brings a token; its thread does not hold the lock yet.
Present ==
  /\ call.at \in {"idle", "admitted", "refused"}
  /\ \E j \in Sessions :
       /\ session[j].by # 0
       /\ call' = [at |-> "asking", token |-> session[j], bundle |-> NoBundle,
                   barred |-> BarredNow(j)]
  /\ UNCHANGED <<world, reader, dead>>

\* The interval since the last look may not be over: with a bundle in hand the
\* driver gives that, or looks (GetStat), as the clock has it.
GetRecent ==
  /\ call.at = "asking" /\ lock = Free
  /\ held # NoBundle
  /\ Given(held)
  /\ UNCHANGED <<world, reader, dead>>

\* Fault: a bundle once read is read for good.
GetStatOnce(w) ==
  /\ lock = Free /\ (w = "it" => call.at = "asking")
  /\ held = NoBundle
  /\ IF file.stamp \in {stamp, NoStamp}
     THEN UNCHANGED lock /\ IF w = "it" THEN Given(held) ELSE UNCHANGED call
     ELSE lock' = [by |-> w, seen |-> file.stamp] /\ UNCHANGED call
  /\ UNCHANGED <<world, held, stamp, dead>>

\* No file, or the one already read: nothing to read.
GetStat(w) ==
  /\ lock = Free /\ (w = "it" => call.at = "asking")
  /\ IF file.stamp \in {stamp, NoStamp}
     THEN UNCHANGED lock /\ IF w = "it" THEN Given(held) ELSE UNCHANGED call
     ELSE lock' = [by |-> w, seen |-> file.stamp] /\ UNCHANGED call
  /\ UNCHANGED <<world, held, stamp, dead>>

\* accepts_replacement: epoch first.
MayReplace(offered) ==
  \/ held = NoBundle
  \/ offered.epoch > held.epoch
  \/ offered.epoch = held.epoch /\ offered.version >= held.version

\* The sessions b rules out: of the root that signed b, or of one before it.
RuledOut(b) ==
  {j \in Sessions : session[j].by \in 1 .. b.epoch /\ ~Rules(b, session[j])}

\* The file is read now, whatever it was when its stamp was taken.
GetRead(w) ==
  /\ lock.by = w
  /\ lock' = Free
  /\ IF file.says # Junk /\ MayReplace(file.says)
     THEN /\ held' = file.says /\ stamp' = lock.seen
          /\ dead' = dead \cup RuledOut(file.says)
     ELSE UNCHANGED <<held, stamp, dead>>
  /\ IF w = "it" THEN Given(held') ELSE UNCHANGED call
  /\ UNCHANGED world

\* The lock is free again, and others may have replaced the bundle since.
Check ==
  /\ call.at = "checking"
  /\ call' = [Idle EXCEPT !.at = IF Authorized(call.token, call.bundle)
                                 THEN "admitted" ELSE "refused"]
  /\ UNCHANGED <<world, reader, dead>>

-----------------------------------------------------------------------------
Init ==
  /\ now = 0
  /\ root = First
  /\ copy = NoBundle
  /\ session = [j \in Sessions |-> Unsigned(j)]
  /\ file = [says |-> Junk, stamp |-> NoStamp]
  /\ held = NoBundle /\ stamp = NoStamp /\ lock = Free
  /\ call = Idle
  /\ dead = {}

WorldNext ==
  \/ Tick \/ RootUpgrades \/ StandbyCopies \/ Promote \/ MachineLeaves
  \/ \E j \in Sessions : SignIn(j) \/ SignOut(j)
  \/ AgentWrites \/ FileMeddledWith

Looks == GetStat("it") \/ GetStat("others")
Reads == GetRead("it") \/ GetRead("others")

Next == WorldNext \/ Present \/ GetRecent \/ Looks \/ Reads \/ Check

\* Requests keep coming after the interval and their threads run; the root, the
\* agent and those who meddle with the file owe nothing.
Fairness == WF_vars(Looks) /\ WF_vars(Reads)

Spec == Init /\ [][Next]_vars /\ Fairness

-----------------------------------------------------------------------------
(* Properties.                                                             *)

(* Versions, epochs and times are numbers here: the bounds are not types.  *)
Bundles ==
  [epoch : Nat, version : Int, out : SUBSET Sessions, level : [Machines -> Levels],
   marks : [since : Nat, epoch : Nat]]
Signed ==
  [jti : Sessions, typ : {"session"}, signer : {Control}, iss : {Control},
   sub : {"operator"}, aud : SUBSET Recipients, life : {"weeks"}, iat : Nat, exp : Nat,
   by : Nat \ {0}, ep : Nat]
Unused == [jti : Sessions \cup {Nobody}, by : {0}]

WorldTyped ==
  /\ now \in Nat /\ root \in Bundles /\ copy \in Bundles
  /\ session \in [Sessions -> Signed \cup Unused]
  /\ file \in [says : Bundles, stamp : Inodes \cup {NoStamp}]

ReaderTyped ==
  /\ held \in Bundles /\ stamp \in Inodes \cup {NoStamp}
  /\ lock = Free \/ lock \in [by : {"it", "others"}, seen : Inodes]
  /\ dead \in SUBSET Sessions

CallTyped ==
  /\ call \in [at : {"idle", "asking", "checking", "admitted", "refused"},
               token : Signed \cup Unused, bundle : Bundles,
               barred : SUBSET {"revoked", "superseded"}]
  /\ call.at \in {"asking", "checking"} => call.token \in Signed
  /\ lock.by = "it" => call.at = "asking"

\* Every record is whole, and whoever reads the file has seen a stamp.
TypeOK == WorldTyped /\ ReaderTyped /\ CallTyped

Admits == call.at = "checking" /\ call'.at = "admitted"

\* A session that a bundle of this process has ruled out, by a sign-out or
\* because a machine it names is gone, is never admitted again: not when the
\* sign-out is pruned, not when an older file is put back, and not when a root
\* is promoted from a copy that never heard of it (tokens.py:42-46, 311-316,
\* 407-413, 755-766).
RuledOutStaysOut == [][Admits => "revoked" \notin call.barred]_vars

\* Once the driver follows a promoted root, nothing signed by the one it replaced
\* is admitted, although the key is the same; nor is a token from before
\* roots said their epoch (tokens.py:36-40, 769-790).
SupersededRootIsSilent == [][Admits => "superseded" \notin call.barred]_vars

\* The file is followed: once it stays as the root wants it, the driver holds
\* that bundle, whatever was refused before. A file that has the stamp of one
\* already read is the exception (BundleFile.get, tokens.py:455-458).
CatchesUp ==
  <>[](file.says = Built) => <>[](held = Built \/ stamp = file.stamp)
=============================================================================
