------------------------- MODULE TrustBundleProofs -------------------------
(***************************************************************************)
(* What TLAPS proves of TrustBundle, for any number of sessions, inodes,   *)
(* promotions and changes, and for every lifetime and leeway.              *)
(***************************************************************************)
EXTENDS TrustBundle, TLAPS

Safety == Init /\ [][Next]_vars

-----------------------------------------------------------------------------
(* Whose tokens are believed.                                              *)

\* The routes that read and answer believe a service token in two cases only: this
\* machine's key made it for this machine, or it says it is the gateway's and
\* comes from the root or from a machine the bundle lets speak for the gateway. No
\* key of another machine can pass for a component of this one
\* (tokens.py:603-635, dependencies.py:67-76).
THEOREM WhoMayCall ==
  ASSUME NEW t, NEW b, t.typ = "service", t.signer \in Recipients, Authorized(t, b)
  PROVE  \/ t.signer = Here /\ t.aud = {Here}
         \/ /\ t.sub = "gateway"
            /\ t.signer = Control \/ b.level[t.signer] = "gateway"
<1>1. Verified(t, b, {"session", "service"}) /\ (Local(t) \/ t.sub = "gateway")
  BY DEF Authorized
<1>2. t.iss = t.signer /\ Here \in t.aud
      /\ MayIssue(t, IF t.signer = Control THEN "gateway" ELSE b.level[t.signer])
  BY <1>1 DEF Verified
<1>3. CASE Local(t)
  BY <1>2, <1>3 DEF Local
<1>4. CASE t.sub = "gateway" /\ t.signer # Control /\ ~Local(t)
  <2>1. b.level[t.signer] = "gateway" \/ t.aud \subseteq {t.signer}
    BY <1>2, <1>4 DEF MayIssue
  <2>2. ~ t.aud \subseteq {t.signer}
    BY <1>2, <1>4 DEF Local
  <2> QED BY <1>4, <2>1, <2>2
<1> QED BY <1>1, <1>3, <1>4

\* What only an operator may do, nobody but the root vouches for: no service token
\* and no machine's key, whatever its level (dependencies.py:87-92).
THEOREM OperatorIsTheRoots ==
  ASSUME NEW t, NEW b, Operator(t, b)
  PROVE  t.typ = "session" /\ t.signer = Control
BY DEF Operator, Verified, MayIssue

-----------------------------------------------------------------------------
(* Typing.                                                                 *)

\* No bundle, the first one and a damaged one are records like any other.
LEMMA FixedBundles ==
  NoBundle \in Bundles /\ First \in Bundles /\ Junk \in Bundles
<1>1. NoBundle \in Bundles
  BY DEF NoBundle, Bundles, Unmarked, Levels
<1>2. First \in Bundles
  BY DEF First, Bundles, Unmarked, Levels
<1>3. Junk \in Bundles
  BY <1>1 DEF Junk, Bundles
<1> QED BY <1>1, <1>2, <1>3

\* build_bundle gives a bundle.
LEMMA BuiltTypes == ASSUME WorldTyped PROVE Built \in Bundles
BY DEF WorldTyped, Built, Bundles

\* A change of the root's log makes a bundle of a bundle.
LEMMA ChangeTypes ==
  ASSUME WorldTyped, NEW r \in Bundles, Changes(r)
  PROVE  WorldTyped'
<1>1. [r EXCEPT !.version = root.version + 1] \in Bundles
  BY DEF WorldTyped, Bundles
<1> QED BY <1>1 DEF WorldTyped, Changes

\* What has been signed is a session, not an empty place for one.
LEMMA SignedByItsRoot ==
  ASSUME NEW x \in Signed \cup Unused, x.by # 0
  PROVE  x \in Signed
BY DEF Unused

\* The steps of the world outside are well typed.
LEMMA WorldTypes == ASSUME WorldTyped, WorldNext PROVE WorldTyped'
<1>1. CASE Tick
  BY <1>1 DEF WorldTyped, Tick
<1>2. CASE RootUpgrades
  <2>1. [root EXCEPT !.marks = [since |-> now, epoch |-> root.epoch]] \in Bundles
    BY DEF WorldTyped, Bundles
  <2> QED BY <1>2, <2>1, ChangeTypes DEF RootUpgrades
<1>3. CASE StandbyCopies
  BY <1>3 DEF WorldTyped, StandbyCopies
<1>4. CASE Promote
  BY <1>4 DEF WorldTyped, Promote, Bundles
<1>5. CASE MachineLeaves
  <2>1. [root EXCEPT !.level[There] = "gone"] \in Bundles
    BY DEF WorldTyped, Bundles, Levels
  <2> QED BY <1>5, <2>1, ChangeTypes DEF MachineLeaves
<1>6. ASSUME NEW j \in Sessions, SignIn(j) PROVE WorldTyped'
  <2>1. PICK e \in 1 .. root.epoch :
          session' = [session EXCEPT ![j] =
            [jti |-> j, typ |-> "session", signer |-> Control, iss |-> Control,
             sub |-> "operator", aud |-> {Here, There}, life |-> "weeks",
             iat |-> now, exp |-> now + Lifetime, by |-> e,
             ep |-> IF root.marks = Unmarked THEN NoEpoch ELSE e]]
    BY <1>6 DEF SignIn
  <2>2. e \in Nat \ {0} /\ now + Lifetime \in Nat
    BY TrustAssumptions DEF WorldTyped, Bundles
  <2>3. session'[j] \in Signed
    BY <2>1, <2>2 DEF WorldTyped, Signed, Recipients, Machines, NoEpoch
  <2>4. session' \in [Sessions -> Signed \cup Unused]
    BY <2>1, <2>3 DEF WorldTyped
  <2> QED BY <2>4, <1>6 DEF WorldTyped, SignIn
<1>7. ASSUME NEW j \in Sessions, SignOut(j) PROVE WorldTyped'
  <2>1. [root EXCEPT !.out = root.out \cup {j}] \in Bundles
    BY DEF WorldTyped, Bundles
  <2> QED BY <1>7, <2>1, ChangeTypes DEF SignOut
<1>8. CASE AgentWrites
  BY <1>8, BuiltTypes DEF WorldTyped, AgentWrites, Written
<1>9. CASE FileMeddledWith
  BY <1>9, FixedBundles DEF WorldTyped, FileMeddledWith, Written
<1> QED
  BY <1>1, <1>2, <1>3, <1>4, <1>5, <1>6, <1>7, <1>8, <1>9 DEF WorldNext

\* They leave the driver alone, and it leaves the world alone.
LEMMA TwoSides ==
  /\ WorldNext => UNCHANGED <<reader, call, dead>>
  /\ Present \/ GetRecent \/ Looks \/ Reads \/ Check => UNCHANGED world
BY DEF WorldNext, Tick, RootUpgrades, StandbyCopies, Promote, MachineLeaves, SignIn,
       SignOut, Changes, AgentWrites, FileMeddledWith,
       Present, GetRecent, Looks, GetStat, Reads, GetRead, Check

\* A thread that is given a bundle goes on with its token.
LEMMA GivenTypes ==
  ASSUME CallTyped, call.at = "asking", NEW b \in Bundles, Given(b), lock' = Free
  PROVE  CallTyped'
<1>1. call' \in [at : {"idle", "asking", "checking", "admitted", "refused"},
                token : Signed \cup Unused, bundle : Bundles,
                barred : SUBSET {"revoked", "superseded"}]
  BY DEF CallTyped, Given
<1>2. call'.token = call.token /\ call.token \in Signed
  BY DEF CallTyped, Given
<1>3. lock'.by # "it"
  BY DEF Free
<1> QED BY <1>1, <1>2, <1>3 DEF CallTyped

\* The driver's steps are well typed.
LEMMA DriverTypes ==
  ASSUME TypeOK, Present \/ GetRecent \/ Looks \/ Reads \/ Check
  PROVE  ReaderTyped' /\ CallTyped'
<1>1. CASE Present
  <2>1. ReaderTyped'
    BY <1>1 DEF TypeOK, ReaderTyped, Present, reader
  <2>2. PICK j \in Sessions :
          /\ session[j].by # 0
          /\ call' = [at |-> "asking", token |-> session[j], bundle |-> NoBundle,
                      barred |-> BarredNow(j)]
    BY <1>1 DEF Present
  <2>3. session[j] \in Signed
    BY <2>2, SignedByItsRoot DEF TypeOK, WorldTyped
  <2>4. lock' = lock /\ lock.by # "it"
    BY <1>1 DEF TypeOK, CallTyped, Present, reader
  <2> QED BY <2>1, <2>2, <2>3, <2>4, FixedBundles DEF CallTyped, BarredNow
<1>2. CASE GetRecent
  <2>1. ReaderTyped'
    BY <1>2 DEF TypeOK, ReaderTyped, GetRecent, reader
  <2>2. lock' = Free /\ held \in Bundles /\ call.at = "asking" /\ Given(held)
    BY <1>2 DEF TypeOK, ReaderTyped, GetRecent, reader
  <2> QED BY <2>1, <2>2, GivenTypes DEF TypeOK
<1>3. ASSUME NEW w \in {"it", "others"}, GetStat(w) PROVE ReaderTyped' /\ CallTyped'
  <2>1. ReaderTyped'
    BY <1>3 DEF TypeOK, WorldTyped, ReaderTyped, GetStat, NoStamp
  <2>2. CASE call' = call
    <3>1. lock'.by = "it" => call.at = "asking"
      BY <1>3 DEF GetStat, Free
    <3> QED BY <2>1, <2>2, <3>1 DEF TypeOK, CallTyped
  <2>3. CASE call' # call
    <3>1. lock' = Free /\ held \in Bundles /\ call.at = "asking" /\ Given(held)
      BY <1>3, <2>3 DEF TypeOK, ReaderTyped, GetStat
    <3> QED BY <2>1, <3>1, GivenTypes DEF TypeOK
  <2> QED BY <2>1, <2>2, <2>3
<1>4. ASSUME NEW w \in {"it", "others"}, GetRead(w) PROVE ReaderTyped' /\ CallTyped'
  <2>1. lock \in [by : {"it", "others"}, seen : Inodes]
    BY <1>4 DEF TypeOK, ReaderTyped, GetRead, Free
  <2>2. ReaderTyped'
    BY <1>4, <2>1 DEF TypeOK, WorldTyped, ReaderTyped, GetRead, RuledOut
  <2>3. CASE w = "it"
    <3>1. lock' = Free /\ held' \in Bundles /\ Given(held') /\ call.at = "asking"
      BY <1>4, <2>2, <2>3 DEF TypeOK, ReaderTyped, CallTyped, GetRead
    <3> QED BY <2>2, <3>1, GivenTypes DEF TypeOK
  <2>4. CASE w # "it"
    <3>1. lock'.by # "it" /\ call' = call
      BY <1>4, <2>4 DEF GetRead, Free
    <3> QED BY <2>2, <3>1 DEF TypeOK, CallTyped
  <2> QED BY <2>2, <2>3, <2>4
<1>5. CASE Check
  BY <1>5, FixedBundles
  DEF TypeOK, ReaderTyped, CallTyped, Check, Idle, Unsigned, Unused, reader
<1> QED BY <1>1, <1>2, <1>3, <1>4, <1>5 DEF Looks, Reads

DriverNext == Present \/ GetRecent \/ Looks \/ Reads \/ Check

\* A step is the world's, the driver's or nobody's.
LEMMA NextTypes == TypeOK /\ [Next]_vars => TypeOK'
<1> SUFFICES ASSUME TypeOK, [Next]_vars PROVE TypeOK'
  OBVIOUS
<1>1. CASE WorldNext
  <2>1. WorldTyped'
    BY <1>1, WorldTypes DEF TypeOK
  <2>2. UNCHANGED <<reader, call, dead>>
    BY <1>1, TwoSides
  <2>3. ReaderTyped'
    BY <2>2 DEF TypeOK, ReaderTyped, reader
  <2>4. CallTyped'
    BY <2>2 DEF TypeOK, CallTyped, reader
  <2> QED BY <2>1, <2>3, <2>4 DEF TypeOK
<1>2. CASE DriverNext
  <2>1. WorldTyped'
    BY <1>2, TwoSides DEF TypeOK, WorldTyped, world, DriverNext
  <2> QED BY <1>2, <2>1, DriverTypes DEF TypeOK, DriverNext
<1>3. CASE UNCHANGED vars
  <2>1. WorldTyped'
    BY <1>3 DEF TypeOK, WorldTyped, vars, world
  <2>2. ReaderTyped'
    BY <1>3 DEF TypeOK, ReaderTyped, vars, reader
  <2>3. CallTyped'
    BY <1>3 DEF TypeOK, CallTyped, vars, reader
  <2> QED BY <2>1, <2>2, <2>3 DEF TypeOK
<1> QED BY <1>1, <1>2, <1>3 DEF Next, DriverNext

\* A new driver is well typed.
LEMMA TypeInit == Init => TypeOK
<1> SUFFICES ASSUME Init PROVE TypeOK
  OBVIOUS
<1>1. WorldTyped
  BY FixedBundles DEF Init, WorldTyped, Unsigned, Unused
<1>2. ReaderTyped
  BY FixedBundles DEF Init, ReaderTyped, NoStamp
<1>3. CallTyped
  BY FixedBundles DEF Init, CallTyped, Idle, Unsigned, Unused, Free
<1> QED BY <1>1, <1>2, <1>3 DEF TypeOK

\* Every reachable state is well typed.
THEOREM TypeCorrect == Safety => []TypeOK
BY TypeInit, NextTypes, PTL DEF Safety

-----------------------------------------------------------------------------
(* A superseded root is silent.  The epoch alone tells its tokens from     *)
(* those of the root that replaced it, and the oldest carry none: what     *)
(* saves the check is that no root is promoted before there are marks.     *)

\* Roots mark their tokens from the first epoch on, or not yet.
Marked(b) ==
  /\ b.marks = Unmarked \/ b.marks.epoch = 1
  /\ b.epoch > 1 => b.marks # Unmarked

\* A token carries its root's epoch, or is from before the marks.
Dated(t) == t.ep \in {NoEpoch, t.by} /\ (t.ep = NoEpoch => t.by = 1)

WorldMarked ==
  /\ root.epoch >= 1 /\ Marked(root)
  /\ copy # NoBundle => copy.marks # Unmarked /\ Marked(copy)
  /\ Marked(file.says)
  /\ \A j \in Sessions : session[j].by # 0 => Dated(session[j])

\* Whoever is superseded when a request comes is so in the bundle it is given.
CallAhead ==
  /\ Marked(held)
  /\ call.at \in {"asking", "checking"} => Dated(call.token)
  /\ call.at = "asking" /\ "superseded" \in call.barred => call.token.by < held.epoch
  /\ call.at = "checking" =>
       /\ Marked(call.bundle)
       /\ "superseded" \in call.barred => call.token.by < call.bundle.epoch

\* No step of a root, a standby or the agent makes a bundle of a later epoch without
\* marks, or signs a session without its epoch once there are marks.
LEMMA MarksKept == ASSUME TypeOK, WorldMarked, WorldNext PROVE WorldMarked'
<1>1. CASE Tick
  BY <1>1 DEF WorldMarked, Tick
<1>2. CASE RootUpgrades
  BY <1>2 DEF TypeOK, WorldTyped, Bundles, WorldMarked, Marked, RootUpgrades, Changes, Unmarked
<1>3. CASE StandbyCopies
  BY <1>3 DEF WorldMarked, StandbyCopies
<1>4. CASE Promote
  BY <1>4 DEF TypeOK, WorldTyped, Bundles, WorldMarked, Marked, Promote
<1>5. CASE MachineLeaves
  BY <1>5 DEF TypeOK, WorldTyped, Bundles, WorldMarked, Marked, MachineLeaves, Changes
<1>6. ASSUME NEW j \in Sessions, SignIn(j) PROVE WorldMarked'
  <2>1. PICK e \in 1 .. root.epoch :
          session' = [session EXCEPT ![j] =
            [jti |-> j, typ |-> "session", signer |-> Control, iss |-> Control,
             sub |-> "operator", aud |-> {Here, There}, life |-> "weeks",
             iat |-> now, exp |-> now + Lifetime, by |-> e,
             ep |-> IF root.marks = Unmarked THEN NoEpoch ELSE e]]
    BY <1>6 DEF SignIn
  <2>2. root.marks = Unmarked => e = 1
    BY DEF TypeOK, WorldTyped, Bundles, WorldMarked, Marked
  <2>3. Dated(session'[j])
    BY <2>1, <2>2 DEF TypeOK, WorldTyped, Dated, NoEpoch
  <2>4. \A k \in Sessions : session'[k].by # 0 => Dated(session'[k])
    BY <2>1, <2>3 DEF TypeOK, WorldTyped, WorldMarked
  <2> QED BY <2>4, <1>6 DEF WorldMarked, SignIn
<1>7. ASSUME NEW j \in Sessions, SignOut(j) PROVE WorldMarked'
  BY <1>7 DEF TypeOK, WorldTyped, Bundles, WorldMarked, Marked, SignOut, Changes
<1>8. CASE AgentWrites
  <2>1. Marked(Built)
    BY DEF TypeOK, WorldTyped, Bundles, WorldMarked, Marked, Built
  <2> QED BY <1>8, <2>1 DEF TypeOK, WorldTyped, WorldMarked, AgentWrites, Written
<1>9. CASE FileMeddledWith
  <2>1. Marked(First) /\ Marked(Junk)
    BY DEF Marked, First, Junk, NoBundle
  <2> QED BY <1>9, <2>1 DEF TypeOK, WorldTyped, WorldMarked, FileMeddledWith, Written
<1> QED
  BY <1>1, <1>2, <1>3, <1>4, <1>5, <1>6, <1>7, <1>8, <1>9 DEF WorldNext

\* What a request is given is at least the bundle there was when it came.
LEMMA GivenAhead ==
  ASSUME TypeOK, CallAhead, call.at = "asking", NEW b \in Bundles, Given(b),
         Marked(b), b.epoch >= held.epoch, Marked(held')
  PROVE  CallAhead'
<1>1. /\ call'.at = "checking" /\ call'.bundle = b
      /\ call'.token = call.token /\ call'.barred = call.barred
  BY DEF TypeOK, CallTyped, Given
<1>2. call.token.by \in Nat /\ b.epoch \in Nat /\ held.epoch \in Nat
  BY DEF TypeOK, CallTyped, ReaderTyped, Signed, Bundles
<1> QED BY <1>1, <1>2 DEF CallAhead

\* The driver only goes forward in epochs, and hands on what it holds.
LEMMA AheadKept == ASSUME TypeOK, WorldMarked, CallAhead, DriverNext PROVE CallAhead'
<1>1. CASE Present
  <2>1. PICK j \in Sessions :
          /\ session[j].by # 0
          /\ call' = [at |-> "asking", token |-> session[j], bundle |-> NoBundle,
                      barred |-> BarredNow(j)]
    BY <1>1 DEF Present
  <2>2. held' = held
    BY <1>1 DEF Present, reader
  <2>3. "superseded" \in BarredNow(j) => session[j].by < held.epoch
    BY DEF BarredNow
  <2> QED BY <2>1, <2>2, <2>3 DEF CallAhead, WorldMarked
<1>2. CASE GetRecent
  <2>1. call.at = "asking" /\ Given(held) /\ held' = held /\ held \in Bundles
    BY <1>2 DEF GetRecent, reader, TypeOK, ReaderTyped
  <2>2. held.epoch >= held.epoch
    BY <2>1 DEF Bundles
  <2>3. Marked(held')
    BY <2>1 DEF CallAhead
  <2> QED BY <2>1, <2>2, <2>3, GivenAhead
<1>3. ASSUME NEW w \in {"it", "others"}, GetStat(w) PROVE CallAhead'
  <2>1. held' = held /\ held \in Bundles
    BY <1>3 DEF GetStat, TypeOK, ReaderTyped
  <2>2. CASE call' = call
    BY <2>1, <2>2 DEF CallAhead
  <2>3. CASE call' # call
    <3>1. call.at = "asking" /\ Given(held)
      BY <1>3, <2>3 DEF GetStat
    <3>2. held.epoch >= held.epoch /\ Marked(held')
      BY <2>1 DEF Bundles, CallAhead
    <3> QED BY <2>1, <3>1, <3>2, GivenAhead DEF CallAhead
  <2> QED BY <2>2, <2>3
<1>4. ASSUME NEW w \in {"it", "others"}, GetRead(w) PROVE CallAhead'
  <2>1. held' \in Bundles /\ held'.epoch >= held.epoch /\ Marked(held')
    <3>1. CASE held' = held
      BY <3>1 DEF TypeOK, ReaderTyped, Bundles, CallAhead
    <3>2. CASE held' # held
      <4>1. held' = file.says /\ MayReplace(file.says)
        BY <1>4, <3>2 DEF GetRead
      <4>2. file.says \in Bundles /\ held \in Bundles
        BY DEF TypeOK, WorldTyped, ReaderTyped
      <4>3. file.says.epoch >= held.epoch
        BY <4>1, <4>2 DEF MayReplace, NoBundle, Bundles
      <4> QED BY <4>1, <4>2, <4>3 DEF WorldMarked
    <3> QED BY <3>1, <3>2
  <2>2. CASE w = "it"
    <3>1. call.at = "asking" /\ Given(held')
      BY <1>4, <2>2 DEF GetRead, TypeOK, CallTyped
    <3> QED BY <2>1, <3>1, GivenAhead
  <2>3. CASE w # "it"
    <3>1. call' = call
      BY <1>4, <2>3 DEF GetRead
    <3>2. call.at = "asking" =>
            call.token.by \in Nat /\ held.epoch \in Nat /\ held'.epoch \in Nat
      BY <2>1 DEF TypeOK, CallTyped, ReaderTyped, Signed, Bundles
    <3> QED BY <2>1, <3>1, <3>2 DEF CallAhead
  <2> QED BY <2>2, <2>3
<1>5. CASE Check
  BY <1>5 DEF Check, CallAhead, Idle, reader
<1> QED BY <1>1, <1>2, <1>3, <1>4, <1>5 DEF DriverNext, Looks, Reads

EInv == TypeOK /\ WorldMarked /\ CallAhead

\* A new driver holds no bundle, and the first root is in its first epoch.
LEMMA EpochInit == Init => EInv
<1> SUFFICES ASSUME Init PROVE EInv
  OBVIOUS
<1>1. Marked(First) /\ Marked(Junk) /\ Marked(NoBundle)
  BY DEF Marked, First, Junk, NoBundle
<1>2. WorldMarked /\ CallAhead
  BY <1>1 DEF Init, WorldMarked, CallAhead, First, Unsigned, Idle
<1> QED BY <1>2, TypeInit DEF EInv

\* No step brings a bundle or a token of an epoch it is not from.
LEMMA EpochStep == EInv /\ [Next]_vars => EInv'
<1> SUFFICES ASSUME EInv, [Next]_vars PROVE EInv'
  OBVIOUS
<1>1. TypeOK'
  BY NextTypes DEF EInv
<1>2. CASE WorldNext
  <2>1. UNCHANGED <<reader, call>>
    BY <1>2, TwoSides
  <2>2. CallAhead'
    BY <2>1 DEF EInv, CallAhead, reader
  <2> QED BY <1>1, <1>2, <2>2, MarksKept DEF EInv
<1>3. CASE DriverNext
  <2>1. WorldMarked'
    BY <1>3, TwoSides DEF EInv, DriverNext, world, WorldMarked
  <2> QED BY <1>1, <1>3, <2>1, AheadKept DEF EInv
<1>4. CASE UNCHANGED vars
  BY <1>1, <1>4 DEF EInv, vars, world, reader, WorldMarked, CallAhead
<1> QED BY <1>2, <1>3, <1>4 DEF Next, DriverNext

\* The strengthened invariant of the epochs.
THEOREM EpochInvariance == Safety => []EInv
BY EpochInit, EpochStep, PTL DEF Safety

\* Nobody is let in but by the check of its token against the bundle it was given.
LEMMA AdmitsByCheck ==
  ASSUME TypeOK, [Next]_vars, Admits
  PROVE  Check /\ Authorized(call.token, call.bundle)
<1>1. call.at = "checking" /\ call'.at = "admitted" /\ call' # call
  BY DEF Admits
<1>2. ~ WorldNext /\ ~ UNCHANGED vars
  BY <1>1, TwoSides DEF vars
<1>3. ~ Present /\ ~ GetRecent
  BY <1>1 DEF Present, GetRecent
<1>4. ASSUME NEW w \in {"it", "others"} PROVE ~ GetStat(w) /\ ~ GetRead(w)
  BY <1>1 DEF GetStat, GetRead, Given, TypeOK, CallTyped
<1>5. Check
  BY <1>2, <1>3, <1>4 DEF Next, Looks, Reads
<1> QED BY <1>5 DEF Check, Admits, Idle

\* A bundle of a later epoch refuses the tokens of the roots before it.
LEMMA OlderRefused ==
  ASSUME NEW t \in Signed, NEW b \in Bundles, Dated(t), Marked(b), t.by < b.epoch
  PROVE  ~ Authorized(t, b)
<1>1. t.iss = Control /\ t.by \in Nat /\ t.ep \in Nat /\ b.epoch \in Nat
  BY DEF Signed, Bundles
<1>2. ~ EpochStands(t, b)
  BY <1>1 DEF EpochStands, Dated, Marked, NoEpoch
<1> QED BY <1>2 DEF Authorized, Verified

\* Nothing signed by a root that the driver no longer follows is admitted, for any
\* number of promotions, whatever the threads, the file and the older roots do
\* (tokens.py:766-790).
THEOREM SupersededSilent == Safety => SupersededRootIsSilent
<1>1. EInv /\ [Next]_vars => (Admits => "superseded" \notin call.barred)
  <2> SUFFICES ASSUME EInv, [Next]_vars, Admits, "superseded" \in call.barred
               PROVE  FALSE
    OBVIOUS
  <2>1. Authorized(call.token, call.bundle)
    BY AdmitsByCheck DEF EInv
  <2>2. /\ Dated(call.token) /\ Marked(call.bundle)
        /\ call.token.by < call.bundle.epoch
    BY DEF EInv, CallAhead, Admits
  <2>3. call.token \in Signed /\ call.bundle \in Bundles
    BY DEF Admits, EInv, TypeOK, CallTyped
  <2> QED BY <2>1, <2>2, <2>3, OlderRefused
<1> QED BY <1>1, EpochInvariance, PTL DEF Safety, SupersededRootIsSilent

-----------------------------------------------------------------------------
(* A session ruled out stays out.  The bundle a driver holds forgets a     *)
(* sign-out when its session is stale, and is followed by one of a later   *)
(* epoch or of the same epoch and no older; so it is enough that bundles of *)
(* one epoch stand in one line, each keeping what the ones before rule out. *)

Stale(j) == session[j].exp + Leeway <= now
SomeoneGone(b) == \E m \in Machines : b.level[m] = "gone"

\* y rules out what x does, as far as that still matters.
Keeps(y, x) ==
  /\ \A j \in x.out : j \in y.out \/ SomeoneGone(y) \/ Stale(j)
  /\ SomeoneGone(x) => SomeoneGone(y)

NoNewer(x, y) == x.epoch = y.epoch /\ x.version <= y.version

\* The bundles there are: the first one, the file's, the driver's and the root's next.
Known == {First, file.says, held, root}

\* Bundles stand in a line, and the root's next is at the end of it.
InLine ==
  /\ \A x, y \in Known : NoNewer(x, y) => Keeps(y, x)
  /\ \A x \in Known : x.epoch < root.epoch \/ NoNewer(x, root)
  /\ \A x \in Known : x.epoch >= 1 \/ x \in {NoBundle, Junk}

\* A sign-out is of a session that was signed, for this machine and the other.
OutWasIn ==
  /\ \A x \in Known \cup {copy} : \A j \in x.out : session[j].by # 0
  /\ \A j \in Sessions :
       session[j].jti = j /\ (session[j].by # 0 => session[j].aud = Machines)

\* b rules j out, or j is of an older root, or nobody would admit it any more.
Out(b, j) ==
  /\ session[j].by \in 1 .. b.epoch
  /\ session[j].by < b.epoch \/ j \in b.out \/ SomeoneGone(b) \/ Stale(j)

\* Whoever was ruled out once is out now.
DeadStayOut == \A j \in dead : Out(held, j)

\* A request barred when it came is so in the bundle it is given.
BarredIsOut ==
  "revoked" \in call.barred =>
    /\ call.at \in {"asking", "checking"} => call.token = session[call.token.jti]
    /\ call.at = "asking" => call.token.jti \in dead
    /\ call.at = "checking" => Out(call.bundle, call.token.jti)

LineInv == EInv /\ InLine /\ OutWasIn /\ DeadStayOut /\ BarredIsOut

\* A token that was signed stays as it is, and what is stale stays so.
LEMMA StaleGrows ==
  ASSUME EInv, [Next]_vars, NEW j \in Sessions, session[j].by # 0
  PROVE  session'[j] = session[j] /\ (Stale(j) => Stale(j)')
<1>1. session'[j] = session[j]
  <2>1. CASE UNCHANGED session
    BY <2>1
  <2>2. ASSUME NEW k \in Sessions, SignIn(k) PROVE session'[j] = session[j]
    <3>1. k # j
      BY <2>2 DEF SignIn
    <3> QED BY <2>2, <3>1 DEF SignIn, EInv, TypeOK, WorldTyped
  <2>3. UNCHANGED session \/ \E k \in Sessions : SignIn(k)
    BY TwoSides
    DEF Next, WorldNext, Tick, RootUpgrades, StandbyCopies, Promote, MachineLeaves, SignOut,
        Changes, AgentWrites, FileMeddledWith, vars, world
  <2> QED BY <2>1, <2>2, <2>3
<1>2. now' \in {now, now + 1}
  BY TwoSides
  DEF Next, WorldNext, Tick, RootUpgrades, StandbyCopies, Promote, MachineLeaves, SignIn,
      SignOut, Changes, AgentWrites, FileMeddledWith, vars, world
<1>3. now \in Nat /\ session[j].exp + Leeway \in Nat
  <2>1. session[j] \in Signed
    BY SignedByItsRoot DEF EInv, TypeOK, WorldTyped
  <2> QED BY <2>1, TrustAssumptions DEF EInv, TypeOK, WorldTyped, Signed
<1> QED BY <1>1, <1>2, <1>3 DEF Stale

\* What one bundle keeps of another it goes on keeping.
LEMMA KeepsOn ==
  ASSUME EInv, [Next]_vars, NEW x \in Bundles, NEW y \in Bundles,
         \A j \in x.out : session[j].by # 0, Keeps(y, x)
  PROVE  Keeps(y, x)'
<1>1. \A j \in x.out : j \in Sessions
  BY DEF Bundles
<1>2. ASSUME NEW j \in x.out PROVE j \in y.out \/ SomeoneGone(y) \/ Stale(j)'
  BY <1>1, StaleGrows DEF Keeps
<1> QED BY <1>2 DEF Keeps, SomeoneGone

\* Whom a bundle rules out it goes on ruling out.
LEMMA OutOn ==
  ASSUME EInv, [Next]_vars, NEW b \in Bundles, NEW j \in Sessions, Out(b, j)
  PROVE  Out(b, j)'
<1>1. session[j].by # 0
  BY DEF Out, Bundles
<1>2. session'[j] = session[j] /\ (Stale(j) => Stale(j)')
  BY <1>1, StaleGrows
<1> QED BY <1>2 DEF Out, SomeoneGone

\* A later bundle of the line rules out what an earlier one does.
LEMMA OutFollows ==
  ASSUME NEW x \in Bundles, NEW y \in Bundles, NEW j \in Sessions, Out(x, j),
         session[j].by \in Nat,
         x.epoch < y.epoch \/ (NoNewer(x, y) /\ Keeps(y, x))
  PROVE  Out(y, j)
<1>1. x.epoch \in Nat /\ y.epoch \in Nat
  BY DEF Bundles
<1>2. CASE x.epoch < y.epoch
  BY <1>1, <1>2 DEF Out
<1>3. CASE NoNewer(x, y) /\ Keeps(y, x)
  BY <1>1, <1>3 DEF Out, NoNewer, Keeps
<1> QED BY <1>2, <1>3

LEMMA KnownTyped == ASSUME EInv PROVE Known \subseteq Bundles
BY FixedBundles DEF EInv, TypeOK, WorldTyped, ReaderTyped, Known

-----------------------------------------------------------------------------
(* The line: a bundle that comes to be known finds its place in it.        *)

FitsIn(c) ==
  /\ c \in Bundles
  /\ \A j \in c.out : session[j].by # 0
  /\ c.epoch >= 1 \/ c \in {NoBundle, Junk}
  /\ \A x \in Known : /\ NoNewer(x, c) => Keeps(c, x)
                      /\ NoNewer(c, x) => Keeps(x, c)

AtTheEnd(r, c) == \A x \in Known \cup {c} : x.epoch < r.epoch \/ NoNewer(x, r)

\* The line stays one when the bundle that comes fits in.
LEMMA LineOn ==
  ASSUME EInv, InLine, OutWasIn, [Next]_vars, NEW c, FitsIn(c),
         Known' \subseteq Known \cup {c}, AtTheEnd(root', c)
  PROVE  InLine'
<1>1. Known \subseteq Bundles /\ c \in Bundles
  BY KnownTyped DEF FitsIn
<1>2. ASSUME NEW x \in Known', NEW y \in Known', NoNewer(x, y) PROVE Keeps(y, x)'
  <2>1. x \in Known \cup {c} /\ y \in Known \cup {c}
    OBVIOUS
  <2>2. Keeps(y, x)
    <3>1. CASE x \in Known /\ y \in Known
      BY <1>2, <3>1 DEF InLine
    <3>2. CASE x = c /\ y = c
      BY <3>2 DEF Keeps
    <3>3. CASE x = c /\ y \in Known
      BY <1>2, <3>3 DEF FitsIn
    <3>4. CASE x \in Known /\ y = c
      BY <1>2, <3>4 DEF FitsIn
    <3> QED BY <2>1, <3>1, <3>2, <3>3, <3>4
  <2>3. \A j \in x.out : session[j].by # 0
    BY <2>1 DEF OutWasIn, FitsIn
  <2>4. x \in Bundles /\ y \in Bundles
    BY <1>1, <2>1
  <2> QED BY <2>2, <2>3, <2>4, KeepsOn
<1>3. \A x \in Known' : x.epoch < root'.epoch \/ NoNewer(x, root')
  BY DEF AtTheEnd
<1>4. \A x \in Known' : x.epoch >= 1 \/ x \in {NoBundle, Junk}
  BY DEF InLine, FitsIn
<1>5. (\A x, y \in Known : NoNewer(x, y) => Keeps(y, x))'
  BY <1>2 DEF NoNewer
<1>6. (\A x \in Known : x.epoch < root.epoch \/ NoNewer(x, root))'
  BY <1>3 DEF NoNewer
<1>7. (\A x \in Known : x.epoch >= 1 \/ x \in {NoBundle, Junk})'
  BY <1>4 DEF NoBundle, Junk
<1> QED BY <1>5, <1>6, <1>7 DEF InLine

\* The root's next bundle after a change is the last of the line.
LEMMA ChangeFits ==
  ASSUME EInv, InLine, NEW c \in Bundles,
         c.epoch = root.epoch, c.version = root.version + 1, root.out \subseteq c.out,
         \A j \in c.out : session[j].by # 0, SomeoneGone(root) => SomeoneGone(c)
  PROVE  FitsIn(c) /\ AtTheEnd(c, c)
<1>1. root \in Bundles /\ Known \subseteq Bundles /\ root.epoch >= 1
  BY KnownTyped DEF EInv, TypeOK, WorldTyped, WorldMarked
<1>2. root.epoch \in Nat /\ root.version \in Int
  BY <1>1 DEF Bundles
<1>3. ASSUME NEW x \in Known
      PROVE  /\ NoNewer(x, c) => Keeps(c, x)
             /\ ~ NoNewer(c, x)
             /\ x.epoch < c.epoch \/ NoNewer(x, c)
  <2>1. x.epoch \in Nat /\ x.version \in Int
    BY <1>1 DEF Bundles
  <2>2. x.epoch < root.epoch \/ (NoNewer(x, root) /\ Keeps(root, x))
    BY DEF InLine, Known
  <2>3. ~ NoNewer(c, x) /\ (x.epoch < c.epoch \/ NoNewer(x, c))
    BY <1>2, <2>1, <2>2 DEF NoNewer
  <2>4. NoNewer(x, c) => Keeps(root, x)
    BY <1>2, <2>1, <2>2 DEF NoNewer
  <2>5. Keeps(root, x) => Keeps(c, x)
    BY DEF Keeps
  <2> QED BY <2>3, <2>4, <2>5
<1>4. c.epoch >= 1 /\ NoNewer(c, c)
  BY <1>1 DEF NoNewer, Bundles
<1> QED BY <1>3, <1>4 DEF FitsIn, AtTheEnd

\* So is the first bundle of a root that has just been promoted.
LEMMA PromotedFits ==
  ASSUME EInv, InLine, NEW c \in Bundles, c.epoch = root.epoch + 1,
         \A j \in c.out : session[j].by # 0
  PROVE  FitsIn(c) /\ AtTheEnd(c, c)
<1>1. root \in Bundles /\ Known \subseteq Bundles /\ root.epoch >= 1
  BY KnownTyped DEF EInv, TypeOK, WorldTyped, WorldMarked
<1>2. ASSUME NEW x \in Known PROVE x.epoch < c.epoch
  <2>1. x.epoch \in Nat /\ root.epoch \in Nat
    BY <1>1 DEF Bundles
  <2>2. x.epoch < root.epoch \/ x.epoch = root.epoch
    BY DEF InLine, NoNewer
  <2> QED BY <2>1, <2>2
<1>3. \A x \in Known : ~ NoNewer(x, c) /\ ~ NoNewer(c, x)
  BY <1>1, <1>2 DEF NoNewer, Bundles
<1>4. c.epoch >= 1 /\ NoNewer(c, c)
  BY <1>1 DEF NoNewer, Bundles
<1> QED BY <1>2, <1>3, <1>4 DEF FitsIn, AtTheEnd

\* The bundle the root builds stands where the root's log does: what is pruned is stale.
LEMMA BuiltFits ==
  ASSUME EInv, InLine, OutWasIn
  PROVE  FitsIn(Built) /\ AtTheEnd(root, Built)
<1>1. root \in Bundles /\ Known \subseteq Bundles /\ root.epoch >= 1 /\ Built \in Bundles
  BY KnownTyped, BuiltTypes DEF EInv, TypeOK, WorldTyped, WorldMarked
<1>2. /\ Built.epoch = root.epoch /\ Built.version = root.version
      /\ Built.level = root.level
      /\ Built.out = {j \in root.out : session[j].exp + Leeway >= now}
  BY <1>1 DEF Built, Bundles
<1>3. \A j \in root.out : j \in Built.out \/ Stale(j)
  <2> SUFFICES ASSUME NEW j \in root.out PROVE j \in Built.out \/ Stale(j)
    OBVIOUS
  <2>1. session[j] \in Signed
    BY <1>1, SignedByItsRoot DEF OutWasIn, Known, Bundles, EInv, TypeOK, WorldTyped
  <2>2. session[j].exp + Leeway \in Nat /\ now \in Nat
    BY <2>1, TrustAssumptions DEF Signed, EInv, TypeOK, WorldTyped
  <2> QED BY <1>2, <2>2 DEF Stale
<1>4. ASSUME NEW x \in Known
      PROVE  /\ NoNewer(x, Built) => Keeps(Built, x)
             /\ NoNewer(Built, x) => Keeps(x, Built)
  <2>1. NoNewer(x, root) => Keeps(root, x)
    BY DEF InLine, Known
  <2>2. NoNewer(root, x) => Keeps(x, root)
    BY DEF InLine, Known
  <2>3. SomeoneGone(Built) <=> SomeoneGone(root)
    BY <1>2 DEF SomeoneGone
  <2>4. Keeps(root, x) => Keeps(Built, x)
    BY <1>3, <2>3 DEF Keeps
  <2>5. Keeps(x, root) => Keeps(x, Built)
    BY <1>2, <2>3 DEF Keeps
  <2> QED BY <1>2, <2>1, <2>2, <2>4, <2>5 DEF NoNewer
<1>5. NoNewer(Built, root)
  BY <1>1, <1>2 DEF NoNewer, Bundles
<1>6. \A j \in Built.out : session[j].by # 0
  BY <1>2 DEF OutWasIn, Known
<1>7. FitsIn(Built)
  BY <1>1, <1>2, <1>4, <1>6 DEF FitsIn
<1> QED BY <1>5, <1>7 DEF InLine, AtTheEnd

\* A damaged file says nothing of anybody.
LEMMA JunkFits ==
  ASSUME EInv, InLine
  PROVE  FitsIn(Junk) /\ AtTheEnd(root, Junk)
<1>1. Junk.epoch = 0 /\ Junk.out = {} /\ SomeoneGone(Junk) /\ SomeoneGone(NoBundle)
  BY DEF Junk, NoBundle, SomeoneGone, Machines
<1>2. root.epoch >= 1 /\ root.epoch \in Nat /\ Known \subseteq Bundles
  BY KnownTyped DEF EInv, WorldMarked, TypeOK, WorldTyped, Bundles
<1>3. NoBundle.out = {}
  BY DEF NoBundle
<1>4. ASSUME NEW x \in Known, x.epoch = 0 PROVE Keeps(x, Junk) /\ Keeps(Junk, x)
  <2>1. x \in {NoBundle, Junk}
    BY <1>4 DEF InLine
  <2> QED BY <1>1, <1>3, <2>1 DEF Keeps
<1>5. FitsIn(Junk)
  BY <1>1, <1>4, FixedBundles DEF FitsIn, NoNewer
<1> QED BY <1>1, <1>2, <1>5 DEF InLine, AtTheEnd

\* A bundle of the line has its place in it.
LEMMA KnownFits ==
  ASSUME EInv, InLine, OutWasIn, NEW c \in Known
  PROVE  FitsIn(c) /\ AtTheEnd(root, c)
BY KnownTyped DEF InLine, OutWasIn, FitsIn, AtTheEnd

-----------------------------------------------------------------------------
(* Each step leaves the bundles in their line.                             *)

\* Where the root's log stands still, the file's next content has to fit in.
LEMMA FileFits ==
  ASSUME LineInv, [Next]_vars, NEW c, FitsIn(c) /\ AtTheEnd(root, c), root' = root,
         Known' \subseteq Known \cup {c}
  PROVE  InLine'
BY LineOn DEF LineInv

\* What is known already needs no new place.
LEMMA NothingNew ==
  ASSUME LineInv, [Next]_vars, root' = root, Known' \subseteq Known
  PROVE  InLine'
<1>1. First \in Known /\ Known' \subseteq Known \cup {First}
  BY DEF Known
<1> QED BY <1>1, KnownFits, FileFits DEF LineInv

\* A change of the log or a new epoch puts the root's next bundle at the end.
LEMMA RootFits ==
  ASSUME LineInv, [Next]_vars, NEW c, FitsIn(c) /\ AtTheEnd(c, c), root' = c,
         held' = held, file' = file
  PROVE  InLine'
<1>1. Known' \subseteq Known \cup {c}
  BY DEF Known
<1> QED BY <1>1, LineOn DEF LineInv

\* A driver's step reads the file or leaves what it holds.
LEMMA DriverHolds ==
  ASSUME DriverNext
  PROVE  UNCHANGED <<root, file, copy>> /\ held' \in {held, file.says}
<1>1. UNCHANGED <<root, file, copy>>
  BY TwoSides DEF DriverNext, world
<1>2. ASSUME NEW w \in {"it", "others"}, GetRead(w) PROVE held' \in {held, file.says}
  BY <1>2 DEF GetRead
<1>3. ASSUME NEW w \in {"it", "others"}, GetStat(w) PROVE held' = held
  BY <1>3 DEF GetStat
<1>4. Present \/ GetRecent \/ Check => held' = held
  BY DEF Present, GetRecent, Check, reader
<1> QED BY <1>1, <1>2, <1>3, <1>4 DEF DriverNext, Looks, Reads

\* A change of the root's log keeps what the log said and adds to it.
LEMMA ChangeInLine ==
  ASSUME LineInv, [Next]_vars, NEW r \in Bundles, Changes(r), r.epoch = root.epoch,
         root.out \subseteq r.out, \A j \in r.out : session[j].by # 0,
         SomeoneGone(root) => SomeoneGone(r), UNCHANGED held
  PROVE  InLine'
<1>1. root.version \in Int
  BY DEF LineInv, EInv, TypeOK, WorldTyped, Bundles
<1>2. PICK c : c = [r EXCEPT !.version = root.version + 1]
  OBVIOUS
<1>3. /\ c \in Bundles /\ c.epoch = r.epoch /\ c.version = root.version + 1
      /\ c.out = r.out /\ c.level = r.level
  BY <1>1, <1>2 DEF Bundles
<1>4. SomeoneGone(r) => SomeoneGone(c)
  BY <1>3 DEF SomeoneGone
<1>5. FitsIn(c) /\ AtTheEnd(c, c)
  BY <1>3, <1>4, ChangeFits DEF LineInv
<1> QED BY <1>2, <1>5, RootFits DEF Changes

\* The line is kept by every step.
LEMMA LineStep == ASSUME LineInv, [Next]_vars PROVE InLine'
<1> USE DEF LineInv
<1>1. root \in Bundles /\ copy \in Bundles /\ file.says \in Bundles
  BY DEF EInv, TypeOK, WorldTyped
<1>2. \A j \in root.out : session[j].by # 0
  BY DEF OutWasIn, Known
<1>3. WorldNext => UNCHANGED held
  BY TwoSides DEF reader
<1>4. CASE Tick \/ StandbyCopies \/ \E j \in Sessions : SignIn(j)
  <2>1. UNCHANGED <<root, file>> /\ WorldNext
    BY <1>4 DEF Tick, StandbyCopies, SignIn, WorldNext
  <2>2. Known' \subseteq Known
    BY <1>3, <2>1 DEF Known
  <2> QED BY <2>1, <2>2, NothingNew
<1>5. CASE RootUpgrades
  <2>1. PICK r : r = [root EXCEPT !.marks = [since |-> now, epoch |-> root.epoch]]
    OBVIOUS
  <2>2. /\ r \in Bundles /\ r.epoch = root.epoch /\ r.out = root.out
        /\ r.level = root.level
    BY <1>1, <2>1 DEF EInv, TypeOK, WorldTyped, Bundles
  <2>3. Changes(r) /\ UNCHANGED held
    BY <1>3, <1>5, <2>1 DEF RootUpgrades, WorldNext
  <2>4. SomeoneGone(root) => SomeoneGone(r)
    BY <2>2 DEF SomeoneGone
  <2> QED BY <1>2, <2>2, <2>3, <2>4, ChangeInLine
<1>6. CASE MachineLeaves
  <2>1. PICK r : r = [root EXCEPT !.level[There] = "gone"]
    OBVIOUS
  <2>2. /\ r \in Bundles /\ r.epoch = root.epoch /\ r.out = root.out
        /\ r.level[There] = "gone"
    BY <1>1, <2>1 DEF Bundles, Levels, Machines
  <2>3. Changes(r) /\ UNCHANGED held
    BY <1>3, <1>6, <2>1 DEF MachineLeaves, WorldNext
  <2>4. SomeoneGone(r)
    BY <2>2 DEF SomeoneGone, Machines
  <2> QED BY <1>2, <2>2, <2>3, <2>4, ChangeInLine
<1>7. ASSUME NEW j \in Sessions, SignOut(j) PROVE InLine'
  <2>1. PICK r : r = [root EXCEPT !.out = root.out \cup {j}]
    OBVIOUS
  <2>2. /\ r \in Bundles /\ r.epoch = root.epoch /\ r.out = root.out \cup {j}
        /\ r.level = root.level
    BY <1>1, <2>1 DEF Bundles
  <2>3. Changes(r) /\ UNCHANGED held /\ session[j].by # 0
    BY <1>3, <1>7, <2>1 DEF SignOut, WorldNext
  <2>4. SomeoneGone(root) => SomeoneGone(r)
    BY <2>2 DEF SomeoneGone
  <2> QED BY <1>2, <2>2, <2>3, <2>4, ChangeInLine
<1>8. CASE Promote
  <2>1. PICK c : c = [copy EXCEPT !.epoch = root.epoch + 1]
    OBVIOUS
  <2>2. c \in Bundles /\ c.epoch = root.epoch + 1 /\ c.out = copy.out
    BY <1>1, <2>1 DEF Bundles
  <2>3. \A j \in c.out : session[j].by # 0
    BY <2>2 DEF OutWasIn
  <2>4. root' = c /\ UNCHANGED <<file, held>>
    BY <1>3, <1>8, <2>1 DEF Promote, WorldNext
  <2> QED BY <2>2, <2>3, <2>4, PromotedFits, RootFits
<1>9. CASE AgentWrites
  <2>1. PICK c : c = Built
    OBVIOUS
  <2>2. root' = root /\ file'.says = c
    BY <1>9, <2>1 DEF AgentWrites, Written
  <2>3. Known' \subseteq Known \cup {c}
    BY <1>3, <1>9, <2>2 DEF Known, WorldNext
  <2> QED BY <2>1, <2>2, <2>3, BuiltFits, FileFits
<1>10. CASE FileMeddledWith
  <2>1. PICK c \in {First, Junk} : file'.says = c
    BY <1>10 DEF FileMeddledWith, Written
  <2>2. root' = root /\ Known' \subseteq Known \cup {c}
    BY <1>3, <1>10, <2>1 DEF Known, FileMeddledWith, WorldNext
  <2>3. FitsIn(c) /\ AtTheEnd(root, c)
    BY <2>1, JunkFits, KnownFits DEF Known
  <2> QED BY <2>2, <2>3, FileFits
<1>11. CASE DriverNext
  <2>1. root' = root /\ Known' \subseteq Known
    BY <1>11, DriverHolds DEF Known
  <2> QED BY <2>1, NothingNew
<1>12. CASE UNCHANGED vars
  <2>1. root' = root /\ Known' \subseteq Known
    BY <1>12 DEF vars, world, reader, Known
  <2> QED BY <2>1, NothingNew
<1> QED
  BY <1>4, <1>5, <1>6, <1>7, <1>8, <1>9, <1>10, <1>11, <1>12
  DEF Next, WorldNext, DriverNext

-----------------------------------------------------------------------------
(* Who is out, was in.                                                     *)

AllSigned(b) == b \in Bundles /\ \A j \in b.out : session[j].by # 0

\* A bundle that comes to be names sessions that were signed.
LEMMA ComesSigned ==
  ASSUME LineInv, [Next]_vars
  PROVE  \E c : AllSigned(c) /\ Known' \cup {copy'} \subseteq Known \cup {copy, c}
<1> USE DEF LineInv, AllSigned
<1>1. root \in Bundles /\ copy \in Bundles /\ file.says \in Bundles
  BY DEF EInv, TypeOK, WorldTyped
<1>2. AllSigned(root) /\ AllSigned(copy) /\ AllSigned(First)
  BY <1>1, FixedBundles DEF OutWasIn, Known
<1>3. WorldNext => UNCHANGED held
  BY TwoSides DEF reader
<1>4. CASE UNCHANGED <<root, file>> /\ copy' \in {copy, root} /\ held' \in {held, file.says}
  BY <1>2, <1>4 DEF Known
<1>5. Tick \/ StandbyCopies \/ (\E j \in Sessions : SignIn(j))
        => UNCHANGED <<root, file>> /\ copy' \in {copy, root} /\ held' \in {held, file.says}
  BY <1>3 DEF WorldNext, Tick, StandbyCopies, SignIn
<1>6. DriverNext \/ UNCHANGED vars
        => UNCHANGED <<root, file>> /\ copy' \in {copy, root} /\ held' \in {held, file.says}
  BY DriverHolds DEF vars, world, reader
<1>7. ASSUME AllSigned(root'), UNCHANGED <<copy, file, held>>
      PROVE  \E c : AllSigned(c) /\ Known' \cup {copy'} \subseteq Known \cup {copy, c}
  BY <1>7 DEF Known
<1>8. CASE RootUpgrades \/ MachineLeaves \/ Promote \/ \E j \in Sessions : SignOut(j)
  <2>1. root' \in Bundles
    BY NextTypes DEF EInv, TypeOK, WorldTyped
  <2>2. UNCHANGED <<copy, file, held>>
    BY <1>3, <1>8
    DEF WorldNext, RootUpgrades, MachineLeaves, Promote, SignOut, Changes
  <2>3. \A j \in root'.out : session[j].by # 0
    <3>1. CASE RootUpgrades \/ MachineLeaves
      BY <1>1, <1>2, <3>1 DEF RootUpgrades, MachineLeaves, Changes, Bundles
    <3>2. CASE Promote
      BY <1>1, <1>2, <3>2 DEF Promote, Bundles
    <3>3. ASSUME NEW j \in Sessions, SignOut(j) PROVE \A k \in root'.out : session[k].by # 0
      <4>1. root'.out = root.out \cup {j}
        BY <1>1, <3>3 DEF SignOut, Changes, Bundles
      <4> QED BY <1>2, <3>3, <4>1 DEF SignOut
    <3> QED BY <1>8, <3>1, <3>2, <3>3
  <2> QED BY <1>7, <2>1, <2>2, <2>3
<1>9. ASSUME AllSigned(file'.says), UNCHANGED <<root, copy, held>>
      PROVE  \E c : AllSigned(c) /\ Known' \cup {copy'} \subseteq Known \cup {copy, c}
  BY <1>9 DEF Known
<1>10. CASE AgentWrites \/ FileMeddledWith
  <2>1. file'.says \in {Built, First, Junk}
    BY <1>10 DEF AgentWrites, FileMeddledWith, Written
  <2>2. UNCHANGED <<root, copy, held>>
    BY <1>3, <1>10 DEF WorldNext, AgentWrites, FileMeddledWith
  <2>3. AllSigned(Built)
    BY BuiltFits DEF FitsIn
  <2>4. AllSigned(Junk)
    BY FixedBundles DEF Junk, NoBundle
  <2> QED BY <1>2, <1>9, <2>1, <2>2, <2>3, <2>4
<1> QED BY <1>4, <1>5, <1>6, <1>8, <1>10 DEF Next, WorldNext, DriverNext

\* No step names anybody whom no root has signed in.
LEMMA SignedStep == ASSUME LineInv, [Next]_vars PROVE OutWasIn'
<1>1. PICK c : AllSigned(c) /\ Known' \cup {copy'} \subseteq Known \cup {copy, c}
  BY ComesSigned
<1>2. ASSUME NEW x \in Known' \cup {copy'}, NEW j \in x.out PROVE session'[j].by # 0
  <2>1. session[j].by # 0
    BY <1>1, <1>2 DEF LineInv, OutWasIn, AllSigned
  <2>2. x \in Bundles
    BY NextTypes, FixedBundles
    DEF LineInv, EInv, TypeOK, WorldTyped, ReaderTyped, Known
  <2>3. j \in Sessions
    BY <1>2, <2>2 DEF Bundles
  <2> QED BY <2>1, <2>3, StaleGrows DEF LineInv
<1>3. ASSUME NEW j \in Sessions
      PROVE  session'[j].jti = j /\ (session'[j].by # 0 => session'[j].aud = Machines)
  <2>1. CASE session[j].by # 0
    BY <2>1, StaleGrows DEF LineInv, OutWasIn
  <2>2. CASE session[j].by = 0
    <3>1. ASSUME NEW k \in Sessions, SignIn(k)
          PROVE  session'[j].jti = j /\ (session'[j].by # 0 => session'[j].aud = Machines)
      <4>1. session'[j] = session[j] \/ (k = j /\ session'[j].jti = j
                                         /\ session'[j].aud = {Here, There})
        BY <3>1 DEF SignIn, LineInv, EInv, TypeOK, WorldTyped
      <4> QED BY <4>1, <2>2 DEF LineInv, OutWasIn, Machines
    <3>2. UNCHANGED session \/ \E k \in Sessions : SignIn(k)
      BY TwoSides
      DEF Next, WorldNext, Tick, RootUpgrades, StandbyCopies, Promote, MachineLeaves,
          SignOut, Changes, AgentWrites, FileMeddledWith, vars, world
    <3> QED BY <2>2, <3>1, <3>2 DEF LineInv, OutWasIn
  <2> QED BY <2>1, <2>2
<1>4. (\A x \in Known \cup {copy} : \A j \in x.out : session[j].by # 0)'
  BY <1>2
<1> QED BY <1>3, <1>4 DEF OutWasIn

-----------------------------------------------------------------------------
(* Nothing that was ruled out comes back.                                  *)

\* A bundle that is read rules out what it says, and what the one before it did.
LEMMA ReadRulesOut ==
  ASSUME LineInv, MayReplace(file.says), NEW j \in dead \cup RuledOut(file.says)
  PROVE  Out(file.says, j)
<1>1. /\ held \in Bundles /\ file.says \in Bundles /\ dead \subseteq Sessions
      /\ session \in [Sessions -> Signed \cup Unused]
  BY DEF LineInv, EInv, TypeOK, WorldTyped, ReaderTyped
<1>2. j \in Sessions
  BY <1>1 DEF RuledOut
<1>3. CASE j \in dead
  <2>1. Out(held, j) /\ held.epoch >= 1
    BY <1>1, <1>3 DEF LineInv, DeadStayOut, Out, Bundles
  <2>2. held # NoBundle
    BY <2>1 DEF NoBundle
  <2>3. held.epoch < file.says.epoch \/ NoNewer(held, file.says)
    BY <1>1, <2>2 DEF MayReplace, NoNewer, Bundles
  <2>4. NoNewer(held, file.says) => Keeps(file.says, held)
    BY DEF LineInv, InLine, Known
  <2>5. session[j].by \in Nat
    BY <2>1 DEF Out
  <2> QED BY <1>1, <1>2, <2>1, <2>3, <2>4, <2>5, OutFollows
<1>4. CASE j \in RuledOut(file.says)
  <2>1. session[j].by \in 1 .. file.says.epoch /\ ~ Rules(file.says, session[j])
    BY <1>4 DEF RuledOut
  <2>2. session[j].jti = j
    BY <1>2 DEF LineInv, OutWasIn
  <2>3. j \in file.says.out \/ SomeoneGone(file.says)
    BY <2>1, <2>2 DEF Rules, SomeoneGone
  <2> QED BY <2>1, <2>3 DEF Out
<1> QED BY <1>3, <1>4

\* The driver's bundle keeps ruling out whoever was ruled out before.
LEMMA DeadStep ==
  ASSUME LineInv, [Next]_vars, NEW j \in dead' PROVE Out(held', j) /\ Out(held, j)'
<1>1. held' \in Bundles /\ j \in Sessions
  BY NextTypes DEF LineInv, EInv, TypeOK, ReaderTyped
<1>2. Out(held', j)
  <2>1. CASE UNCHANGED <<held, dead>>
    BY <2>1 DEF LineInv, DeadStayOut
  <2>2. ASSUME NEW w \in {"it", "others"}, GetRead(w), ~ UNCHANGED <<held, dead>>
        PROVE  Out(held', j)
    <3>1. MayReplace(file.says) /\ held' = file.says /\ dead' = dead \cup RuledOut(file.says)
      BY <2>2 DEF GetRead
    <3> QED BY <3>1, ReadRulesOut
  <2>3. UNCHANGED <<held, dead>> \/ \E w \in {"it", "others"} : GetRead(w)
    BY TwoSides
    DEF Next, Present, GetRecent, Looks, GetStat, Reads, Check, vars, reader
  <2> QED BY <2>1, <2>2, <2>3
<1>3. PICK h \in Bundles : h = held'
  BY <1>1
<1>4. Out(h, j)'
  BY <1>1, <1>2, <1>3, OutOn DEF LineInv
<1> QED BY <1>2, <1>3, <1>4 DEF Out, SomeoneGone, Stale

\* What a request asks for is decided once: with the bundle the driver holds then.
LEMMA CallSteps ==
  ASSUME TypeOK, [Next]_vars
  PROVE  \/ call' = call
         \/ Present
         \/ call.at = "asking" /\ Given(held')
         \/ Check
<1>1. GetRecent => call.at = "asking" /\ Given(held')
  BY DEF GetRecent, reader
<1>2. ASSUME NEW w \in {"it", "others"}, GetStat(w)
      PROVE  call' = call \/ (call.at = "asking" /\ Given(held'))
  BY <1>2 DEF GetStat
<1>3. ASSUME NEW w \in {"it", "others"}, GetRead(w)
      PROVE  call' = call \/ (call.at = "asking" /\ Given(held'))
  BY <1>3 DEF GetRead, TypeOK, CallTyped
<1>4. WorldNext \/ UNCHANGED vars => call' = call
  BY TwoSides DEF vars
<1> QED BY <1>1, <1>2, <1>3, <1>4 DEF Next, Looks, Reads

\* A request that was barred when it came stays so, whatever bundle it is given.
LEMMA BarredStep == ASSUME LineInv, [Next]_vars PROVE BarredIsOut'
<1> SUFFICES ASSUME "revoked" \in call'.barred PROVE BarredIsOut'
  BY DEF BarredIsOut
<1>1. /\ session \in [Sessions -> Signed \cup Unused]
      /\ \A j \in Sessions : session[j].jti = j
  BY DEF LineInv, EInv, TypeOK, WorldTyped, OutWasIn
<1>2. dead \subseteq dead'
  BY TwoSides
  DEF Next, Present, GetRecent, Looks, GetStat, Reads, GetRead, Check, vars, reader
<1>3. ASSUME call.at \in {"asking", "checking"}, "revoked" \in call.barred
      PROVE  call.token.jti \in Sessions /\ call.token = session'[call.token.jti]
  <2>1. call.token \in Signed /\ call.token = session[call.token.jti]
    BY <1>3 DEF LineInv, EInv, TypeOK, CallTyped, BarredIsOut
  <2>2. call.token.jti \in Sessions /\ session[call.token.jti].by # 0
    BY <2>1 DEF Signed
  <2>3. session'[call.token.jti] = session[call.token.jti]
    BY <2>2, StaleGrows DEF LineInv
  <2> QED BY <2>1, <2>2, <2>3
<1>4. CASE call' = call
  <2>1. ASSUME call.at = "checking" PROVE Out(call.bundle, call.token.jti)'
    <3>1. call.bundle \in Bundles /\ Out(call.bundle, call.token.jti)
      BY <1>4, <2>1 DEF LineInv, EInv, TypeOK, CallTyped, BarredIsOut
    <3>2. PICK b \in Bundles, j \in Sessions : b = call.bundle /\ j = call.token.jti
      BY <1>3, <1>4, <2>1, <3>1
    <3>3. Out(b, j)'
      BY <3>1, <3>2, OutOn DEF LineInv
    <3> QED BY <1>4, <3>2, <3>3 DEF Out, SomeoneGone, Stale
  <2>2. call.at = "asking" => call.token.jti \in dead'
    BY <1>2, <1>4 DEF LineInv, BarredIsOut
  <2> QED BY <1>3, <1>4, <2>1, <2>2 DEF BarredIsOut
<1>5. CASE call.at = "asking" /\ Given(held')
  <2>1. /\ call'.at = "checking" /\ call'.bundle = held'
        /\ call'.token = call.token /\ call'.barred = call.barred
    BY <1>5 DEF LineInv, EInv, TypeOK, CallTyped, Given
  <2>2. call.token.jti \in dead
    BY <1>5, <2>1 DEF LineInv, BarredIsOut
  <2>3. PICK j \in dead' : j = call.token.jti
    BY <1>2, <2>2
  <2>4. Out(held, j)'
    BY DeadStep
  <2>5. Out(call.bundle, call.token.jti)'
    BY <2>1, <2>3, <2>4 DEF Out, SomeoneGone, Stale
  <2> QED BY <1>3, <1>5, <2>1, <2>5 DEF BarredIsOut
<1>6. CASE Present
  <2>1. PICK j \in Sessions : call' = [at |-> "asking", token |-> session[j],
                                       bundle |-> NoBundle, barred |-> BarredNow(j)]
    BY <1>6 DEF Present
  <2>2. j \in dead
    BY <2>1 DEF BarredNow
  <2>3. UNCHANGED <<session, dead>>
    BY <1>6 DEF Present, world
  <2> QED BY <1>1, <2>1, <2>2, <2>3 DEF BarredIsOut
<1>7. CASE Check
  BY <1>7 DEF Check, Idle, BarredIsOut
<1> QED BY <1>4, <1>5, <1>6, <1>7, CallSteps DEF LineInv, EInv

\* The strengthened invariant of what is ruled out.
THEOREM LineInvariance == Safety => []LineInv
<1>1. Init => LineInv
  <2> SUFFICES ASSUME Init PROVE LineInv
    OBVIOUS
  <2>1. Known = {First, NoBundle, Junk}
    BY DEF Init, Known
  <2>2. /\ First.epoch = 1 /\ NoBundle.epoch = 0 /\ Junk.epoch = 0
        /\ First.out = {} /\ NoBundle.out = {} /\ Junk.out = {}
        /\ First.version = 1
    BY DEF First, NoBundle, Junk
  <2>3. SomeoneGone(NoBundle) /\ SomeoneGone(Junk) /\ ~ SomeoneGone(First)
    BY DEF SomeoneGone, First, NoBundle, Junk, Machines
  <2>4. InLine
    <3>1. \A x, y \in Known : NoNewer(x, y) => Keeps(y, x)
      BY <2>1, <2>2, <2>3 DEF NoNewer, Keeps
    <3>2. root = First
      BY DEF Init
    <3> QED BY <2>1, <2>2, <3>1, <3>2 DEF InLine, NoNewer
  <2>5. OutWasIn
    BY <2>1, <2>2 DEF Init, OutWasIn, Unsigned
  <2>6. DeadStayOut /\ BarredIsOut
    BY DEF Init, DeadStayOut, BarredIsOut, Idle
  <2> QED BY <2>4, <2>5, <2>6, EpochInit DEF LineInv
<1>2. LineInv /\ [Next]_vars => LineInv'
  <2> SUFFICES ASSUME LineInv, [Next]_vars PROVE LineInv'
    OBVIOUS
  <2>1. EInv'
    BY EpochStep DEF LineInv
  <2>2. (\A j \in dead : Out(held, j))'
    BY DeadStep DEF Out, SomeoneGone, Stale
  <2>3. DeadStayOut'
    BY <2>2 DEF DeadStayOut
  <2> QED BY <2>1, <2>3, LineStep, SignedStep, BarredStep DEF LineInv
<1> QED BY <1>1, <1>2, PTL DEF Safety

\* The check refuses whomever its bundle rules out: the sign-out is in it, a machine
\* of the session is gone from it, its epoch is past, or the token is stale.
LEMMA OutRefused ==
  ASSUME LineInv, NEW b \in Bundles, Marked(b), NEW j \in Sessions, Out(b, j),
         session[j] \in Signed, Dated(session[j])
  PROVE  ~ Authorized(session[j], b)
<1>1. /\ session[j].jti = j /\ session[j].aud = Machines
      /\ session[j].typ = "session" /\ session[j].signer = Control
  BY DEF LineInv, OutWasIn, Signed
<1>2. CASE session[j].by < b.epoch
  BY <1>2, OlderRefused
<1>3. CASE j \in b.out \/ SomeoneGone(b)
  <2>1. ~ Rules(b, session[j])
    BY <1>1, <1>3 DEF Rules, SomeoneGone
  <2> QED BY <2>1 DEF Authorized, Verified
<1>4. CASE Stale(j)
  <2>1. session[j].exp + Leeway \in Int /\ now \in Int
    BY TrustAssumptions DEF Signed, LineInv, EInv, TypeOK, WorldTyped
  <2>2. ~ (session[j].exp + Leeway > now)
    BY <1>4, <2>1 DEF Stale
  <2> QED BY <2>2 DEF Authorized, Verified
<1> QED BY <1>2, <1>3, <1>4 DEF Out

\* A session that was ruled out under the driver is never admitted again, for any
\* number of sign-outs, prunings, promotions and older files put back, whatever
\* its threads do between the look at the file and the check (tokens.py:42-46,
\* 311-316, 407-413, 755-766).
THEOREM RuledOutSilent == Safety => RuledOutStaysOut
<1>1. LineInv /\ [Next]_vars => (Admits => "revoked" \notin call.barred)
  <2> SUFFICES ASSUME LineInv, [Next]_vars, Admits, "revoked" \in call.barred
               PROVE  FALSE
    OBVIOUS
  <2>1. Authorized(call.token, call.bundle)
    BY AdmitsByCheck DEF LineInv, EInv
  <2>2. /\ call.token \in Signed /\ call.bundle \in Bundles
        /\ Dated(call.token) /\ Marked(call.bundle)
    BY DEF Admits, LineInv, EInv, TypeOK, CallTyped, CallAhead
  <2>3. call.token = session[call.token.jti] /\ Out(call.bundle, call.token.jti)
    BY DEF Admits, LineInv, BarredIsOut
  <2>4. call.token.jti \in Sessions
    BY <2>2 DEF Signed
  <2> QED BY <2>1, <2>2, <2>3, <2>4, OutRefused
<1> QED BY <1>1, LineInvariance, PTL DEF Safety, RuledOutStaysOut
=============================================================================
