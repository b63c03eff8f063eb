-------------------------- MODULE ManagementProofs --------------------------
(***************************************************************************)
(* What is proved of the parts of Management: each part's inductive        *)
(* invariant, and from it the properties of the module Management.         *)
(***************************************************************************)
EXTENDS Management, FiniteSetTheorems, TLAPS

-----------------------------------------------------------------------------
(* The parts count with the same Cardinality, each through its instance.    *)

\* An instance's Cardinality and the library's are one operator.
LEMMA SameCount ==
  \A X : /\ C!Cardinality(X) = Cardinality(X) /\ T!Cardinality(X) = Cardinality(X)
         /\ S!Cardinality(X) = Cardinality(X) /\ I!Cardinality(X) = Cardinality(X)
BY DEF C!Cardinality, T!Cardinality, S!Cardinality, I!Cardinality, Cardinality

-----------------------------------------------------------------------------
(* The configuration centre.                                               *)

Rows == [content : Contents, version : Nat \ {0}]
Releases == [content : Contents, version : Nat \ {0}, type : C!Types, status : C!Status]
GrayRules == [rule : GrayRuleIds, enabled : BOOLEAN]
Stages == {"idle", "save", "increment", "log", "drop", "create", "find", "rule", "clean",
           "look", "take", "held", "done"}

Carries(x) ==
  /\ x.pc \in Stages
  /\ x.pc = "save" => x.row \in Rows /\ x.rules \subseteq GrayRules
  /\ x.pc = "create" => x.release \in Releases
  /\ x.pc = "rule" => x.rule \in GrayRules
  /\ x.pc \in {"clean", "look"} => x \in [pc : {"clean", "look"}, session : EditSessions, expires : Nat]
  /\ x.pc = "take" => x \in [pc : {"take"}, session : EditSessions, expires : Nat, found : {x.found}]

Granted == {r \in Handlers : configRequest[r].pc \in {"held", "done"}}

ConfigInv ==
  /\ config \in {C!Nothing} \union Rows
  /\ releases \in Seq(Releases)
  /\ rules \subseteq GrayRules
  /\ DOMAIN configRequest = Handlers /\ \A r \in Handlers : Carries(configRequest[r])
  /\ pushes \subseteq DOMAIN releases
  /\ \A l \in lock : l.session \in EditSessions /\ l.expires \in Nat
  /\ configNow \in 0 .. MaxConfigTime
  /\ grants \in Nat /\ grants <= Cardinality(Granted)

\* Of finitely many requests, finitely many were granted the lock.
LEMMA GrantedFacts ==
  ASSUME ConfigInv
  PROVE  /\ IsFiniteSet(Granted) /\ IsFiniteSet(Handlers)
         /\ Cardinality(Granted) \in Nat /\ Cardinality(Handlers) \in Nat
         /\ Cardinality(Granted) <= Cardinality(Handlers)
<1>1. Granted \subseteq Handlers /\ IsFiniteSet(Handlers)
  BY ConfigAssumption DEF Granted
<1> QED BY <1>1, FS_Subset, FS_CardinalityType

\* At the start there is no configuration, and no request has begun.
LEMMA ConfigInit == C!Init => ConfigInv
<1> SUFFICES ASSUME C!Init PROVE ConfigInv
  OBVIOUS
<1>1. \A r \in Handlers : Carries(configRequest[r])
  BY DEF C!Init, Carries, C!Idle, Stages
<1>2. <<>> \in Seq(Releases)
  OBVIOUS
<1>3. Granted = {}
  BY DEF C!Init, Granted, C!Idle
<1>4. grants <= Cardinality(Granted)
  BY <1>3, FS_EmptySet DEF C!Init
<1> QED BY <1>1, <1>2, <1>4, ConfigAssumption DEF C!Init, ConfigInv

\* A request that goes on: others keep what they carry, and the granted do not shrink.
LEMMA GotoStep ==
  ASSUME ConfigInv, NEW r \in Handlers, NEW next, C!Goto(r, next), Carries(next),
         configRequest[r].pc \notin {"held", "done"} \/ next.pc \in {"held", "done"}
  PROVE  /\ DOMAIN configRequest' = Handlers /\ \A q \in Handlers : Carries(configRequest'[q])
         /\ Cardinality(Granted') \in Nat /\ Cardinality(Granted) <= Cardinality(Granted')
         /\ configRequest[r].pc \notin {"held", "done"} /\ next.pc \in {"held", "done"}
              => Cardinality(Granted) + 1 <= Cardinality(Granted')
<1>1. DOMAIN configRequest' = Handlers /\ \A q \in Handlers : Carries(configRequest'[q])
  BY DEF C!Goto, ConfigInv
<1>2. Granted \subseteq Granted' /\ Granted' \subseteq Handlers
  BY DEF C!Goto, ConfigInv, Granted
<1>3. /\ IsFiniteSet(Granted') /\ Cardinality(Granted') \in Nat
      /\ Cardinality(Granted) <= Cardinality(Granted')
  <2>1. IsFiniteSet(Granted')
    BY <1>2, FS_Subset, ConfigAssumption
  <2> QED BY <2>1, <1>2, FS_Subset, FS_CardinalityType
<1>4. ASSUME configRequest[r].pc \notin {"held", "done"}, next.pc \in {"held", "done"}
      PROVE  Cardinality(Granted) + 1 <= Cardinality(Granted')
  <2>1. r \notin Granted /\ r \in Granted'
    BY <1>4 DEF Granted, C!Goto, ConfigInv
  <2>2. IsFiniteSet(Granted \union {r}) /\ Cardinality(Granted \union {r}) = Cardinality(Granted) + 1
    BY <2>1, GrantedFacts, FS_AddElement
  <2>3. Granted \union {r} \subseteq Granted'
    BY <1>2, <2>1
  <2> QED BY <1>3, <2>2, <2>3, FS_Subset
<1> QED BY <1>1, <1>3, <1>4

\* Finish
LEMMA FinishStep ==
  ASSUME ConfigInv, NEW r \in Handlers, C!Finish(r)
  PROVE  /\ DOMAIN configRequest' = Handlers /\ \A q \in Handlers : Carries(configRequest'[q])
         /\ Cardinality(Granted') \in Nat /\ Cardinality(Granted) <= Cardinality(Granted')
<1>1. Carries([pc |-> "done"])
  BY DEF Carries, Stages
<1> QED BY <1>1, GotoStep, GrantedFacts DEF C!Finish

\* GetConfig, with what the handler goes on with.
LEMMA ReadsStep ==
  ASSUME ConfigInv, NEW r \in Handlers, NEW op, NEW next, C!Reads(r, op, next),
         config # C!Nothing => Carries(next)
  PROVE  ConfigInv'
<1>1. C!At(r, "idle") /\ UNCHANGED <<config, releases, rules, pushes, lock, configNow, grants>>
  BY DEF C!Reads, C!OthersLock
<1>2. C!Finish(r) \/ (C!Goto(r, next) /\ Carries(next))
  BY DEF C!Reads
<1>3. /\ DOMAIN configRequest' = Handlers /\ \A q \in Handlers : Carries(configRequest'[q])
      /\ Cardinality(Granted') \in Nat /\ Cardinality(Granted) <= Cardinality(Granted')
  BY <1>1, <1>2, FinishStep, GotoStep DEF C!At
<1>4. Cardinality(Granted) \in Nat
  BY GrantedFacts
<1> QED BY <1>1, <1>3, <1>4 DEF ConfigInv

\* A handler reads the configuration (UpdateConfig, DeleteConfig, ReleaseConfig, RollbackConfig).
LEMMA ReadersStep ==
  ASSUME ConfigInv, NEW r \in Handlers,
         \/ \E content \in Contents : C!UpdateConfig(r, content)
         \/ C!DeleteConfig(r) \/ C!ReleaseConfig(r)
         \/ \E version \in 1 .. 2 : C!RollbackConfig(r, version)
  PROVE  ConfigInv'
<1>1. config # C!Nothing => config.content \in Contents /\ config.version \in Nat \ {0}
  BY DEF ConfigInv, Rows
<1>2. ASSUME NEW content \in Contents, C!UpdateConfig(r, content) PROVE ConfigInv'
  <2>1. config # C!Nothing => Carries([pc |-> "save", row |-> C!Row(content, config.version),
                                     rels |-> releases, rules |-> rules])
    BY <1>1 DEF Carries, Stages, C!Row, Rows, ConfigInv
  <2> QED BY <1>2, <2>1, ReadsStep DEF C!UpdateConfig
<1>3. ASSUME C!DeleteConfig(r) PROVE ConfigInv'
  <2>1. Carries([pc |-> "drop", content |-> config.content])
    BY DEF Carries, Stages
  <2> QED BY <1>3, <2>1, ReadsStep DEF C!DeleteConfig
<1>4. ASSUME C!ReleaseConfig(r) PROVE ConfigInv'
  <2>1. config # C!Nothing =>
          Carries([pc |-> "create", release |-> C!Release(config.content, config.version, "full"),
                   entry |-> C!Entry("release", C!None, config.content)])
    BY <1>1 DEF Carries, Stages, C!Release, Releases, C!Types, C!Status
  <2> QED BY <1>4, <2>1, ReadsStep DEF C!ReleaseConfig
<1>5. ASSUME NEW version \in 1 .. 2, C!RollbackConfig(r, version) PROVE ConfigInv'
  <2>1. Carries([pc |-> "find", version |-> version, content |-> config.content])
    BY DEF Carries, Stages
  <2> QED BY <1>5, <2>1, ReadsStep DEF C!RollbackConfig
<1> QED BY <1>2, <1>3, <1>4, <1>5

\* A handler writes the row of the configuration and its change log.
LEMMA RowStep ==
  ASSUME ConfigInv, NEW r \in Handlers,
         \/ C!CreateChangeLog(r) \/ C!Save(r) \/ C!IncrementVersion(r) \/ C!Drop(r)
         \/ \E content \in Contents : C!CreateConfig(r, content)
  PROVE  ConfigInv'
<1>0. Cardinality(Granted) \in Nat
  BY GrantedFacts
<1>1. UNCHANGED <<lock, configNow, grants>>
  BY DEF C!CreateChangeLog, C!Save, C!IncrementVersion, C!Drop, C!CreateConfig, C!OthersLock
<1> DEFINE Kept == /\ DOMAIN configRequest' = Handlers /\ \A q \in Handlers : Carries(configRequest'[q])
                   /\ Cardinality(Granted') \in Nat /\ Cardinality(Granted) <= Cardinality(Granted')
<1>2. ASSUME NEW content \in Contents, C!CreateConfig(r, content) PROVE ConfigInv'
  <2>1. Carries([pc |-> "log", entry |-> C!Entry("create", C!None, content)])
    BY DEF Carries, Stages
  <2>2. Kept
    BY <1>2, <2>1, FinishStep, GotoStep DEF C!CreateConfig, C!At
  <2>3. config' \in {C!Nothing} \union Rows /\ UNCHANGED <<releases, rules, pushes>>
    BY <1>2 DEF C!CreateConfig, ConfigInv, C!Row, Rows
  <2> QED BY <1>0, <1>1, <2>2, <2>3 DEF ConfigInv
<1>3. ASSUME C!CreateChangeLog(r) PROVE ConfigInv'
  <2>1. Kept /\ UNCHANGED <<config, releases, rules, pushes>>
    BY <1>3, FinishStep DEF C!CreateChangeLog
  <2> QED BY <1>0, <1>1, <2>1 DEF ConfigInv
<1>4. ASSUME C!Save(r) PROVE ConfigInv'
  <2>1. configRequest[r].row \in Rows /\ configRequest[r].rules \subseteq GrayRules
    BY <1>4 DEF C!Save, C!At, ConfigInv, Carries
  <2>2. Carries([pc |-> "increment", content |-> configRequest[r].row.content])
    BY DEF Carries, Stages
  <2>3. C!Finish(r) \/ C!Goto(r, [pc |-> "increment", content |-> configRequest[r].row.content])
    BY <1>4 DEF C!Save
  <2>4. Kept
    BY <1>4, <2>2, <2>3, FinishStep, GotoStep DEF C!Save, C!At
  <2>5. config' \in {C!Nothing} \union Rows /\ UNCHANGED <<releases, pushes>> /\ rules' \subseteq GrayRules
    BY <1>4, <2>1 DEF C!Save, ConfigInv
  <2> QED BY <1>0, <1>1, <2>4, <2>5 DEF ConfigInv
<1>5. ASSUME C!IncrementVersion(r) PROVE ConfigInv'
  <2>1. Carries([pc |-> "log", entry |-> C!Entry("update", configRequest[r].content, configRequest[r].content)])
    BY DEF Carries, Stages
  <2>2. Kept
    BY <1>5, <2>1, GotoStep DEF C!IncrementVersion, C!At
  <2>3. ASSUME config # C!Nothing PROVE [config EXCEPT !.version = @ + 1] \in Rows
    <3>1. config \in Rows
      BY <2>3 DEF ConfigInv
    <3> QED BY <3>1 DEF Rows
  <2>4. config' \in {C!Nothing} \union Rows /\ UNCHANGED <<releases, rules, pushes>>
    BY <1>5, <2>3 DEF C!IncrementVersion
  <2> QED BY <1>0, <1>1, <2>2, <2>4 DEF ConfigInv
<1>6. ASSUME C!Drop(r) PROVE ConfigInv'
  <2>1. Carries([pc |-> "log", entry |-> C!Entry("delete", configRequest[r].content, C!None)])
    BY DEF Carries, Stages
  <2>2. Kept
    BY <1>6, <2>1, GotoStep DEF C!Drop, C!At
  <2>3. \A i \in 1 .. Len(releases) : [releases[i] EXCEPT !.status = "deleted"] \in Releases
    <3> TAKE i \in 1 .. Len(releases)
    <3>1. releases[i] \in Releases
      BY DEF ConfigInv
    <3> QED BY <3>1 DEF Releases, C!Status
  <2>4. releases' \in Seq(Releases) /\ DOMAIN releases' = DOMAIN releases
    <3>1. DOMAIN releases = 1 .. Len(releases) /\ Len(releases) \in Nat
      BY DEF ConfigInv
    <3>2. releases' = [i \in 1 .. Len(releases) |-> [releases[i] EXCEPT !.status = "deleted"]]
      BY <1>6, <3>1 DEF C!Drop
    <3> QED BY <2>3, <3>1, <3>2
  <2>5. config' = C!Nothing /\ rules' = {} /\ UNCHANGED pushes
    BY <1>6 DEF C!Drop
  <2> QED BY <1>0, <1>1, <2>2, <2>4, <2>5 DEF ConfigInv
<1> QED BY <1>2, <1>3, <1>4, <1>5, <1>6

\* A handler finds the release to roll back to, and writes a release.
LEMMA ReleaseStep ==
  ASSUME ConfigInv, NEW r \in Handlers, C!FindTarget(r) \/ C!CreateRelease(r)
  PROVE  ConfigInv'
<1>0. Cardinality(Granted) \in Nat
  BY GrantedFacts
<1>1. UNCHANGED <<lock, configNow, grants>>
  BY DEF C!FindTarget, C!CreateRelease, C!OthersLock
<1> DEFINE Kept == /\ DOMAIN configRequest' = Handlers /\ \A q \in Handlers : Carries(configRequest'[q])
                   /\ Cardinality(Granted') \in Nat /\ Cardinality(Granted) <= Cardinality(Granted')
<1>2. CASE C!FindTarget(r)
  <2>1. ASSUME NEW i \in DOMAIN releases
        PROVE  Carries([pc |-> "create",
                        release |-> C!Release(releases[i].content, releases[i].version, "rollback"),
                        entry |-> C!Entry("rollback", configRequest[r].content, releases[i].content)])
    <3>1. releases[i] \in Releases
      BY DEF ConfigInv
    <3> QED BY <3>1 DEF Carries, Stages, C!Release, Releases, C!Types, C!Status
  <2>2. Kept
    BY <1>2, <2>1, FinishStep, GotoStep DEF C!FindTarget, C!ListReleases, C!At
  <2> QED BY <1>0, <1>1, <1>2, <2>2 DEF C!FindTarget, ConfigInv
<1>3. CASE C!CreateRelease(r)
  <2>1. Kept
    BY <1>3, FinishStep DEF C!CreateRelease
  <2>2. configRequest[r].release \in Releases
    BY <1>3 DEF C!CreateRelease, C!At, ConfigInv, Carries
  <2>3. releases' \in Seq(Releases) /\ pushes' \subseteq DOMAIN releases'
    <3>1. CASE config = C!Nothing
      BY <1>3, <3>1 DEF C!CreateRelease, ConfigInv
    <3>2. CASE config # C!Nothing
      <4>1. /\ releases' = Append(releases, configRequest[r].release)
            /\ pushes' = pushes \union {Len(releases) + 1}
        BY <1>3, <3>2 DEF C!CreateRelease
      <4>2. /\ releases' \in Seq(Releases) /\ Len(releases) \in Nat /\ DOMAIN releases = 1 .. Len(releases)
            /\ DOMAIN releases' = 1 .. (Len(releases) + 1)
        BY <2>2, <4>1 DEF ConfigInv
      <4> QED BY <4>1, <4>2 DEF ConfigInv
    <3> QED BY <3>1, <3>2
  <2> QED BY <1>0, <1>1, <1>3, <2>1, <2>3 DEF C!CreateRelease, ConfigInv
<1> QED BY <1>2, <1>3

\* The goroutine of a release gives it its status (pushConfig).
LEMMA PublishStep ==
  ASSUME ConfigInv, NEW i \in pushes, C!PushConfig(i)
  PROVE  ConfigInv'
<1>1. i \in 1 .. Len(releases) /\ releases[i] \in Releases /\ DOMAIN releases = 1 .. Len(releases)
  BY DEF ConfigInv
<1>2. [releases[i] EXCEPT !.status = IF @ = "deleted" THEN @ ELSE "success"] \in Releases
  BY <1>1 DEF Releases, C!Status
<1>3. releases' \in Seq(Releases) /\ DOMAIN releases' = DOMAIN releases
  <2>1. releases' = [releases EXCEPT ![i] = [releases[i] EXCEPT !.status = IF @ = "deleted" THEN @ ELSE "success"]]
    BY DEF C!PushConfig
  <2> QED BY <1>1, <1>2, <2>1 DEF ConfigInv
<1>4. /\ pushes' \subseteq DOMAIN releases
      /\ UNCHANGED <<config, rules, configRequest, lock, configNow, grants>>
  BY DEF C!PushConfig, C!OthersLock, ConfigInv
<1> QED BY <1>3, <1>4 DEF ConfigInv, Granted

\* A handler changes the gray rules.
LEMMA RuleStep ==
  ASSUME ConfigInv, NEW r \in Handlers,
         \/ C!SaveGrayRule(r)
         \/ \E rule \in GrayRuleIds : \/ C!CreateGrayRule(r, rule) \/ C!DeleteGrayRule(r, rule)
                                      \/ \E enabled \in BOOLEAN : C!UpdateGrayRule(r, rule, enabled)
  PROVE  ConfigInv'
<1>0. Cardinality(Granted) \in Nat
  BY GrantedFacts
<1>1. UNCHANGED <<config, releases, pushes, lock, configNow, grants>>
  BY DEF C!SaveGrayRule, C!CreateGrayRule, C!DeleteGrayRule, C!UpdateGrayRule, C!OthersLock
<1> DEFINE Kept == /\ DOMAIN configRequest' = Handlers /\ \A q \in Handlers : Carries(configRequest'[q])
                   /\ Cardinality(Granted') \in Nat /\ Cardinality(Granted) <= Cardinality(Granted')
<1>2. Kept /\ rules' \subseteq GrayRules
  <2>1. CASE C!SaveGrayRule(r)
    <3>1. configRequest[r].rule \in GrayRules
      BY <2>1 DEF C!SaveGrayRule, C!At, ConfigInv, Carries
    <3>2. rules' \subseteq GrayRules
      BY <2>1, <3>1 DEF C!SaveGrayRule, ConfigInv
    <3> QED BY <2>1, <3>2, FinishStep DEF C!SaveGrayRule
  <2>2. ASSUME NEW rule \in GrayRuleIds, C!CreateGrayRule(r, rule) \/ C!DeleteGrayRule(r, rule)
        PROVE  Kept /\ rules' \subseteq GrayRules
    <3>1. [rule |-> rule, enabled |-> TRUE] \in GrayRules
      BY DEF GrayRules
    <3>2. rules' \subseteq GrayRules
      BY <2>2, <3>1 DEF C!CreateGrayRule, C!DeleteGrayRule, ConfigInv
    <3> QED BY <2>2, <3>2, FinishStep DEF C!CreateGrayRule, C!DeleteGrayRule
  <2>3. ASSUME NEW rule \in GrayRuleIds, NEW enabled \in BOOLEAN, C!UpdateGrayRule(r, rule, enabled)
        PROVE  Kept /\ rules' \subseteq GrayRules
    <3>1. Carries([pc |-> "rule", rule |-> [rule |-> rule, enabled |-> enabled]])
      BY DEF Carries, Stages, GrayRules
    <3>2. C!Finish(r) \/ C!Goto(r, [pc |-> "rule", rule |-> [rule |-> rule, enabled |-> enabled]])
      BY <2>3 DEF C!UpdateGrayRule
    <3>3. Kept
      BY <2>3, <3>1, <3>2, FinishStep, GotoStep DEF C!UpdateGrayRule, C!At
    <3> QED BY <2>3, <3>3 DEF C!UpdateGrayRule, ConfigInv
  <2> QED BY <2>1, <2>2, <2>3
<1> QED BY <1>0, <1>1, <1>2 DEF ConfigInv

\* AcquireEditLock, statement by statement, and ReleaseEditLock.
LEMMA LockStep ==
  ASSUME ConfigInv, NEW r \in Handlers,
         \/ \E session \in EditSessions : C!AcquireLock(r, session)
         \/ C!CleanupExpiredLocks(r) \/ C!LookForLock(r) \/ C!CheckLock(r) \/ C!TakeLock(r)
         \/ C!ReleaseLock(r)
  PROVE  ConfigInv'
<1>0. Cardinality(Granted) \in Nat /\ configNow \in Nat /\ configNow + LockTTL \in Nat
  BY GrantedFacts, ConfigAssumption DEF ConfigInv
<1>1. UNCHANGED <<config, releases, rules, pushes, configNow>>
  BY DEF C!AcquireLock, C!CleanupExpiredLocks, C!LookForLock, C!CheckLock, C!TakeLock, C!ReleaseLock,
     C!OthersLock, C!OthersRows
<1> DEFINE Kept == /\ DOMAIN configRequest' = Handlers /\ \A q \in Handlers : Carries(configRequest'[q])
                   /\ Cardinality(Granted') \in Nat /\ Cardinality(Granted) <= Cardinality(Granted')
           Locks == \A l \in lock' : l.session \in EditSessions /\ l.expires \in Nat
<1>2. ASSUME NEW session \in EditSessions, C!AcquireLock(r, session) PROVE ConfigInv'
  <2>1. Carries([pc |-> "clean", session |-> session, expires |-> configNow + LockTTL])
    BY <1>0 DEF Carries, Stages
  <2>2. Kept
    BY <1>2, <2>1, GotoStep DEF C!AcquireLock, C!At
  <2> QED BY <1>0, <1>1, <1>2, <2>2 DEF C!AcquireLock, C!OthersLock, ConfigInv
<1>3. ASSUME C!CleanupExpiredLocks(r) PROVE ConfigInv'
  <2>1. configRequest[r] \in [pc : {"clean", "look"}, session : EditSessions, expires : Nat]
    BY <1>3 DEF C!CleanupExpiredLocks, C!At, ConfigInv, Carries
  <2>2. Carries([configRequest[r] EXCEPT !.pc = "look"])
    BY <2>1 DEF Carries, Stages
  <2>3. Kept
    BY <1>3, <2>2, GotoStep DEF C!CleanupExpiredLocks, C!At
  <2> QED BY <1>0, <1>1, <1>3, <2>3 DEF C!CleanupExpiredLocks, ConfigInv
<1>4. ASSUME C!LookForLock(r) PROVE ConfigInv'
  <2>1. configRequest[r] \in [pc : {"clean", "look"}, session : EditSessions, expires : Nat]
    BY <1>4 DEF C!LookForLock, C!At, ConfigInv, Carries
  <2>2. Carries([pc |-> "take", session |-> configRequest[r].session, expires |-> configRequest[r].expires,
                 found |-> lock])
    BY <2>1 DEF Carries, Stages
  <2>3. Kept
    BY <1>4, <2>2, GotoStep DEF C!LookForLock, C!At
  <2> QED BY <1>0, <1>1, <1>4, <2>3 DEF C!LookForLock, C!OthersLock, ConfigInv
<1>5. ASSUME configRequest[r].pc = "take"
      PROVE  /\ configRequest[r] \in [pc : {"take"}, session : EditSessions, expires : Nat, found : {configRequest[r].found}]
             /\ Carries([configRequest[r] EXCEPT !.found = {}])
  <2>1. configRequest[r] \in [pc : {"take"}, session : EditSessions, expires : Nat, found : {configRequest[r].found}]
    BY <1>5 DEF ConfigInv, Carries
  <2>2. [configRequest[r] EXCEPT !.found = {}] \in [pc : {"take"}, session : EditSessions, expires : Nat, found : {{}}]
    BY <2>1
  <2> QED BY <2>1, <2>2 DEF Carries, Stages
<1>6. ASSUME C!CheckLock(r) PROVE ConfigInv'
  <2>1. Kept
    BY <1>5, <1>6, FinishStep, GotoStep DEF C!CheckLock, C!At
  <2>2. lock' \subseteq lock /\ UNCHANGED grants
    BY <1>6 DEF C!CheckLock
  <2> QED BY <1>0, <1>1, <2>1, <2>2 DEF ConfigInv
<1>7. ASSUME C!TakeLock(r) PROVE ConfigInv'
  <2>1. CASE lock = {}
    <3>1. configRequest[r].session \in EditSessions /\ configRequest[r].expires \in Nat
      BY <1>5, <1>7 DEF C!TakeLock, C!At
    <3>2. Carries([pc |-> "held", row |-> grants + 1, session |-> configRequest[r].session])
      BY DEF Carries, Stages
    <3>3. Kept /\ Cardinality(Granted) + 1 <= Cardinality(Granted')
      BY <1>7, <2>1, <3>2, GotoStep DEF C!TakeLock, C!At
    <3>4. grants' = grants + 1 /\ Locks
      BY <1>7, <2>1, <3>1 DEF C!TakeLock
    <3> QED BY <1>0, <1>1, <3>3, <3>4 DEF ConfigInv
  <2>2. CASE lock # {}
    <3>1. Kept /\ UNCHANGED <<lock, grants>>
      BY <1>7, <2>2, FinishStep DEF C!TakeLock
    <3> QED BY <1>0, <1>1, <3>1 DEF ConfigInv
  <2> QED BY <2>1, <2>2
<1>8. ASSUME C!ReleaseLock(r) PROVE ConfigInv'
  <2>1. Kept /\ lock' \subseteq lock /\ UNCHANGED grants
    BY <1>8, FinishStep DEF C!ReleaseLock
  <2> QED BY <1>0, <1>1, <2>1 DEF ConfigInv
<1> QED BY <1>2, <1>3, <1>4, <1>6, <1>7, <1>8

\* Every step of the configuration centre keeps its invariant.
LEMMA ConfigNext == ConfigInv /\ [C!Next]_(C!vars) => ConfigInv'
<1> SUFFICES ASSUME ConfigInv, [C!Next]_(C!vars) PROVE ConfigInv'
  OBVIOUS
<1>1. CASE UNCHANGED C!vars
  BY <1>1 DEF C!vars, ConfigInv, Granted
<1>2. CASE C!Tick
  <2>1. configNow' \in 0 .. MaxConfigTime
    BY <1>2, ConfigAssumption DEF C!Tick, ConfigInv
  <2> QED BY <1>2, <2>1 DEF C!Tick, ConfigInv, Granted
<1>3. ASSUME NEW r \in Handlers, C!Handle(r) PROVE ConfigInv'
  BY <1>3, ReadersStep, RowStep, ReleaseStep, RuleStep, LockStep DEF C!Handle
<1> QED BY <1>1, <1>2, <1>3, PublishStep DEF C!Next

\* The invariant gives the types of the configuration centre.
LEMMA ConfigShows == ConfigInv => C!TypeOK
<1> SUFFICES ASSUME ConfigInv PROVE C!TypeOK
  OBVIOUS
<1>1. config # C!Nothing => config.content \in Contents /\ config.version \in Nat \ {0}
  BY DEF ConfigInv, Rows
<1>2. \A i \in DOMAIN releases : releases[i].type \in C!Types /\ releases[i].status \in C!Status
  <2> TAKE i \in DOMAIN releases
  <2>1. releases[i] \in Releases
    BY DEF ConfigInv
  <2> QED BY <2>1 DEF Releases
<1>3. grants \in 0 .. Cardinality(Handlers)
  BY GrantedFacts DEF ConfigInv
<1> QED BY <1>1, <1>2, <1>3, SameCount DEF ConfigInv, C!TypeOK, Carries, Stages, GrayRules

\* Who gives up a lock that has not expired.
LEMMA KeptLocks ==
  ASSUME ConfigInv, [C!Next]_(C!vars)
  PROVE  \A l \in lock \ lock' :
           C!Expired(l) \/ \E r \in Handlers : configRequest[r].pc = "held" /\ configRequest'[r].pc = "done"
                                              /\ configRequest[r].session = l.session
<1>1. CASE lock' = lock
  BY <1>1
<1>2. ASSUME NEW r \in Handlers, C!ReleaseLock(r)
      PROVE  /\ configRequest[r].pc = "held" /\ configRequest'[r].pc = "done"
             /\ \A l \in lock \ lock' : configRequest[r].session = l.session
  BY <1>2 DEF C!ReleaseLock, C!At, C!Finish, C!Goto, ConfigInv
<1>3. ASSUME NEW r \in Handlers, C!CleanupExpiredLocks(r) \/ C!CheckLock(r) \/ C!TakeLock(r)
      PROVE  \A l \in lock \ lock' : C!Expired(l)
  BY <1>3 DEF C!CleanupExpiredLocks, C!CheckLock, C!TakeLock
<1>4. CASE UNCHANGED C!vars \/ C!Tick \/ \E i \in pushes : C!PushConfig(i)
  BY <1>1, <1>4 DEF C!vars, C!Tick, C!PushConfig, C!OthersLock
<1>5. ASSUME NEW r \in Handlers, C!Handle(r)
      PROVE  \/ lock' = lock \/ C!CleanupExpiredLocks(r) \/ C!CheckLock(r) \/ C!TakeLock(r) \/ C!ReleaseLock(r)
  <2>1. CASE \/ C!CreateChangeLog(r) \/ C!Save(r) \/ C!IncrementVersion(r) \/ C!Drop(r) \/ C!FindTarget(r)
             \/ C!CreateRelease(r)
             \/ C!SaveGrayRule(r) \/ \E content \in Contents : C!CreateConfig(r, content)
    BY <2>1 DEF C!CreateChangeLog, C!Save, C!IncrementVersion, C!Drop, C!FindTarget, C!CreateRelease,
       C!SaveGrayRule, C!CreateConfig, C!OthersLock
  <2>2. CASE \/ C!DeleteConfig(r) \/ C!ReleaseConfig(r)
             \/ (\E content \in Contents : C!UpdateConfig(r, content))
             \/ \E version \in 1 .. 2 : C!RollbackConfig(r, version)
    BY <2>2 DEF C!DeleteConfig, C!ReleaseConfig, C!UpdateConfig, C!RollbackConfig, C!Reads, C!OthersLock
  <2>3. CASE \E rule \in GrayRuleIds : \/ C!CreateGrayRule(r, rule) \/ C!DeleteGrayRule(r, rule)
                                       \/ \E enabled \in BOOLEAN : C!UpdateGrayRule(r, rule, enabled)
    BY <2>3 DEF C!CreateGrayRule, C!DeleteGrayRule, C!UpdateGrayRule, C!OthersLock
  <2>4. CASE C!LookForLock(r) \/ \E session \in EditSessions : C!AcquireLock(r, session)
    BY <2>4 DEF C!LookForLock, C!AcquireLock, C!OthersLock
  <2> QED BY <1>5, <2>1, <2>2, <2>3, <2>4 DEF C!Handle
<1>6. ASSUME NEW r \in Handlers, C!Handle(r)
      PROVE  \A l \in lock \ lock' :
               C!Expired(l) \/ \E q \in Handlers : configRequest[q].pc = "held" /\ configRequest'[q].pc = "done"
                                                  /\ configRequest[q].session = l.session
  BY <1>2, <1>3, <1>5, <1>6
<1> QED BY <1>4, <1>6 DEF C!Next

-----------------------------------------------------------------------------
(* The push engine of configurations.                                      *)

CallStates == {P!Idle, P!Gone, [pc |-> "read"]} \union [pc : {"write"}, seen : SUBSET ConfigKeys]
PushStates == {P!Idle, P!Gone} \union [pc : {"sending"}, todo : SUBSET Subscribers]

PushInv ==
  /\ pushPlan \in PushPlans
  /\ online \subseteq Subscribers
  /\ DOMAIN subscribers = ConfigKeys /\ \A k \in ConfigKeys : DOMAIN subscribers[k] \subseteq Subscribers
  /\ writer \subseteq PushCalls
  /\ DOMAIN pushRows \subseteq Subscribers /\ \A c \in DOMAIN pushRows : pushRows[c] \subseteq ConfigKeys
  /\ pushCall \in [PushCalls -> CallStates]
  /\ push \in [Pushes -> PushStates]
  /\ messages \subseteq [push : Pushes, client : Subscribers, status : {"sent", "delivered", "failed"}]
  /\ pushRestarts \in 0 .. MaxPushRestarts
  /\ P!AckedByItsClient
  /\ \A p \in Pushes : push[p].pc = "sending" => push[p].todo \subseteq DOMAIN subscribers[pushPlan.pushes[p].key]

\* What the calls and publications of a scenario name is known.
LEMMA PlanFacts ==
  ASSUME pushPlan \in PushPlans
  PROVE  /\ pushPlan.rules \subseteq P!RuleTypes
         /\ \A k \in PushCalls : P!Client(k) \in Subscribers /\ P!Key(k) \in ConfigKeys
         /\ \A p \in Pushes : pushPlan.pushes[p].key \in ConfigKeys
BY PushAssumption DEF P!Client, P!Key

\* At the start nobody has subscribed, and nothing was pushed.
LEMMA PushInit == P!Init => PushInv
BY PushAssumption DEF P!Init, PushInv, CallStates, PushStates, P!Idle, P!AckedByItsClient

\* A client subscribes to a configuration (Subscribe).
LEMMA SubscribeStep ==
  ASSUME PushInv, NEW k \in PushCalls, P!Subscribe(k)
  PROVE  PushInv'
<1>1. P!Client(k) \in Subscribers /\ P!Key(k) \in ConfigKeys /\ UNCHANGED pushPlan
  BY PlanFacts DEF PushInv, P!Subscribe
<1>2. CASE P!Client(k) \notin online
  <2>1. pushCall' \in [PushCalls -> CallStates]
    BY <1>2 DEF P!Subscribe, PushInv, CallStates
  <2> QED BY <1>2, <2>1 DEF P!Subscribe, PushInv, P!AckedByItsClient
<1>3. CASE P!Client(k) \in online
  <2>1. pushCall' \in [PushCalls -> CallStates]
    BY <1>3 DEF P!Subscribe, PushInv, CallStates
  <2>2. /\ DOMAIN subscribers' = ConfigKeys
        /\ \A x \in ConfigKeys : /\ DOMAIN subscribers'[x] \subseteq Subscribers
                                 /\ DOMAIN subscribers[x] \subseteq DOMAIN subscribers'[x]
    BY <1>1, <1>3 DEF P!Subscribe, PushInv, P!Set
  <2>3. writer' \subseteq PushCalls
    BY <1>3 DEF P!Subscribe, PushInv
  <2>4. \A p \in Pushes : push[p].pc = "sending" =>
          push[p].todo \subseteq DOMAIN subscribers'[pushPlan.pushes[p].key]
    BY <2>2, PlanFacts DEF PushInv
  <2> QED BY <2>1, <2>2, <2>3, <2>4 DEF P!Subscribe, PushInv, P!AckedByItsClient
<1> QED BY <1>2, <1>3

\* A client unsubscribes, and its push state goes (Unsubscribe).
LEMMA UnsubscribeStep ==
  ASSUME PushInv, NEW k \in PushCalls, P!Unsubscribe(k)
  PROVE  PushInv'
<1>1. P!Client(k) \in Subscribers /\ P!Key(k) \in ConfigKeys /\ UNCHANGED pushPlan
  BY PlanFacts DEF PushInv, P!Unsubscribe
<1>2. pushCall' \in [PushCalls -> CallStates]
  BY DEF P!Unsubscribe, PushInv, CallStates
<1>3. /\ DOMAIN subscribers' = ConfigKeys
      /\ \A x \in ConfigKeys : /\ DOMAIN subscribers'[x] \subseteq Subscribers
                               /\ x # P!Key(k) => subscribers'[x] = subscribers[x]
  BY <1>1 DEF P!Unsubscribe, PushInv, P!Without
<1>4. \A p \in Pushes : push[p].pc = "sending" => pushPlan.pushes[p].key # P!Key(k)
  BY DEF P!Unsubscribe, P!Read
<1>5. \A p \in Pushes : push[p].pc = "sending" =>
        push[p].todo \subseteq DOMAIN subscribers'[pushPlan.pushes[p].key]
  BY <1>3, <1>4, PlanFacts DEF PushInv
<1> QED BY <1>2, <1>3, <1>5 DEF P!Unsubscribe, PushInv, P!AckedByItsClient

\* A subscription is read and written back (GetSubscriber, UpdateSubscriber).
LEMMA RowsStep ==
  ASSUME PushInv, NEW k \in PushCalls, P!GetSubscriber(k) \/ P!SaveSubscriber(k)
  PROVE  PushInv'
<1>1. P!Client(k) \in Subscribers /\ P!Key(k) \in ConfigKeys
  BY PlanFacts DEF PushInv
<1>2. CASE P!GetSubscriber(k)
  <2> DEFINE seen == IF P!Client(k) \in DOMAIN pushRows THEN pushRows[P!Client(k)] ELSE {}
  <2>1. seen \subseteq ConfigKeys
    BY DEF PushInv
  <2>2. pushCall' \in [PushCalls -> CallStates]
    BY <1>2, <2>1 DEF P!GetSubscriber, PushInv, CallStates
  <2> QED BY <1>2, <2>2 DEF P!GetSubscriber, PushInv, P!AckedByItsClient
<1>3. CASE P!SaveSubscriber(k)
  <2>1. pushCall[k].seen \subseteq ConfigKeys
    BY <1>3 DEF P!SaveSubscriber, PushInv, CallStates, P!Idle, P!Gone
  <2>2. pushCall' \in [PushCalls -> CallStates]
    BY <1>3 DEF P!SaveSubscriber, PushInv, CallStates
  <2>3. DOMAIN pushRows' \subseteq Subscribers /\ \A c \in DOMAIN pushRows' : pushRows'[c] \subseteq ConfigKeys
    BY <1>1, <1>3, <2>1 DEF P!SaveSubscriber, PushInv, P!Without, P!Set
  <2>4. writer' \subseteq PushCalls
    BY <1>3 DEF P!SaveSubscriber, PushInv
  <2> QED BY <1>3, <2>2, <2>3, <2>4 DEF P!SaveSubscriber, PushInv, P!AckedByItsClient
<1> QED BY <1>2, <1>3

\* A publication takes its list of clients, and ends (PushConfig).
LEMMA PushPublishStep ==
  ASSUME PushInv, NEW p \in Pushes, P!PushConfig(p) \/ P!PushDone(p)
  PROVE  PushInv'
<1>1. pushPlan.pushes[p].key \in ConfigKeys
  BY PlanFacts DEF PushInv
<1>2. CASE P!PushConfig(p)
  <2>1. push' \in [Pushes -> PushStates]
    BY <1>1, <1>2 DEF P!PushConfig, PushInv, PushStates
  <2>2. \A q \in Pushes : push'[q].pc = "sending" =>
          push'[q].todo \subseteq DOMAIN subscribers[pushPlan.pushes[q].key]
    BY <1>1, <1>2 DEF P!PushConfig, PushInv, PushStates
  <2> QED BY <1>2, <2>1, <2>2 DEF P!PushConfig, PushInv, P!AckedByItsClient
<1>3. CASE P!PushDone(p)
  <2>1. push' \in [Pushes -> PushStates]
    BY <1>1, <1>3 DEF P!PushDone, PushInv, PushStates
  <2>2. \A q \in Pushes : push'[q].pc = "sending" =>
          push'[q].todo \subseteq DOMAIN subscribers[pushPlan.pushes[q].key]
    BY <1>1, <1>3 DEF P!PushDone, PushInv, PushStates, P!Gone
  <2> QED BY <1>3, <2>1, <2>2 DEF P!PushDone, PushInv, P!AckedByItsClient
<1> QED BY <1>2, <1>3

\* A message is written for a client that is still subscribed.
LEMMA SendStep ==
  ASSUME PushInv, NEW p \in Pushes, NEW c \in Subscribers, P!SendToSubscriber(p, c)
  PROVE  PushInv'
<1>1. pushPlan.pushes[p].key \in ConfigKeys /\ UNCHANGED pushPlan
  BY PlanFacts DEF PushInv, P!SendToSubscriber
<1>2. push[p] \in [pc : {"sending"}, todo : SUBSET Subscribers]
  BY DEF P!SendToSubscriber, PushInv, PushStates, P!Idle, P!Gone
<1>3. [push[p] EXCEPT !.todo = @ \ {c}] = [pc |-> "sending", todo |-> push[p].todo \ {c}]
  BY <1>2
<1>9. push' = [push EXCEPT ![p] = [pc |-> "sending", todo |-> push[p].todo \ {c}]]
  <2>1. push' = [push EXCEPT ![p] = [push[p] EXCEPT !.todo = @ \ {c}]]
    BY DEF P!SendToSubscriber
  <2> QED BY <1>3, <2>1
<1>4. push' \in [Pushes -> PushStates]
  BY <1>2, <1>9 DEF PushInv, PushStates
<1>5. /\ DOMAIN subscribers' = ConfigKeys
      /\ \A x \in ConfigKeys : /\ DOMAIN subscribers'[x] \subseteq Subscribers
                               /\ DOMAIN subscribers[x] \subseteq DOMAIN subscribers'[x]
  BY <1>1 DEF P!SendToSubscriber, PushInv, P!Set
<1>6. \A q \in Pushes : push'[q].pc = "sending" =>
        push'[q].todo \subseteq DOMAIN subscribers'[pushPlan.pushes[q].key]
  BY <1>2, <1>9, <1>5, PlanFacts DEF PushInv
<1>7. messages' \subseteq [push : Pushes, client : Subscribers, status : {"sent", "delivered", "failed"}]
  BY DEF P!SendToSubscriber, PushInv
<1>8. P!AckedByItsClient'
  BY DEF P!SendToSubscriber, PushInv, P!AckedByItsClient
<1> QED BY <1>4, <1>5, <1>6, <1>7, <1>8 DEF P!SendToSubscriber, PushInv

\* A client answers a message it was sent (HandleConfigAck).
LEMMA AckStep ==
  ASSUME PushInv, NEW p \in Pushes, NEW c \in Subscribers, NEW ok \in BOOLEAN, P!HandleConfigAck(p, c, ok)
  PROVE  PushInv'
<1>1. PICK m \in messages :
        /\ m.push = p /\ m.client = c
        /\ messages' = (messages \ {m}) \union {[m EXCEPT !.status =
                                                   IF ok THEN "delivered" ELSE "failed"]}
  BY DEF P!HandleConfigAck
<1>2. [m EXCEPT !.status = IF ok THEN "delivered" ELSE "failed"]
        = [push |-> p, client |-> c, status |-> IF ok THEN "delivered" ELSE "failed"]
  BY <1>1 DEF PushInv
<1>3. messages' \subseteq [push : Pushes, client : Subscribers, status : {"sent", "delivered", "failed"}]
  BY <1>1, <1>2 DEF PushInv
<1>4. P!AckedByItsClient'
  BY <1>1, <1>2 DEF P!HandleConfigAck, PushInv, P!AckedByItsClient
<1> QED BY <1>3, <1>4 DEF P!HandleConfigAck, PushInv

\* A client leaves the server.
LEMMA LeaveStep ==
  ASSUME PushInv, NEW c \in Subscribers, P!Disconnect(c)
  PROVE  PushInv'
BY DEF P!Disconnect, PushInv, P!AckedByItsClient

\* After a restart the subscriptions are those of the database (LoadSubscribers).
LEMMA RestartStep ==
  ASSUME PushInv, P!LoadSubscribers
  PROVE  PushInv'
<1>1. pushCall' \in [PushCalls -> CallStates] /\ push' \in [Pushes -> PushStates]
  BY DEF P!LoadSubscribers, CallStates, PushStates
<1>2. \A p \in Pushes : push'[p].pc # "sending"
  BY DEF P!LoadSubscribers, P!Idle, P!Gone
<1>3. DOMAIN subscribers' = ConfigKeys /\ \A k \in ConfigKeys : DOMAIN subscribers'[k] \subseteq Subscribers
  BY DEF P!LoadSubscribers, PushInv
<1>4. pushRestarts' \in 0 .. MaxPushRestarts
  BY PushAssumption DEF P!LoadSubscribers, PushInv
<1> QED BY <1>1, <1>2, <1>3, <1>4 DEF P!LoadSubscribers, PushInv, P!AckedByItsClient

\* Every step of the push engine keeps its invariant.
LEMMA PushNext == PushInv /\ [P!Next]_(P!vars) => PushInv'
<1> SUFFICES ASSUME PushInv, [P!Next]_(P!vars) PROVE PushInv'
  OBVIOUS
<1>1. CASE UNCHANGED P!vars
  BY <1>1 DEF P!vars, PushInv, P!AckedByItsClient
<1>2. CASE P!Next
  BY <1>2, SubscribeStep, UnsubscribeStep, RowsStep, PushPublishStep, SendStep, AckStep, LeaveStep,
     RestartStep DEF P!Next
<1> QED BY <1>1, <1>2

\* The invariant gives the types, and that a row says what its client said.
LEMMA PushShows == PushInv => P!TypeOK /\ P!AckedByItsClient
<1> SUFFICES ASSUME PushInv PROVE P!TypeOK
  BY DEF PushInv
<1>1. \A k \in PushCalls : pushCall[k].pc \in {"idle", "read", "write", "done"}
  BY DEF PushInv, CallStates, P!Idle, P!Gone
<1>2. \A p \in Pushes : push[p].pc \in {"idle", "sending", "done"}
  BY DEF PushInv, PushStates, P!Idle, P!Gone
<1> QED BY <1>1, <1>2, PlanFacts DEF PushInv, P!TypeOK

\* A new message is for a client that is subscribed when it is written.
LEMMA NoMessageAfter ==
  ASSUME PushInv, [P!Next]_(P!vars)
  PROVE  \A m \in messages' : (\E x \in messages : x.push = m.push /\ x.client = m.client)
           \/ m.client \in DOMAIN subscribers[pushPlan.pushes[m.push].key]
<1>1. CASE messages' = messages
  BY <1>1
<1>2. ASSUME NEW p \in Pushes, NEW c \in Subscribers, P!SendToSubscriber(p, c)
      PROVE  \A m \in messages' : (\E x \in messages : x.push = m.push /\ x.client = m.client)
               \/ m.client \in DOMAIN subscribers[pushPlan.pushes[m.push].key]
  <2>1. c \in DOMAIN subscribers[pushPlan.pushes[p].key]
    BY <1>2 DEF P!SendToSubscriber, PushInv
  <2> QED BY <1>2, <2>1 DEF P!SendToSubscriber
<1>3. ASSUME NEW p \in Pushes, NEW c \in Subscribers, NEW ok \in BOOLEAN, P!HandleConfigAck(p, c, ok)
      PROVE  \A m \in messages' : \E x \in messages : x.push = m.push /\ x.client = m.client
  <2>1. PICK m \in messages :
          /\ m.push = p /\ m.client = c
          /\ messages' = (messages \ {m}) \union {[m EXCEPT !.status =
                                                     IF ok THEN "delivered" ELSE "failed"]}
    BY <1>3 DEF P!HandleConfigAck
  <2>2. [m EXCEPT !.status = IF ok THEN "delivered" ELSE "failed"]
          = [push |-> p, client |-> c, status |-> IF ok THEN "delivered" ELSE "failed"]
    BY <2>1 DEF PushInv
  <2> QED BY <2>1, <2>2
<1>4. CASE UNCHANGED P!vars
  BY <1>4, <1>1 DEF P!vars
<1>5. CASE P!Next
  <2>1. CASE \E k \in PushCalls : P!Subscribe(k) \/ P!Unsubscribe(k) \/ P!GetSubscriber(k) \/ P!SaveSubscriber(k)
    BY <1>1, <2>1 DEF P!Subscribe, P!Unsubscribe, P!GetSubscriber, P!SaveSubscriber
  <2>2. CASE \E p \in Pushes : P!PushConfig(p) \/ P!PushDone(p)
    BY <1>1, <2>2 DEF P!PushConfig, P!PushDone
  <2>3. CASE (\E c \in Subscribers : P!Disconnect(c)) \/ P!LoadSubscribers
    BY <1>1, <2>3 DEF P!Disconnect, P!LoadSubscribers
  <2> QED BY <1>2, <1>3, <1>5, <2>1, <2>2, <2>3 DEF P!Next
<1> QED BY <1>4, <1>5

-----------------------------------------------------------------------------
(* Alerting.                                                               *)

RuleRows == [state : {"absent", "live", "deleted"}, condition : A!Conditions, enabled : BOOLEAN]
Known == [status : A!Statuses, fired : Nat]
Notices == [print : Fingerprints, status : A!Statuses, channel : Channels, retries : Nat]
AlertCallStates ==
  [pc : {"idle", "insert", "cache", "save", "uncache", "done"}]
    \union [pc : {"announce"}, status : A!Statuses, todo : SUBSET Channels,
            next : {"save", "uncache", "done"}]

RuleTypes ==
  /\ edits \in 0 .. MaxRuleEdits
  /\ table \in [AlertRules -> RuleRows]
  /\ DOMAIN loaded \subseteq AlertRules /\ DOMAIN fired \subseteq AlertRules
  /\ visit \in {A!None} \union [rule : AlertRules, matched : BOOLEAN]

NoticeTypes ==
  /\ queue \in Seq(Notices) /\ Len(queue) <= NoticeQueueSize
  /\ retry \in Seq(Notices) /\ Len(retry) <= NoticeQueueSize
  /\ sending \in [Notifiers \union {"retry"} -> Notices \union {A!None}]
  /\ history \subseteq [print : Fingerprints, channel : Channels]

AlertTypes ==
  /\ alertPlan \in AlertPlans /\ alertNow \in 0 .. MaxAlertTime
  /\ alertRows \in [Fingerprints -> A!Statuses \union {"absent", "deleted"}]
  /\ DOMAIN cache \subseteq Fingerprints /\ \A f \in DOMAIN cache : cache[f] \in Known
  /\ alertCall \in [AlertCalls -> AlertCallStates]

\* A call that has inserted a row is alone, and no row is taken out of the table.
Inserted ==
  /\ \A c \in AlertCalls : alertCall[c].pc = "cache" => alertRows[A!Fingerprint(c)] # "absent"
  /\ \A c, d \in AlertCalls : c # d /\ A!Fingerprint(c) = A!Fingerprint(d) /\ alertCall[c].pc = "cache"
                           => alertCall[d].pc # "cache"

AlertInv == RuleTypes /\ NoticeTypes /\ AlertTypes /\ Inserted

\* What the calls of a scenario name is known.
LEMMA OfThePlan ==
  ASSUME AlertTypes, NEW c \in AlertCalls
  PROVE  /\ A!Fingerprint(c) \in Fingerprints /\ alertPlan.calls[c].status \in A!Statuses
         /\ alertPlan.channels \subseteq Channels
BY AlertAssumption DEF AlertTypes, A!Fingerprint

\* A call stays what it is.
LEMMA PlanIsFixed ==
  ASSUME alertPlan' = alertPlan, NEW c
  PROVE  A!Fingerprint(c)' = A!Fingerprint(c) /\ A!Op(c)' = A!Op(c)
BY DEF A!Fingerprint, A!Op

\* At the start there are no rules, no alerts and no notices.
LEMMA AlertInit ==
  ASSUME A!Init
  PROVE  AlertInv
<1>1. RuleTypes
  <2>1. A!NoRule \in RuleRows
    BY DEF A!NoRule, RuleRows, A!Conditions
  <2>2. table \in [AlertRules -> RuleRows]
    BY <2>1 DEF A!Init
  <2>3. DOMAIN loaded \subseteq AlertRules /\ DOMAIN fired \subseteq AlertRules
    BY DEF A!Init
  <2> QED
    BY <2>2, <2>3, AlertAssumption DEF A!Init, RuleTypes
<1>2. NoticeTypes
  <2>1. <<>> \in Seq(Notices) /\ Len(<<>>) = 0
    OBVIOUS
  <2> QED
    BY <2>1, AlertAssumption DEF A!Init, NoticeTypes
<1>3. AlertTypes
  <2>1. A!Idle \in AlertCallStates
    BY DEF A!Idle, AlertCallStates
  <2>2. DOMAIN cache = {}
    BY DEF A!Init
  <2> QED
    BY <2>1, <2>2, AlertAssumption DEF A!Init, AlertTypes
<1>4. Inserted
  BY DEF A!Init, Inserted, A!Idle
<1> QED
  BY <1>1, <1>2, <1>3, <1>4 DEF AlertInv

\* A change of rules is counted.
LEMMA EditStep ==
  ASSUME AlertInv, edits < MaxRuleEdits, edits' = edits + 1
  PROVE  edits' \in 0 .. MaxRuleEdits
BY AlertAssumption DEF AlertInv, RuleTypes

\* The evaluator and the handlers of rules keep what is loaded to rules that exist.
LEMMA RulesStep ==
  ASSUME AlertInv, A!Evaluate
  PROVE  RuleTypes'
<1> USE DEF AlertInv, RuleTypes
<1>1. ASSUME NEW r \in AlertRules, A!EvaluateRule(r) PROVE RuleTypes'
  BY <1>1 DEF A!EvaluateRule
<1>2. ASSUME NEW r \in AlertRules, A!DeleteRule(r) PROVE RuleTypes'
  <2>1. table' \in [AlertRules -> RuleRows]
    BY <1>2 DEF A!DeleteRule, RuleRows
  <2> QED
    BY <1>2, <2>1, EditStep DEF A!DeleteRule, A!Edit
<1>3. ASSUME NEW r \in AlertRules, A!RemoveRule(r) PROVE RuleTypes'
  BY <1>3, EditStep DEF A!RemoveRule, A!Edit, A!Without
<1>4. ASSUME NEW r \in AlertRules, NEW c \in A!Conditions, A!CreateRule(r, c) PROVE RuleTypes'
  <2>1. table' \in [AlertRules -> RuleRows]
    BY <1>4 DEF A!CreateRule, RuleRows
  <2> QED
    BY <1>4, <2>1, EditStep DEF A!CreateRule, A!Edit
<1>5. ASSUME NEW r \in AlertRules, NEW c \in A!Conditions, A!AddRule(r, c) PROVE RuleTypes'
  BY <1>5, EditStep DEF A!AddRule, A!Edit, A!Set
<1>6. ASSUME NEW r \in AlertRules, NEW c \in A!Conditions, NEW e \in BOOLEAN, A!UpdateRule(r, c, e)
      PROVE  RuleTypes'
  <2>1. table' \in [AlertRules -> RuleRows]
    BY <1>6 DEF A!UpdateRule, RuleRows
  <2> QED
    BY <1>6, <2>1, EditStep DEF A!UpdateRule, A!Edit
<1>7. CASE A!ReloadRules
  BY <1>7, EditStep DEF A!ReloadRules, A!Edit
<1>8. CASE A!HandleEvaluationResult
  <2>1. visit.rule \in AlertRules
    BY <1>8 DEF A!HandleEvaluationResult
  <2>2. DOMAIN fired' \subseteq AlertRules
    BY <2>1, <1>8 DEF A!HandleEvaluationResult, A!Set, A!Without
  <2> QED
    BY <2>2, <1>8 DEF A!HandleEvaluationResult
<1> QED
  BY <1>1, <1>2, <1>3, <1>4, <1>5, <1>6, <1>7, <1>8 DEF A!Evaluate

\* The evaluator leaves alerts and notices alone.
LEMMA EvaluateLeaves ==
  ASSUME A!Evaluate
  PROVE  UNCHANGED <<alertPlan, alertNow, alertRows, cache, alertCall, A!notifier>>
BY DEF A!Evaluate, A!EvaluateRule, A!DeleteRule, A!RemoveRule, A!CreateRule, A!AddRule, A!UpdateRule,
   A!ReloadRules, A!HandleEvaluationResult, A!Edit, A!OthersStay

\* A worker of the notifier takes, sends, retries or drops a notice.
LEMMA NoticesStep ==
  ASSUME AlertInv, NEW w \in Notifiers \union {"retry"}, A!Notify(w)
  PROVE  NoticeTypes'
<1> USE DEF AlertInv, NoticeTypes
<1>1. CASE A!Worker(w)
  <2>1. Head(queue) \in Notices /\ Tail(queue) \in Seq(Notices) /\ Len(Tail(queue)) <= NoticeQueueSize
    BY <1>1, AlertAssumption DEF A!Worker
  <2> QED
    BY <1>1, <2>1 DEF A!Worker
<1>2. CASE A!RetryWorker
  <2>1. Head(retry) \in Notices /\ Tail(retry) \in Seq(Notices) /\ Len(Tail(retry)) <= NoticeQueueSize
    BY <1>2, AlertAssumption DEF A!RetryWorker
  <2> QED
    BY <1>2, <2>1 DEF A!RetryWorker
<1>3. ASSUME NEW ok \in BOOLEAN, A!Send(w, ok) PROVE NoticeTypes'
  <2>1. sending[w] \in Notices
    BY <1>3 DEF A!Send
  <2> DEFINE t == [sending[w] EXCEPT !.retries = @ + 1]
  <2>2. t \in Notices
    BY <2>1 DEF Notices
  <2>3. history' \subseteq [print : Fingerprints, channel : Channels]
    BY <1>3, <2>1 DEF A!Send, A!Sent, Notices
  <2>4. retry' = retry \/ (Len(retry) < NoticeQueueSize /\ retry' = Append(retry, t))
    BY <1>3 DEF A!Send
  <2> HIDE DEF t
  <2>5. retry' \in Seq(Notices) /\ Len(retry') <= NoticeQueueSize
    BY <2>2, <2>4, AlertAssumption
  <2> QED
    BY <1>3, <2>3, <2>5 DEF A!Send
<1> QED
  BY <1>1, <1>2, <1>3 DEF A!Notify

\* The notifier leaves rules and alerts alone.
LEMMA NotifyLeaves ==
  ASSUME NEW w, A!Notify(w)
  PROVE  UNCHANGED <<alertPlan, alertNow, A!evaluator, alertRows, cache, alertCall>>
BY DEF A!Notify, A!Worker, A!RetryWorker, A!Send, A!OthersKeep

\* The states of a call that carry nothing.
LEMMA PlainStates ==
  ASSUME NEW s \in {"idle", "insert", "cache", "save", "uncache", "done"}
  PROVE  [pc |-> s] \in AlertCallStates /\ [pc |-> s].pc = s
BY DEF AlertCallStates

\* A step of one call that inserts no row.
LEMMA CallStep ==
  ASSUME AlertInv, NEW c \in AlertCalls, NEW y \in AlertCallStates,
         alertCall' = [alertCall EXCEPT ![c] = y], alertPlan' = alertPlan,
         y.pc # "cache", \A f \in Fingerprints : alertRows[f] # "absent" => alertRows'[f] # "absent"
  PROVE  alertCall' \in [AlertCalls -> AlertCallStates] /\ Inserted'
<1>1. alertCall' \in [AlertCalls -> AlertCallStates] /\ alertCall'[c] = y
      /\ \A d \in AlertCalls \ {c} : alertCall'[d] = alertCall[d]
  BY DEF AlertInv, AlertTypes
<1>2. \A d \in AlertCalls : A!Fingerprint(d)' = A!Fingerprint(d) /\ A!Fingerprint(d) \in Fingerprints
  BY PlanIsFixed, OfThePlan DEF AlertInv
<1> QED
  BY <1>1, <1>2 DEF AlertInv, Inserted

\* A call that announces knows its status and its channels.
LEMMA AnnounceState ==
  ASSUME AlertTypes, NEW s \in A!Statuses, NEW n \in {"save", "uncache", "done"}
  PROVE  LET y == [pc |-> "announce", status |-> s, todo |-> alertPlan.channels, next |-> n]
         IN  y \in AlertCallStates /\ y.pc # "cache"
BY AlertAssumption DEF AlertTypes, AlertCallStates

\* ProcessAlert looks for the fingerprint in the cache.
LEMMA ProcessStep ==
  ASSUME AlertInv, NEW c \in AlertCalls, A!ProcessAlert(c)
  PROVE  AlertTypes' /\ Inserted'
<1> DEFINE f == A!Fingerprint(c)
<1>1. /\ UNCHANGED <<alertPlan, alertNow, alertRows>> /\ f \in Fingerprints
      /\ alertPlan.calls[c].status \in A!Statuses
  BY OfThePlan DEF A!ProcessAlert, A!RowsOnly, AlertInv
<1>2. \E y \in AlertCallStates : y.pc # "cache" /\ alertCall' = [alertCall EXCEPT ![c] = y]
  <2>1. "firing" \in A!Statuses
    BY DEF A!Statuses
  <2> QED
    BY <2>1, PlainStates, AnnounceState DEF A!ProcessAlert, A!Goto, A!Announce, AlertInv
<1>3. DOMAIN cache' \subseteq Fingerprints /\ \A g \in DOMAIN cache' : cache'[g] \in Known
  <2>1. [status |-> "firing", fired |-> alertNow] \in Known
    BY AlertAssumption DEF Known, A!Statuses, AlertInv, AlertTypes
  <2>2. cache' = cache \/ cache' = A!Set(cache, f, [status |-> "firing", fired |-> alertNow])
    BY DEF A!ProcessAlert
  <2>3. DOMAIN cache \subseteq Fingerprints /\ \A g \in DOMAIN cache : cache[g] \in Known
    BY DEF AlertInv, AlertTypes
  <2>4. CASE cache' = A!Set(cache, f, [status |-> "firing", fired |-> alertNow])
    BY <2>1, <2>3, <2>4, <1>1 DEF A!Set
  <2> QED
    BY <2>2, <2>3, <2>4
<1>4. PICK y \in AlertCallStates : y.pc # "cache" /\ alertCall' = [alertCall EXCEPT ![c] = y]
  BY <1>2
<1>5. alertCall' \in [AlertCalls -> AlertCallStates] /\ Inserted'
  BY <1>1, <1>4, CallStep
<1> QED
  BY <1>1, <1>3, <1>5 DEF AlertInv, AlertTypes

\* The row of an alert is inserted where the table has none: its unique index admits one.
LEMMA CreateStep ==
  ASSUME AlertInv, NEW c \in AlertCalls, A!CreateAlert(c)
  PROVE  AlertTypes' /\ Inserted' /\ \A d \in AlertCalls \ {c} :
           A!Fingerprint(d) = A!Fingerprint(c) /\ alertCall[d].pc = "cache" => alertCall'[c].pc # "cache"
<1> DEFINE f == A!Fingerprint(c)
           s == alertPlan.calls[c].status
<1>1. UNCHANGED <<alertPlan, alertNow, cache>> /\ f \in Fingerprints /\ s \in A!Statuses
  BY OfThePlan DEF A!CreateAlert, A!RowsOnly, AlertInv
<1>2. CASE alertRows[f] # "absent"
  <2>1. alertRows' = alertRows /\ alertCall' = [alertCall EXCEPT ![c] = [pc |-> "done"]]
    BY <1>2 DEF A!CreateAlert, A!Finish, A!Goto
  <2>2. alertCall' \in [AlertCalls -> AlertCallStates] /\ Inserted'
    BY <1>1, <2>1, PlainStates, CallStep
  <2>3. alertCall'[c].pc # "cache"
    BY <2>1, <2>2, PlainStates
  <2> QED
    BY <1>1, <2>1, <2>2, <2>3 DEF AlertInv, AlertTypes
<1>3. CASE alertRows[f] = "absent"
  <2>1. alertRows' = [alertRows EXCEPT ![f] = s] /\ alertCall' = [alertCall EXCEPT ![c] = [pc |-> "cache"]]
    BY <1>3 DEF A!CreateAlert, A!Goto
  <2>2. alertCall' \in [AlertCalls -> AlertCallStates] /\ alertCall'[c].pc = "cache"
        /\ \A d \in AlertCalls \ {c} : alertCall'[d] = alertCall[d]
    BY <2>1, PlainStates DEF AlertInv, AlertTypes
  <2>3. s # "absent"
    BY <1>1 DEF A!Statuses
  <2>4. \A d \in AlertCalls : A!Fingerprint(d)' = A!Fingerprint(d) /\ A!Fingerprint(d) \in Fingerprints
    BY <1>1, PlanIsFixed, OfThePlan DEF AlertInv
  <2>5. \A d \in AlertCalls \ {c} : A!Fingerprint(d) = f => alertCall[d].pc # "cache"
    BY <1>3 DEF AlertInv, Inserted
  <2>6. Inserted'
    <3>1. \A d \in AlertCalls : alertCall'[d].pc = "cache" => alertRows'[A!Fingerprint(d)'] # "absent"
      BY <2>1, <2>2, <2>3, <2>4, <1>1 DEF AlertInv, AlertTypes, Inserted
    <3>2. \A d, x \in AlertCalls : d # x /\ A!Fingerprint(d)' = A!Fingerprint(x)' /\ alertCall'[d].pc = "cache"
                                => alertCall'[x].pc # "cache"
      BY <2>2, <2>4, <2>5 DEF AlertInv, Inserted
    <3> QED
      BY <3>1, <3>2 DEF Inserted
  <2>7. alertRows' \in [Fingerprints -> A!Statuses \union {"absent", "deleted"}]
    BY <2>1, <1>1 DEF AlertInv, AlertTypes
  <2> QED
    BY <1>1, <2>2, <2>5, <2>6, <2>7 DEF AlertInv, AlertTypes
<1> QED
  BY <1>2, <1>3

\* The alert goes into the cache.
LEMMA StoreStep ==
  ASSUME AlertInv, NEW c \in AlertCalls, A!StoreAlert(c)
  PROVE  AlertTypes' /\ Inserted'
<1> DEFINE f == A!Fingerprint(c)
           v == [status |-> alertPlan.calls[c].status, fired |-> alertNow]
<1>1. /\ UNCHANGED <<alertPlan, alertNow, alertRows>> /\ f \in Fingerprints
      /\ alertPlan.calls[c].status \in A!Statuses
  BY OfThePlan DEF A!StoreAlert, A!RowsOnly, AlertInv
<1>2. \E y \in AlertCallStates : y.pc # "cache" /\ alertCall' = [alertCall EXCEPT ![c] = y]
  <2>1. "firing" \in A!Statuses
    BY DEF A!Statuses
  <2> QED
    BY <2>1, PlainStates, AnnounceState DEF A!StoreAlert, A!Goto, A!Announce, A!Finish, AlertInv
<1>3. DOMAIN cache' \subseteq Fingerprints /\ \A g \in DOMAIN cache' : cache'[g] \in Known
  <2>1. v \in Known
    BY <1>1, AlertAssumption DEF Known, AlertInv, AlertTypes
  <2>2. cache' = A!Set(cache, f, v)
    BY DEF A!StoreAlert
  <2> HIDE DEF v
  <2> QED
    BY <2>1, <2>2, <1>1 DEF A!Set, AlertInv, AlertTypes
<1>4. PICK y \in AlertCallStates : y.pc # "cache" /\ alertCall' = [alertCall EXCEPT ![c] = y]
  BY <1>2
<1>5. alertCall' \in [AlertCalls -> AlertCallStates] /\ Inserted'
  BY <1>1, <1>4, CallStep
<1> QED
  BY <1>1, <1>3, <1>5 DEF AlertInv, AlertTypes

\* An alert that is known changes its status.
LEMMA UpdateStep ==
  ASSUME AlertInv, NEW c \in AlertCalls, A!UpdateAlert(c)
  PROVE  AlertTypes' /\ Inserted'
<1> DEFINE f == A!Fingerprint(c)
<1>1. UNCHANGED <<alertPlan, alertNow, cache>> /\ f \in Fingerprints
  BY OfThePlan DEF A!UpdateAlert, A!RowsOnly, AlertInv
<1>2. \E y \in AlertCallStates : y.pc # "cache" /\ alertCall' = [alertCall EXCEPT ![c] = y]
  <2>1. "resolved" \in A!Statuses
    BY DEF A!Statuses
  <2> QED
    BY <2>1, PlainStates, AnnounceState DEF A!UpdateAlert, A!Goto, A!Announce, A!Finish, AlertInv
<1>3. alertRows' = alertRows \/ \E s \in A!Statuses : alertRows' = [alertRows EXCEPT ![f] = s]
  BY DEF A!UpdateAlert, AlertInv, AlertTypes, Known
<1>4. /\ alertRows' \in [Fingerprints -> A!Statuses \union {"absent", "deleted"}]
      /\ \A g \in Fingerprints : alertRows[g] # "absent" => alertRows'[g] # "absent"
  BY <1>1, <1>3 DEF AlertInv, AlertTypes, A!Statuses
<1>5. PICK y \in AlertCallStates : y.pc # "cache" /\ alertCall' = [alertCall EXCEPT ![c] = y]
  BY <1>2
<1>6. alertCall' \in [AlertCalls -> AlertCallStates] /\ Inserted'
  BY <1>1, <1>4, <1>5, CallStep
<1> QED
  BY <1>1, <1>4, <1>6 DEF AlertInv, AlertTypes

\* ResolveAlert marks the alert.
LEMMA ResolveStep ==
  ASSUME AlertInv, NEW c \in AlertCalls, A!ResolveAlert(c)
  PROVE  AlertTypes' /\ Inserted'
<1> DEFINE f == A!Fingerprint(c)
<1>1. UNCHANGED <<alertPlan, alertNow, alertRows>>
  BY DEF A!ResolveAlert, A!RowsOnly
<1>2. \E y \in AlertCallStates : y.pc # "cache" /\ alertCall' = [alertCall EXCEPT ![c] = y]
  BY PlainStates DEF A!ResolveAlert, A!Goto, A!Finish
<1>3. DOMAIN cache' \subseteq Fingerprints /\ \A g \in DOMAIN cache' : cache'[g] \in Known
  <2>1. cache' = cache \/ (f \in DOMAIN cache /\ cache' = [cache EXCEPT ![f].status = "resolved"])
    BY DEF A!ResolveAlert
  <2>2. DOMAIN cache \subseteq Fingerprints /\ \A g \in DOMAIN cache : cache[g] \in Known
    BY DEF AlertInv, AlertTypes
  <2>3. ASSUME f \in DOMAIN cache PROVE [cache[f] EXCEPT !.status = "resolved"] \in Known
    BY <2>2, <2>3 DEF Known, A!Statuses
  <2> QED
    BY <2>1, <2>2, <2>3
<1>4. PICK y \in AlertCallStates : y.pc # "cache" /\ alertCall' = [alertCall EXCEPT ![c] = y]
  BY <1>2
<1>5. alertCall' \in [AlertCalls -> AlertCallStates] /\ Inserted'
  BY <1>1, <1>4, CallStep
<1> QED
  BY <1>1, <1>3, <1>5 DEF AlertInv, AlertTypes

\* An alert that has ended leaves the cache.
LEMMA UncacheStep ==
  ASSUME AlertInv, NEW c \in AlertCalls, A!Uncache(c)
  PROVE  AlertTypes' /\ Inserted'
<1>1. UNCHANGED <<alertPlan, alertNow, alertRows>> /\ cache' = A!Without(cache, A!Fingerprint(c))
      /\ alertCall' = [alertCall EXCEPT ![c] = [pc |-> "done"]]
  BY DEF A!Uncache, A!RowsOnly, A!Goto, A!Finish
<1>2. alertCall' \in [AlertCalls -> AlertCallStates] /\ Inserted'
  BY <1>1, PlainStates, CallStep
<1>3. DOMAIN cache' \subseteq Fingerprints /\ \A g \in DOMAIN cache' : cache'[g] \in Known
  BY <1>1 DEF A!Without, AlertInv, AlertTypes
<1> QED
  BY <1>1, <1>2, <1>3 DEF AlertInv, AlertTypes

\* A handler changes the row of an alert without the processor.
LEMMA HandlerStep ==
  ASSUME AlertInv, NEW c \in AlertCalls, A!ChangeRow(c)
  PROVE  AlertTypes' /\ Inserted'
<1> DEFINE f == A!Fingerprint(c)
<1>1. UNCHANGED <<alertPlan, alertNow, cache>> /\ alertCall' = [alertCall EXCEPT ![c] = [pc |-> "done"]]
      /\ f \in Fingerprints
  BY OfThePlan DEF A!ChangeRow, A!RowsOnly, A!Goto, A!Finish, AlertInv
<1>2. \/ alertRows' = alertRows \/ alertRows' = [alertRows EXCEPT ![f] = "resolved"]
      \/ alertRows' = [alertRows EXCEPT ![f] = "deleted"]
  <2>1. CASE alertRows[f] \in {"absent", "deleted"}
    BY <2>1 DEF A!ChangeRow
  <2>2. CASE alertRows[f] \notin {"absent", "deleted"}
    BY <2>2 DEF A!ChangeRow
  <2> QED
    BY <2>1, <2>2
<1>3. /\ alertRows' \in [Fingerprints -> A!Statuses \union {"absent", "deleted"}]
      /\ \A g \in Fingerprints : alertRows[g] # "absent" => alertRows'[g] # "absent"
  BY <1>1, <1>2 DEF AlertInv, AlertTypes, A!Statuses
<1>4. alertCall' \in [AlertCalls -> AlertCallStates] /\ Inserted'
  BY <1>1, <1>3, PlainStates, CallStep
<1> QED
  BY <1>1, <1>3, <1>4 DEF AlertInv, AlertTypes

\* A call has announced to all of its channels.
LEMMA AnnouncedStep ==
  ASSUME AlertInv, NEW c \in AlertCalls, A!Announced(c)
  PROVE  AlertTypes' /\ Inserted'
<1>1. /\ UNCHANGED <<alertPlan, alertNow, alertRows, cache>>
      /\ alertCall' = [alertCall EXCEPT ![c] = [pc |-> alertCall[c].next]]
  BY DEF A!Announced, A!OthersKeep, A!Goto
<1>2. alertCall[c].next \in {"save", "uncache", "done"}
  BY DEF A!Announced, AlertInv, AlertTypes, AlertCallStates
<1>3. [pc |-> alertCall[c].next] \in AlertCallStates /\ [pc |-> alertCall[c].next].pc # "cache"
  BY <1>2, PlainStates
<1>4. alertCall' \in [AlertCalls -> AlertCallStates] /\ Inserted'
  BY <1>1, <1>3, CallStep
<1> QED
  BY <1>1, <1>4 DEF AlertInv, AlertTypes

\* A notice goes into the queue of the notifier, or is dropped.
LEMMA SendingStep ==
  ASSUME AlertInv, NEW c \in AlertCalls, NEW ch \in Channels, A!SendNotification(c, ch)
  PROVE  AlertTypes' /\ Inserted' /\ NoticeTypes'
<1> DEFINE y == [alertCall[c] EXCEPT !.todo = @ \ {ch}]
           n == [print |-> A!Fingerprint(c), status |-> alertCall[c].status, channel |-> ch, retries |-> 0]
<1>1. /\ UNCHANGED <<alertPlan, alertNow, alertRows, cache, retry, sending, history>>
      /\ alertCall' = [alertCall EXCEPT ![c] = y]
      /\ queue' = IF Len(queue) = NoticeQueueSize THEN queue ELSE Append(queue, n)
  BY DEF A!SendNotification, A!OthersKeep, A!Goto
<1>2. alertCall[c] \in [pc : {"announce"}, status : A!Statuses, todo : SUBSET Channels,
                   next : {"save", "uncache", "done"}]
  BY DEF A!SendNotification, AlertInv, AlertTypes, AlertCallStates
<1>3. y \in AlertCallStates /\ y.pc # "cache"
  BY <1>2 DEF AlertCallStates
<1>4. n \in Notices
  BY <1>2, OfThePlan DEF Notices, AlertInv
<1> HIDE DEF y, n
<1>5. alertCall' \in [AlertCalls -> AlertCallStates] /\ Inserted'
  BY <1>1, <1>3, CallStep
<1>6. queue' \in Seq(Notices) /\ Len(queue') <= NoticeQueueSize
  BY <1>1, <1>4, AlertAssumption DEF AlertInv, NoticeTypes
<1> QED
  BY <1>1, <1>5, <1>6 DEF AlertInv, AlertTypes, NoticeTypes

\* Every step of alerting keeps its invariant.
LEMMA AlertNext ==
  ASSUME AlertInv, [A!Next]_(A!vars)
  PROVE  AlertInv'
<1>1. CASE UNCHANGED A!vars
  BY <1>1 DEF A!vars, A!evaluator, A!notifier, AlertInv, RuleTypes, NoticeTypes, AlertTypes, Inserted,
     A!Fingerprint
<1>2. CASE A!Evaluate
  <2>1. RuleTypes'
    BY <1>2, RulesStep
  <2>2. UNCHANGED <<alertPlan, alertNow, alertRows, cache, alertCall, A!notifier>>
    BY <1>2, EvaluateLeaves
  <2> QED
    BY <2>1, <2>2 DEF A!notifier, AlertInv, NoticeTypes, AlertTypes, Inserted, A!Fingerprint
<1>3. ASSUME NEW c \in AlertCalls, A!Process(c)
      PROVE  AlertInv'
  <2>1. UNCHANGED A!evaluator
    BY <1>3 DEF A!Process, A!ProcessAlert, A!CreateAlert, A!StoreAlert, A!UpdateAlert, A!ResolveAlert,
       A!Uncache, A!ChangeRow, A!Announced, A!SendNotification, A!RowsOnly, A!OthersKeep
  <2>2. RuleTypes'
    BY <2>1 DEF A!evaluator, AlertInv, RuleTypes
  <2>3. AlertTypes' /\ Inserted'
    BY <1>3, ProcessStep, CreateStep, StoreStep, UpdateStep, ResolveStep, UncacheStep, HandlerStep,
       AnnouncedStep, SendingStep DEF A!Process
  <2>4. NoticeTypes'
    <3>1. (\E ch \in Channels : A!SendNotification(c, ch)) \/ UNCHANGED A!notifier
      BY <1>3 DEF A!Process, A!ProcessAlert, A!CreateAlert, A!StoreAlert, A!UpdateAlert, A!ResolveAlert,
         A!Uncache, A!ChangeRow, A!Announced, A!RowsOnly
    <3>2. CASE UNCHANGED A!notifier
      BY <3>2 DEF A!notifier, AlertInv, NoticeTypes
    <3> QED
      BY <3>1, <3>2, SendingStep
  <2> QED
    BY <2>2, <2>3, <2>4 DEF AlertInv
<1>4. ASSUME NEW w \in Notifiers \union {"retry"}, A!Notify(w)
      PROVE  AlertInv'
  <2>1. NoticeTypes'
    BY <1>4, NoticesStep
  <2>2. UNCHANGED <<alertPlan, alertNow, A!evaluator, alertRows, cache, alertCall>>
    BY <1>4, NotifyLeaves
  <2> QED
    BY <2>1, <2>2 DEF A!evaluator, AlertInv, RuleTypes, AlertTypes, Inserted, A!Fingerprint
<1>5. CASE A!Tick
  <2>1. alertNow' \in 0 .. MaxAlertTime
    BY <1>5, AlertAssumption DEF A!Tick, AlertInv, AlertTypes
  <2> QED
    BY <1>5, <2>1 DEF A!Tick, A!evaluator, A!notifier, AlertInv, RuleTypes, NoticeTypes, AlertTypes,
       Inserted, A!Fingerprint
<1> QED
  BY <1>1, <1>2, <1>3, <1>4, <1>5 DEF A!Next

\* A step moves one call at most.
LEMMA OneCallMoves ==
  ASSUME AlertInv, [A!Next]_(A!vars)
  PROVE  alertPlan' = alertPlan /\ \A d, e \in AlertCalls : d # e => alertCall'[d] = alertCall[d] \/ alertCall'[e] = alertCall[e]
<1>2. ASSUME NEW c \in AlertCalls, A!Process(c)
      PROVE  alertPlan' = alertPlan /\ \A d \in AlertCalls \ {c} : alertCall'[d] = alertCall[d]
  BY <1>2 DEF A!Process, A!ProcessAlert, A!CreateAlert, A!StoreAlert, A!UpdateAlert, A!ResolveAlert,
     A!Uncache, A!ChangeRow, A!Announced, A!SendNotification, A!RowsOnly, A!OthersKeep, A!Goto, A!Announce,
     A!Finish, AlertInv, AlertTypes
<1>3. (alertCall' = alertCall /\ alertPlan' = alertPlan) \/ \E c \in AlertCalls : A!Process(c)
  BY EvaluateLeaves, NotifyLeaves DEF A!Next, A!vars, A!Tick
<1> QED
  BY <1>2, <1>3

\* While a call has inserted the row of a fingerprint, no other inserts it.
LEMMA CreatesOnce ==
  ASSUME AlertInv, [A!Next]_(A!vars)
  PROVE  \A c, d \in AlertCalls : c # d /\ A!Fingerprint(c) = A!Fingerprint(d) /\ alertCall[c].pc = "cache"
           => alertCall'[d].pc # "cache"
<1>1. AlertInv'
  BY AlertNext
<1>2. alertPlan' = alertPlan /\ \A d, e \in AlertCalls : d # e => alertCall'[d] = alertCall[d] \/ alertCall'[e] = alertCall[e]
  BY OneCallMoves
<1>3. \A c : A!Fingerprint(c)' = A!Fingerprint(c)
  BY <1>2, PlanIsFixed
<1> SUFFICES ASSUME NEW c \in AlertCalls, NEW d \in AlertCalls, c # d, A!Fingerprint(c) = A!Fingerprint(d),
                    alertCall[c].pc = "cache", alertCall'[d].pc = "cache"
             PROVE  FALSE
  OBVIOUS
<1>4. alertCall[d].pc # "cache"
  BY DEF AlertInv, Inserted
<1>5. alertCall'[c] = alertCall[c]
  BY <1>2, <1>4, Zenon
<1> QED
  BY <1>1, <1>3, <1>5 DEF AlertInv, Inserted

\* The invariant gives the types of alerting.
LEMMA AlertShows ==
  ASSUME AlertInv
  PROVE  A!TypeOK
<1>1. \A c \in AlertCalls : alertCall[c].pc \in {"idle", "insert", "cache", "announce", "save", "uncache", "done"}
  BY DEF AlertInv, AlertTypes, AlertCallStates
<1> QED
  BY <1>1 DEF A!TypeOK, AlertInv, RuleTypes, NoticeTypes, AlertTypes, RuleRows

-----------------------------------------------------------------------------
(* The scheduler of tasks.                                                 *)

Entries == [id : Nat, task : Tasks, expr : Schedules]
Steps == {"idle", "groups", "store", "remove", "add", "register", "delete", "dispatch", "done"}
Progress == [step : Steps, row : TaskRowSet, enabled : BOOLEAN, loaded : SUBSET Groups,
             todo : SUBSET [bind : BOOLEAN, group : Groups], job : SUBSET Entries]

OfItsCall(r) ==
  /\ T!InFlight(r) => T!Call(r).task \in Tasks
  /\ taskRequest[r].step = "groups" => T!Call(r).op = "update"

SchedTypes ==
  /\ taskPlan \in TaskPlans
  /\ taskRows \in [Tasks -> TaskRowSet]
  /\ bound \subseteq Tasks \X Groups /\ groups \subseteq Groups
  /\ entries \subseteq Entries /\ IsFiniteSet(entries) /\ \A e \in entries : T!Valid(e.expr)
  /\ taskRequest \in [TaskRequests -> Progress]
  /\ taskCrossed \subseteq Tasks
  /\ \A r \in TaskRequests : OfItsCall(r)

\* Entries, the registry and the jobs that are still to be registered.
Registered ==
  /\ \A e, f \in entries : e.id = f.id => e = f
  /\ \A j \in registry : \E e \in entries : j = T!Job(e)
  /\ \A e \in entries : T!Job(e) \in registry \/ \E r \in TaskRequests : e \in taskRequest[r].job
  /\ \A r \in TaskRequests :
       /\ taskRequest[r].step # "register" => taskRequest[r].job = {}
       /\ \A e \in taskRequest[r].job : e \in entries /\ T!Job(e) \notin registry /\ e.task = T!Call(r).task
  /\ \A r, q \in TaskRequests : r # q => taskRequest[r].job \cap taskRequest[q].job = {}

Changing(r) == taskRequest[r].step \notin {"idle", "dispatch", "done"}
AtMostOne(t) == \A e, f \in T!EntriesOf(t) : e = f
Settled(t) == AtMostOne(t) /\ \A e \in T!EntriesOf(t) : T!Live(t) /\ e.expr = taskRows[t].expr
InStep(r) ==
  LET t == T!Call(r).task
      s == taskRequest[r].step
  IN /\ s \in {"groups", "store", "register"} => T!Live(t) /\ Settled(t)
     /\ s = "store" /\ T!Call(r).op = "reset" => taskRequest[r].row.expr = taskRows[t].expr
     /\ s \in {"remove", "add"} => T!Live(t) /\ AtMostOne(t) /\ taskRequest[r].row.expr = taskRows[t].expr
     /\ s \in {"add", "delete"} => T!EntriesOf(t) = {}

Followed ==
  /\ \A r, q \in TaskRequests : r # q /\ Changing(r) /\ Changing(q) /\ T!Call(r).task = T!Call(q).task
                              => T!Call(r).task \in taskCrossed
  /\ \A r \in TaskRequests : Changing(r) /\ T!Call(r).task \notin taskCrossed => InStep(r)
  /\ \A t \in Tasks \ taskCrossed : (\A r \in TaskRequests : Changing(r) => T!Call(r).task # t) => Settled(t)

SchedInv == SchedTypes /\ Registered /\ Followed

\* A request stays what it is.
LEMMA TaskPlanIsFixed ==
  ASSUME taskPlan' = taskPlan, NEW r
  PROVE  T!Call(r)' = T!Call(r)
BY DEF T!Call

\* What a request carries is known.
LEMMA CallsAreOK ==
  ASSUME SchedTypes, NEW r \in TaskRequests
  PROVE  CallOK(T!Call(r))
BY TaskAssumption DEF SchedTypes, T!Call

\* A request that goes on to a step keeps what it carries.
LEMMA StepField ==
  ASSUME NEW p \in Progress, NEW s \in Steps
  PROVE  /\ [p EXCEPT !.step = s] \in Progress
         /\ [p EXCEPT !.step = s].step = s /\ [p EXCEPT !.step = s].job = p.job
         /\ [p EXCEPT !.step = s].row = p.row /\ [p EXCEPT !.step = s].enabled = p.enabled
         /\ [p EXCEPT !.step = s].todo = p.todo /\ [p EXCEPT !.step = s].loaded = p.loaded
BY DEF Progress

\* A request that has not begun, or has ended, carries nothing.
LEMMA IdleFields ==
  /\ T!Idle \in Progress
  /\ T!Idle.step = "idle" /\ T!Idle.job = {} /\ T!Idle.row = T!NoRow
  /\ T!NoRow \in TaskRowSet
  /\ [T!Idle EXCEPT !.step = "done"] \in Progress
  /\ [T!Idle EXCEPT !.step = "done"].step = "done" /\ [T!Idle EXCEPT !.step = "done"].job = {}
<1>1. T!NoRow \in TaskRowSet
  BY DEF T!NoRow, TaskRowSet, Schedules
<1>2. T!Idle \in Progress
  BY <1>1 DEF T!Idle, Progress, Steps
<1>3. T!Idle.step = "idle" /\ T!Idle.job = {} /\ T!Idle.row = T!NoRow
  BY DEF T!Idle
<1>4. "done" \in Steps
  BY DEF Steps
<1> QED
  BY <1>1, <1>2, <1>3, <1>4, StepField

\* A step of one request about one task: the jobs of the other tasks still follow their rows.
LEMMA LocalStep ==
  ASSUME SchedInv, taskPlan' = taskPlan, NEW r \in TaskRequests, NEW u, u = T!Call(r).task,
         \A q \in TaskRequests \ {r} : taskRequest'[q] = taskRequest[q],
         \A v \in Tasks \ {u} : taskRows'[v] = taskRows[v],
         \A e : e.task # u => ((e \in entries') <=> (e \in entries)),
         taskCrossed \subseteq taskCrossed',
         \/ Changing(r)
         \/ \A q \in TaskRequests \ {r} : Changing(q) /\ T!Call(q).task = u => u \in taskCrossed'
         \/ taskRows' = taskRows /\ entries' = entries /\ ~Changing(r)',
         u \notin taskCrossed' /\ Changing(r)' => InStep(r)',
         u \in Tasks /\ u \notin taskCrossed' /\ Changing(r) /\ ~Changing(r)' => Settled(u)',
         ~Changing(r) /\ ~Changing(r)' => (taskRows' = taskRows /\ entries' = entries)
  PROVE  Followed'
<1>0. \A q : T!Call(q)' = T!Call(q)
  BY TaskPlanIsFixed
<1>1. \A q \in TaskRequests \ {r} : Changing(q)' = Changing(q)
  BY DEF Changing
<1>2. \A q \in TaskRequests : Changing(q) => T!Call(q).task \in Tasks
  BY DEF SchedInv, SchedTypes, OfItsCall, Changing, T!InFlight
<1>3. \A v \in Tasks \ {u} : T!EntriesOf(v)' = T!EntriesOf(v)
  BY DEF T!EntriesOf
<1>4. \A v \in Tasks \ {u} : Settled(v)' = Settled(v) /\ T!Live(v)' = T!Live(v) /\ AtMostOne(v)' = AtMostOne(v)
  BY <1>3 DEF Settled, AtMostOne, T!Live
<1>5. \A q \in TaskRequests \ {r} : Changing(q) /\ T!Call(q).task # u => InStep(q)' = InStep(q)
  <2> SUFFICES ASSUME NEW q \in TaskRequests \ {r}, Changing(q), T!Call(q).task # u
               PROVE  InStep(q)' = InStep(q)
    OBVIOUS
  <2>1. T!Call(q).task \in Tasks \ {u}
    BY <1>2
  <2> QED
    BY <2>1, <1>0, <1>3, <1>4 DEF InStep
<1>6. \A q \in TaskRequests \ {r} : Changing(q) /\ T!Call(q).task = u /\ Changing(r) => u \in taskCrossed
  BY DEF SchedInv, Followed
<1>7. ASSUME NEW p \in TaskRequests, NEW q \in TaskRequests, p # q, Changing(p)', Changing(q)',
             T!Call(p)'.task = T!Call(q)'.task
      PROVE  T!Call(p)'.task \in taskCrossed'
  <2>1. CASE p # r /\ q # r
    BY <2>1, <1>0, <1>1, <1>7 DEF SchedInv, Followed
  <2>2. CASE p = r
    BY <2>2, <1>0, <1>1, <1>6, <1>7
  <2>3. CASE q = r
    BY <2>3, <1>0, <1>1, <1>6, <1>7
  <2> QED
    BY <2>1, <2>2, <2>3
<1>8. ASSUME NEW q \in TaskRequests, Changing(q)', T!Call(q)'.task \notin taskCrossed'
      PROVE  InStep(q)'
  <2>1. CASE q = r
    BY <2>1, <1>0, <1>8
  <2>2. CASE q # r /\ T!Call(q).task # u
    BY <2>2, <1>0, <1>1, <1>5, <1>8 DEF SchedInv, Followed
  <2>3. CASE q # r /\ T!Call(q).task = u
    <3>1. ~Changing(r) /\ taskRows' = taskRows /\ entries' = entries
      BY <2>3, <1>0, <1>1, <1>6, <1>8
    <3>2. InStep(q)
      BY <2>3, <1>0, <1>1, <1>8 DEF SchedInv, Followed
    <3> QED
      BY <3>1, <3>2, <2>3, <1>0 DEF InStep, Settled, AtMostOne, T!EntriesOf, T!Live
  <2> QED
    BY <2>1, <2>2, <2>3
<1>9. ASSUME NEW v \in Tasks \ taskCrossed', \A q \in TaskRequests : Changing(q)' => T!Call(q)'.task # v
      PROVE  Settled(v)'
  <2>1. CASE v # u
    <3>1. \A q \in TaskRequests : Changing(q) => T!Call(q).task # v
      BY <2>1, <1>0, <1>1, <1>9
    <3> QED
      BY <2>1, <3>1, <1>4 DEF SchedInv, Followed
  <2>2. CASE v = u
    <3>1. ~Changing(r)'
      BY <2>2, <1>0, <1>9
    <3>2. CASE Changing(r)
      BY <2>2, <3>1, <3>2, <1>9
    <3>3. CASE ~Changing(r)
      <4>1. taskRows' = taskRows /\ entries' = entries
        BY <3>1, <3>3
      <4>2. \A q \in TaskRequests : Changing(q) => T!Call(q).task # v
        BY <3>3, <1>0, <1>1, <1>9
      <4>3. Settled(v)
        BY <4>2 DEF SchedInv, Followed
      <4> QED
        BY <4>1, <4>3 DEF Settled, AtMostOne, T!EntriesOf, T!Live
    <3> QED
      BY <3>2, <3>3
  <2> QED
    BY <2>1, <2>2
<1> QED
  BY <1>7, <1>8, <1>9, <1>0 DEF Followed

\* Where entries and registry stay, they still belong to each other.
LEMMA SameEntries ==
  ASSUME SchedInv, taskPlan' = taskPlan, entries' = entries, registry' = registry,
         \A q \in TaskRequests : /\ taskRequest'[q].job = taskRequest[q].job
                                 /\ taskRequest[q].step = "register" <=> taskRequest'[q].step = "register"
  PROVE  Registered'
<1>1. \A q : T!Call(q)' = T!Call(q)
  BY TaskPlanIsFixed
<1> QED
  BY <1>1 DEF SchedInv, Registered

\* RemoveTask takes the jobs of a task out of the library and of the registry.
LEMMA RemovingJobs ==
  ASSUME SchedInv, taskPlan' = taskPlan, NEW t, T!RemoveTask(t),
         \A q \in TaskRequests : /\ taskRequest'[q].job = taskRequest[q].job
                                 /\ taskRequest[q].step = "register" <=> taskRequest'[q].step = "register"
  PROVE  /\ Registered'
         /\ entries' \subseteq entries /\ registry' \subseteq registry
         /\ \A e : e.task # t => ((e \in entries') <=> (e \in entries))
         /\ AtMostOne(t) /\ (\A q \in TaskRequests : \A e \in taskRequest[q].job : e.task # t)
              => T!EntriesOf(t)' = {}
<1>1. \A q : T!Call(q)' = T!Call(q)
  BY TaskPlanIsFixed
<1>2. CASE (\A j \in registry : j.task # t) /\ UNCHANGED <<entries, registry>>
  <2>1. Registered'
    BY <1>1, <1>2, SameEntries
  <2>2. ASSUME \A q \in TaskRequests : \A e \in taskRequest[q].job : e.task # t, NEW e \in entries
        PROVE  e.task # t
    <3>1. CASE T!Job(e) \in registry
      BY <1>2, <3>1 DEF T!Job
    <3>2. CASE \E q \in TaskRequests : e \in taskRequest[q].job
      BY <2>2, <3>2
    <3> QED
      BY <3>1, <3>2 DEF SchedInv, Registered
  <2> QED
    BY <1>2, <2>1, <2>2 DEF T!EntriesOf
<1>3. ASSUME NEW j \in registry, j.task = t, registry' = registry \ {j},
             entries' = {e \in entries : e.id # j.id}
      PROVE  /\ Registered'
             /\ entries' \subseteq entries /\ registry' \subseteq registry
             /\ \A e : e.task # t => ((e \in entries') <=> (e \in entries))
             /\ AtMostOne(t) /\ (\A q \in TaskRequests : \A e \in taskRequest[q].job : e.task # t)
                  => T!EntriesOf(t)' = {}
  <2>1. PICK f \in entries : j = T!Job(f)
    BY DEF SchedInv, Registered
  <2>2. j.id = f.id /\ j.task = f.task
    BY <2>1 DEF T!Job
  <2>3. \A e \in entries : e.id = j.id => e = f
    BY <2>2 DEF SchedInv, Registered
  <2>4. entries' = entries \ {f}
    BY <2>2, <2>3, <1>3
  <2>5. \A e \in entries' : T!Job(e) # j
    <3> SUFFICES ASSUME NEW e \in entries' PROVE T!Job(e).id # j.id
      OBVIOUS
    <3> QED
      BY <1>3 DEF T!Job
  <2>6. \A i \in registry' : \E e \in entries' : i = T!Job(e)
    <3> SUFFICES ASSUME NEW i \in registry' PROVE \E e \in entries' : i = T!Job(e)
      OBVIOUS
    <3>1. PICK e \in entries : i = T!Job(e)
      BY <1>3 DEF SchedInv, Registered
    <3>2. e # f
      BY <3>1, <2>1, <1>3
    <3> QED
      BY <3>1, <3>2, <2>4
  <2>7. \A e \in entries' : T!Job(e) \in registry' \/ \E r \in TaskRequests : e \in taskRequest'[r].job
    BY <2>4, <2>5, <1>3 DEF SchedInv, Registered
  <2>8. ASSUME NEW r \in TaskRequests
        PROVE  /\ taskRequest'[r].step # "register" => taskRequest'[r].job = {}
               /\ \A e \in taskRequest'[r].job :
                    e \in entries' /\ T!Job(e) \notin registry' /\ e.task = T!Call(r)'.task
    <3>1. \A e \in taskRequest[r].job : e \in entries /\ T!Job(e) \notin registry /\ e.task = T!Call(r).task
      BY DEF SchedInv, Registered
    <3>2. \A e \in taskRequest[r].job : e # f
      BY <3>1, <2>1, <1>3
    <3>3. taskRequest[r].step # "register" => taskRequest[r].job = {}
      BY DEF SchedInv, Registered
    <3> QED
      BY <3>1, <3>2, <3>3, <2>4, <1>1, <1>3
  <2>9. Registered'
    <3>1. \A e, g \in entries' : e.id = g.id => e = g
      BY <2>4 DEF SchedInv, Registered
    <3>2. \A r, q \in TaskRequests : r # q => taskRequest'[r].job \cap taskRequest'[q].job = {}
      BY DEF SchedInv, Registered
    <3> QED
      BY <2>6, <2>7, <2>8, <3>1, <3>2 DEF Registered
  <2>10. \A e : e.task # t => ((e \in entries') <=> (e \in entries))
    BY <2>2, <2>4, <1>3
  <2>11. AtMostOne(t) => T!EntriesOf(t)' = {}
    <3> SUFFICES ASSUME AtMostOne(t), NEW e \in entries', e.task = t PROVE FALSE
      BY DEF T!EntriesOf
    <3>1. e \in entries /\ e # f
      BY <2>4
    <3>2. e \in T!EntriesOf(t) /\ f \in T!EntriesOf(t)
      BY <3>1, <2>2, <1>3 DEF T!EntriesOf
    <3> QED
      BY <3>1, <3>2 DEF AtMostOne
  <2> QED
    BY <2>4, <2>9, <2>10, <2>11, <1>3
<1> QED
  BY <1>2, <1>3 DEF T!RemoveTask

\* The library numbers an entry anew.
LEMMA FreshId ==
  ASSUME SchedInv
  PROVE  /\ T!NextId \in Nat
         /\ \A e \in entries : e.id # T!NextId
<1> DEFINE N == Cardinality(entries) + Cardinality(TaskRequests) + 1
           ids == {e.id : e \in entries}
<1>1. IsFiniteSet(entries) /\ Cardinality(entries) \in Nat /\ Cardinality(TaskRequests) \in Nat
  BY TaskAssumption, FS_CardinalityType DEF SchedInv, SchedTypes
<1>2. IsFiniteSet(ids) /\ Cardinality(ids) <= Cardinality(entries)
  <2> DEFINE f == [e \in entries |-> e.id]
  <2>1. f \in Surjection(entries, ids)
    BY DEF Surjection
  <2> QED
    BY <2>1, <1>1, FS_Surjection
<1>3. Cardinality(ids) \in Nat
  BY <1>2, FS_CardinalityType
<1>4. N \in Nat /\ N > Cardinality(entries)
  BY <1>1
<1>5. Cardinality(1..N) = N /\ IsFiniteSet(1..N)
  <2> HIDE DEF N
  <2>1. Cardinality(1..N) = IF 1 > N THEN 0 ELSE N - 1 + 1
    BY <1>4, FS_Interval
  <2> QED
    BY <2>1, <1>4, FS_Interval
<1>6. \E n \in 1..N : n \notin ids
  <2> SUFFICES ASSUME 1..N \subseteq ids PROVE FALSE
    OBVIOUS
  <2>1. Cardinality(1..N) <= Cardinality(ids)
    BY <1>2, FS_Subset
  <2> HIDE DEF N, ids
  <2> QED
    BY <2>1, <1>1, <1>2, <1>3, <1>4, <1>5
<1>7. \E n \in 1..N : \A e \in entries : e.id # n
  BY <1>6
<1>8. T!NextId \in 1..N /\ \A e \in entries : e.id # T!NextId
  BY <1>7, SameCount DEF T!NextId
<1> QED
  BY <1>1, <1>8

\* Initialize makes one entry of each enabled row whose schedule is valid.
LEMMA LoadedJobs ==
  ASSUME NEW tab \in [Tasks -> TaskRowSet]
  PROVE  /\ T!Load(tab) \subseteq Entries /\ IsFiniteSet(T!Load(tab))
         /\ \A e \in T!Load(tab) : T!Valid(e.expr) /\ ~tab[e.task].gone /\ e.expr = tab[e.task].expr
         /\ \A e, f \in T!Load(tab) : e.id = f.id \/ e.task = f.task => e = f
<1> DEFINE on == {t \in Tasks : ~tab[t].gone /\ T!Valid(tab[t].expr)}
           upTo(t) == {u \in on : u <= t}
           entry(t) == [id |-> Cardinality(upTo(t)), task |-> t, expr |-> tab[t].expr]
<1>1. T!Load(tab) = {entry(t) : t \in on}
  BY SameCount DEF T!Load
<1>2. IsFiniteSet(on) /\ on \subseteq Int
  BY TaskAssumption, FS_Subset
<1>3. \A t \in on : IsFiniteSet(upTo(t)) /\ Cardinality(upTo(t)) \in Nat
  <2> SUFFICES ASSUME NEW t \in on PROVE IsFiniteSet(upTo(t)) /\ Cardinality(upTo(t)) \in Nat
    OBVIOUS
  <2>1. IsFiniteSet(upTo(t))
    <3>1. upTo(t) \subseteq on
      OBVIOUS
    <3> QED
      BY <3>1, <1>2, FS_Subset
  <2> QED
    BY <2>1, FS_CardinalityType
<1>4. ASSUME NEW t \in on, NEW u \in on, t < u
      PROVE  Cardinality(upTo(t)) < Cardinality(upTo(u))
  <2>1. u \notin upTo(t) /\ upTo(t) \cup {u} \subseteq upTo(u)
    BY <1>2, <1>4
  <2> HIDE DEF upTo
  <2>2. Cardinality(upTo(t) \cup {u}) = Cardinality(upTo(t)) + 1
    BY <2>1, <1>3, FS_AddElement
  <2>3. Cardinality(upTo(t) \cup {u}) <= Cardinality(upTo(u))
    BY <2>1, <1>3, FS_Subset
  <2>4. Cardinality(upTo(t)) \in Nat /\ Cardinality(upTo(u)) \in Nat
    BY <1>3
  <2> QED
    BY <2>2, <2>3, <2>4
<1>5. \A t, u \in on : Cardinality(upTo(t)) = Cardinality(upTo(u)) => t = u
  <2> SUFFICES ASSUME NEW t \in on, NEW u \in on, t # u
               PROVE  Cardinality(upTo(t)) # Cardinality(upTo(u))
    OBVIOUS
  <2>1. t < u \/ u < t
    BY <1>2
  <2>2. Cardinality(upTo(t)) \in Nat /\ Cardinality(upTo(u)) \in Nat
    BY <1>3
  <2>3. CASE t < u
    <3>1. Cardinality(upTo(t)) < Cardinality(upTo(u))
      BY <2>3, <1>4
    <3> QED
      BY <3>1, <2>2
  <2>4. CASE u < t
    <3>1. Cardinality(upTo(u)) < Cardinality(upTo(t))
      BY <2>4, <1>4
    <3> QED
      BY <3>1, <2>2
  <2> QED
    BY <2>1, <2>3, <2>4
<1>6. T!Load(tab) \subseteq Entries
  <2> SUFFICES ASSUME NEW t \in on PROVE entry(t) \in Entries
    BY <1>1
  <2>1. Cardinality(upTo(t)) \in Nat
    BY <1>3
  <2>2. tab[t].expr \in Schedules
    BY DEF TaskRowSet
  <2> QED
    BY <2>1, <2>2 DEF Entries
<1>7. IsFiniteSet({entry(t) : t \in on})
  <2> DEFINE f == [t \in on |-> entry(t)]
             U == {entry(t) : t \in on}
  <2>1. f \in Surjection(on, U)
    <3> HIDE DEF entry, on
    <3> QED
      BY DEF Surjection
  <2> HIDE DEF f, U, on
  <2>2. IsFiniteSet(U)
    BY <2>1, <1>2, FS_Surjection
  <2> QED
    BY <2>2 DEF U
<1>8. \A e \in T!Load(tab) : T!Valid(e.expr) /\ ~tab[e.task].gone /\ e.expr = tab[e.task].expr
  <2> HIDE DEF upTo
  <2> QED
    BY <1>1
<1>9. \A e, f \in T!Load(tab) : e.id = f.id \/ e.task = f.task => e = f
  <2> HIDE DEF upTo, on
  <2> QED
    BY <1>1, <1>5
<1> QED
  BY <1>1, <1>6, <1>7, <1>8, <1>9

\* The state just after a load: no change of a task is on the way.
LEMMA AfterLoad ==
  ASSUME SchedTypes, NEW tab \in [Tasks -> TaskRowSet], taskRows = tab, entries = T!Load(tab),
         registry = {T!Job(e) : e \in entries},
         \A r \in TaskRequests : ~Changing(r) /\ taskRequest[r].job = {}
  PROVE  SchedInv
<1>1. Registered
  <2>1. \A e, f \in entries : e.id = f.id => e = f
    BY LoadedJobs
  <2>2. \A r \in TaskRequests : taskRequest[r].job = {}
    OBVIOUS
  <2> QED
    BY <2>1, <2>2 DEF Registered
<1>2. \A t \in Tasks : Settled(t)
  BY LoadedJobs DEF Settled, AtMostOne, T!EntriesOf, T!Live
<1> QED
  BY <1>1, <1>2 DEF SchedInv, Followed

\* At the start the jobs are those of the rows.
LEMMA SchedInit ==
  ASSUME T!Init
  PROVE  SchedInv
<1>1. /\ taskPlan \in TaskPlans /\ taskPlan.rows \in [Tasks -> TaskRowSet]
      /\ taskPlan.bound \subseteq Tasks \X Groups
  BY TaskAssumption DEF T!Init
<1>2. \A r \in TaskRequests : taskRequest[r] = T!Idle
  BY DEF T!Init
<1>3. \A r \in TaskRequests : ~Changing(r) /\ ~T!InFlight(r) /\ taskRequest[r].job = {}
  BY <1>2, IdleFields DEF Changing, T!InFlight
<1>4. taskRequest \in [TaskRequests -> Progress]
  BY IdleFields DEF T!Init
<1>5. SchedTypes
  <2>1. entries \subseteq Entries /\ IsFiniteSet(entries) /\ \A e \in entries : T!Valid(e.expr)
    BY <1>1, LoadedJobs DEF T!Init
  <2> QED
    BY <2>1, <1>1, <1>3, <1>4 DEF SchedTypes, T!Init, OfItsCall, Changing
<1> QED
  BY <1>1, <1>3, <1>5, AfterLoad DEF T!Init

\* A restart drops the requests and loads the rows.
LEMMA RestartKeeps ==
  ASSUME SchedInv, T!Restart
  PROVE  SchedInv'
<1>1. /\ taskPlan' = taskPlan /\ taskRows' = taskRows /\ taskRows \in [Tasks -> TaskRowSet]
      /\ entries' = T!Load(taskRows)
      /\ registry' = {T!Job(e) : e \in entries'} /\ taskCrossed' = {}
  BY DEF T!Restart, SchedInv, SchedTypes
<1>2. \A r \in TaskRequests : taskRequest'[r] = IF T!InFlight(r) THEN [T!Idle EXCEPT !.step = "done"] ELSE taskRequest[r]
  BY DEF T!Restart
<1>3. ASSUME NEW r \in TaskRequests
      PROVE  ~Changing(r)' /\ ~T!InFlight(r)' /\ taskRequest'[r].job = {} /\ taskRequest'[r] \in Progress
  <2>1. CASE T!InFlight(r)
    BY <2>1, <1>2, IdleFields DEF Changing, T!InFlight
  <2>2. CASE ~T!InFlight(r)
    <3>1. /\ taskRequest'[r] = taskRequest[r] /\ taskRequest[r] \in Progress
          /\ taskRequest[r].step \in {"idle", "done"}
      BY <2>2, <1>2 DEF SchedInv, SchedTypes, T!InFlight
    <3>2. taskRequest[r].job = {}
      BY <3>1 DEF SchedInv, Registered
    <3> QED
      BY <3>1, <3>2 DEF Changing, T!InFlight
  <2> QED
    BY <2>1, <2>2
<1>4. SchedTypes'
  <2>1. taskRequest' \in [TaskRequests -> Progress]
    BY <1>3 DEF T!Restart
  <2>2. entries' \subseteq Entries /\ IsFiniteSet(entries') /\ \A e \in entries' : T!Valid(e.expr)
    BY <1>1, LoadedJobs
  <2> QED
    BY <2>1, <2>2, <1>1, <1>3 DEF SchedTypes, SchedInv, T!Restart, OfItsCall, Changing
<1>5. Registered'
  <2>1. \A e, f \in entries' : e.id = f.id => e = f
    BY <1>1, LoadedJobs
  <2> QED
    BY <2>1, <1>1, <1>3 DEF Registered
<1>6. \A t \in Tasks : Settled(t)'
  BY <1>1, LoadedJobs DEF Settled, AtMostOne, T!EntriesOf, T!Live
<1> QED
  BY <1>3, <1>4, <1>5, <1>6 DEF SchedInv, Followed

\* No entry runs for a task without a row that no change of it is on the way.
LEMMA NothingOfTheGone ==
  ASSUME SchedInv, NEW t \in Tasks \ taskCrossed, \A r \in TaskRequests : Changing(r) => T!Call(r).task # t
  PROVE  Settled(t) /\ (~T!Live(t) => T!EntriesOf(t) = {})
BY DEF SchedInv, Followed, Settled

\* A request begins: another change of its task marks the task.
LEMMA Beginning ==
  ASSUME SchedInv, NEW r \in TaskRequests, NEW op, T!Begin(r, op), op # "dropgroup"
  PROVE  /\ T!Call(r).task \in Tasks /\ T!Call(r).op = op /\ taskRequest[r].step = "idle" /\ taskRequest[r].job = {}
         /\ ~Changing(r) /\ taskCrossed \subseteq taskCrossed' /\ taskCrossed' \subseteq Tasks
         /\ \A q \in TaskRequests : Changing(q) /\ T!Call(q).task = T!Call(r).task => T!Call(r).task \in taskCrossed'
<1>1. T!Call(r).op = op /\ taskRequest[r].step = "idle"
  BY DEF T!Begin
<1>2. T!Call(r).task \in Tasks
  BY <1>1, CallsAreOK DEF CallOK, SchedInv
<1>3. taskRequest[r].job = {}
  BY <1>1 DEF SchedInv, Registered
<1>4. ~Changing(r)
  BY <1>1 DEF Changing
<1>5. taskCrossed \subseteq taskCrossed' /\ taskCrossed' \subseteq Tasks
  BY <1>2 DEF T!Begin, SchedInv, SchedTypes
<1>6. ASSUME NEW q \in TaskRequests, Changing(q), T!Call(q).task = T!Call(r).task
      PROVE  T!Call(r).task \in taskCrossed'
  <2>1. q # r /\ T!InFlight(q)
    BY <1>4, <1>6 DEF Changing, T!InFlight
  <2> QED
    BY <2>1, <1>6 DEF T!Begin
<1> QED
  BY <1>1, <1>2, <1>3, <1>4, <1>5, <1>6

\* A step of one request leaves the others where they are.
LEMMA OneRequest ==
  ASSUME SchedTypes, NEW r \in TaskRequests, NEW y \in Progress,
         taskRequest' = [taskRequest EXCEPT ![r] = y]
  PROVE  /\ taskRequest' \in [TaskRequests -> Progress] /\ taskRequest'[r] = y
         /\ \A q \in TaskRequests \ {r} : taskRequest'[q] = taskRequest[q]
BY DEF SchedTypes

\* The requests that are at work still have their tasks.
LEMMA StillInFlight ==
  ASSUME SchedTypes, taskPlan' = taskPlan, NEW r \in TaskRequests,
         T!Call(r).task \in Tasks \/ ~T!InFlight(r)',
         taskRequest'[r].step = "groups" => T!Call(r).op = "update",
         \A q \in TaskRequests \ {r} : taskRequest'[q] = taskRequest[q]
  PROVE  \A q \in TaskRequests : OfItsCall(q)'
<1>1. \A q : T!Call(q)' = T!Call(q)
  BY TaskPlanIsFixed
<1> QED
  BY <1>1 DEF SchedTypes, OfItsCall, T!InFlight

\* CreateTask inserts the row of a task.
LEMMA TaskCreateStep ==
  ASSUME SchedInv, NEW r \in TaskRequests, T!CreateTask(r)
  PROVE  SchedInv'
<1> DEFINE t == T!Call(r).task
           w == [expr |-> T!Call(r).expr, gone |-> FALSE]
           d == {[bind |-> TRUE, group |-> g] : g \in T!Call(r).groups}
           y == [T!Idle EXCEPT !.step = "add", !.row = w, !.enabled = TRUE, !.todo = d]
<1>1. /\ t \in Tasks /\ T!Call(r).op = "create" /\ taskRequest[r].step = "idle" /\ taskRequest[r].job = {}
      /\ ~Changing(r) /\ taskCrossed \subseteq taskCrossed' /\ taskCrossed' \subseteq Tasks
      /\ \A q \in TaskRequests : Changing(q) /\ T!Call(q).task = t => t \in taskCrossed'
  BY Beginning DEF T!CreateTask
<1>2. T!Call(r).expr \in Schedules /\ T!Call(r).groups \subseteq Groups
  BY <1>1, CallsAreOK DEF CallOK, SchedInv
<1>3. taskRows[t] = T!NoRow /\ taskRows' = [taskRows EXCEPT ![t] = w] /\ taskRows \in [Tasks -> TaskRowSet]
  BY DEF T!CreateTask, SchedInv, SchedTypes
<1>4. w \in TaskRowSet /\ taskRows' \in [Tasks -> TaskRowSet] /\ taskRows'[t] = w
      /\ \A v \in Tasks \ {t} : taskRows'[v] = taskRows[v]
  BY <1>1, <1>2, <1>3 DEF TaskRowSet
<1>5. d \subseteq [bind : BOOLEAN, group : Groups]
  <2> SUFFICES ASSUME NEW g \in T!Call(r).groups
               PROVE  [bind |-> TRUE, group |-> g] \in [bind : BOOLEAN, group : Groups]
    OBVIOUS
  <2> QED
    BY <1>2
<1>6. y \in Progress /\ y.step = "add" /\ y.row = w /\ y.job = {} /\ y.todo = d
  <2> HIDE DEF w, d
  <2> QED
    BY <1>4, <1>5 DEF Progress, Steps, T!Idle
<1>7. taskRequest' = [taskRequest EXCEPT ![r] = y]
  BY <1>4 DEF T!CreateTask
<1> HIDE DEF y, d
<1>8. taskRequest' \in [TaskRequests -> Progress] /\ taskRequest'[r] = y
      /\ \A q \in TaskRequests \ {r} : taskRequest'[q] = taskRequest[q]
  BY <1>6, <1>7, OneRequest DEF SchedInv
<1>9. UNCHANGED <<taskPlan, bound, groups, entries, registry>>
  BY DEF T!CreateTask
<1>10. SchedTypes'
  <2>1. \A q \in TaskRequests : OfItsCall(q)'
    BY <1>1, <1>6, <1>8, <1>9, StillInFlight DEF SchedInv
  <2> QED
    BY <2>1, <1>1, <1>4, <1>8, <1>9 DEF SchedTypes, SchedInv
<1>11. Registered'
  <2>1. \A q \in TaskRequests : /\ taskRequest'[q].job = taskRequest[q].job
                                /\ taskRequest[q].step = "register" <=> taskRequest'[q].step = "register"
    BY <1>1, <1>6, <1>8
  <2> QED
    BY <2>1, <1>9, SameEntries
<1>12. Changing(r)'
  BY <1>6, <1>8 DEF Changing
<1>13. t \notin taskCrossed' => InStep(r)'
  <2> SUFFICES ASSUME t \notin taskCrossed' PROVE InStep(r)'
    OBVIOUS
  <2>1. T!EntriesOf(t) = {}
    <3>1. ~T!Live(t)
      BY <1>3 DEF T!Live, T!NoRow
    <3>2. t \in Tasks \ taskCrossed /\ \A q \in TaskRequests : Changing(q) => T!Call(q).task # t
      BY <1>1
    <3> QED
      BY <3>1, <3>2, NothingOfTheGone
  <2>2. T!Call(r)' = T!Call(r) /\ T!EntriesOf(t)' = {}
    BY <2>1, <1>9, TaskPlanIsFixed DEF T!EntriesOf
  <2>3. T!Live(t)' /\ AtMostOne(t)'
    BY <2>2, <1>4 DEF T!Live, AtMostOne
  <2> QED
    BY <2>2, <2>3, <1>4, <1>6, <1>8 DEF InStep
<1>14. Followed'
  BY <1>1, <1>4, <1>8, <1>9, <1>12, <1>13, LocalStep
<1> QED
  BY <1>10, <1>11, <1>14 DEF SchedInv

\* A step of one request that leaves the rows, the entries and the registry alone.
LEMMA QuietStep ==
  ASSUME SchedInv, NEW r \in TaskRequests, NEW y \in Progress, taskRequest' = [taskRequest EXCEPT ![r] = y],
         UNCHANGED <<taskPlan, taskRows, entries, registry>>,
         bound' \subseteq Tasks \X Groups, groups' \subseteq groups,
         taskCrossed \subseteq taskCrossed', taskCrossed' \subseteq Tasks,
         y.job = taskRequest[r].job, y.step = "register" <=> taskRequest[r].step = "register",
         T!Call(r).task \in Tasks \/ y.step = "done", y.step = "groups" => T!Call(r).op = "update",
         \/ Changing(r)
         \/ \A q \in TaskRequests : Changing(q) /\ T!Call(q).task = T!Call(r).task => T!Call(r).task \in taskCrossed'
         \/ y.step \in {"dispatch", "done"},
         T!Call(r).task \notin taskCrossed' /\ y.step \notin {"idle", "dispatch", "done"} => InStep(r)',
         T!Call(r).task \in Tasks \ taskCrossed' /\ Changing(r) /\ y.step \in {"idle", "dispatch", "done"}
           => Settled(T!Call(r).task)
  PROVE  SchedInv'
<1>0. PICK u : u = T!Call(r).task
  OBVIOUS
<1>1. taskRequest' \in [TaskRequests -> Progress] /\ taskRequest'[r] = y
      /\ \A q \in TaskRequests \ {r} : taskRequest'[q] = taskRequest[q]
  BY OneRequest DEF SchedInv
<1>2. Changing(r)' <=> y.step \notin {"idle", "dispatch", "done"}
  BY <1>1 DEF Changing
<1>3. \A q \in TaskRequests : OfItsCall(q)'
  <2>1. u \in Tasks \/ ~T!InFlight(r)'
    BY <1>0, <1>1 DEF T!InFlight
  <2> QED
    BY <2>1, <1>0, <1>1, StillInFlight DEF SchedInv
<1>4. SchedTypes'
  BY <1>1, <1>3 DEF SchedTypes, SchedInv
<1>5. Registered'
  <2>1. \A q \in TaskRequests : /\ taskRequest'[q].job = taskRequest[q].job
                                /\ taskRequest[q].step = "register" <=> taskRequest'[q].step = "register"
    BY <1>1
  <2> QED
    BY <2>1, SameEntries
<1>6. Settled(u)' = Settled(u)
  BY DEF Settled, AtMostOne, T!EntriesOf, T!Live
<1>7. Followed'
  <2>1. \/ Changing(r)
        \/ \A q \in TaskRequests \ {r} : Changing(q) /\ T!Call(q).task = u => u \in taskCrossed'
        \/ taskRows' = taskRows /\ entries' = entries /\ ~Changing(r)'
    BY <1>0, <1>2
  <2>2. u \notin taskCrossed' /\ Changing(r)' => InStep(r)'
    BY <1>0, <1>2
  <2>3. u \in Tasks /\ u \notin taskCrossed' /\ Changing(r) /\ ~Changing(r)' => Settled(u)'
    BY <1>0, <1>2, <1>6
  <2> QED
    BY <1>0, <1>1, <2>1, <2>2, <2>3, LocalStep
<1> QED
  BY <1>4, <1>5, <1>7 DEF SchedInv

\* UpdateTask checks a request and reads the row.
LEMMA TaskUpdateStep ==
  ASSUME SchedInv, NEW r \in TaskRequests, T!UpdateTask(r)
  PROVE  SchedInv'
<1> DEFINE t == T!Call(r).task
           c == T!Call(r)
           w == [taskRows[t] EXCEPT !.expr = IF c.expr = "keep" THEN @ ELSE c.expr]
           l == {g \in groups : <<t, g>> \in bound}
           z == [T!Idle EXCEPT !.step = IF c.regroup THEN "groups" ELSE "store", !.row = w,
                             !.enabled = c.status # 0, !.loaded = l]
           y == IF ~T!Live(t) THEN [T!Idle EXCEPT !.step = "done"] ELSE z
<1>1. /\ t \in Tasks /\ T!Call(r).op = "update" /\ taskRequest[r].step = "idle" /\ taskRequest[r].job = {}
      /\ ~Changing(r) /\ taskCrossed \subseteq taskCrossed' /\ taskCrossed' \subseteq Tasks
      /\ \A q \in TaskRequests : Changing(q) /\ T!Call(q).task = t => t \in taskCrossed'
  BY Beginning DEF T!UpdateTask
<1>2. c.expr \in Schedules
  BY <1>1, CallsAreOK DEF CallOK, SchedInv
<1>3. w \in TaskRowSet /\ l \subseteq Groups
  BY <1>1, <1>2 DEF TaskRowSet, SchedInv, SchedTypes
<1>4. /\ taskRequest' = [taskRequest EXCEPT ![r] = y]
      /\ UNCHANGED <<taskPlan, taskRows, bound, groups, entries, registry>>
  BY DEF T!UpdateTask
<1>5. z \in Progress /\ z.step \in {"groups", "store"} /\ z.job = {}
  <2> HIDE DEF w, l
  <2> QED
    BY <1>3 DEF Progress, Steps, T!Idle
<1> HIDE DEF z
<1>6. y \in Progress /\ y.job = {} /\ y.step # "register"
  BY <1>5, IdleFields
<1>7. t \notin taskCrossed' /\ y.step \notin {"idle", "dispatch", "done"} => InStep(r)'
  <2> SUFFICES ASSUME t \notin taskCrossed', y.step # "done" PROVE InStep(r)'
    OBVIOUS
  <2>1. T!Live(t) /\ y = z
    BY IdleFields
  <2>2. Settled(t)
    BY <1>1, NothingOfTheGone
  <2>3. T!Call(r)' = T!Call(r) /\ T!Live(t)' /\ Settled(t)'
    BY <2>1, <2>2, <1>4, TaskPlanIsFixed DEF T!Live, Settled, AtMostOne, T!EntriesOf
  <2>4. taskRequest'[r].step \in {"groups", "store"}
    BY <2>1, <1>4, <1>5 DEF SchedInv, SchedTypes
  <2> QED
    BY <2>3, <2>4, <1>1 DEF InStep
<1>8. y.step = "groups" => T!Call(r).op = "update"
  BY <1>1
<1>9. bound' \subseteq Tasks \X Groups /\ groups' \subseteq groups
  BY <1>4 DEF SchedInv, SchedTypes
<1> HIDE DEF y
<1> QED
  BY <1>1, <1>4, <1>6, <1>7, <1>8, <1>9, QuietStep

\* ResetTaskStats reads the row of a task that it will write back.
LEMMA ResetStep ==
  ASSUME SchedInv, NEW r \in TaskRequests, T!ResetTaskStats(r)
  PROVE  SchedInv'
<1> DEFINE t == T!Call(r).task
           l == {g \in groups : <<t, g>> \in bound}
           z == [T!Idle EXCEPT !.step = "store", !.row = taskRows[t], !.loaded = l]
           y == IF ~T!Live(t) THEN [T!Idle EXCEPT !.step = "done"] ELSE z
<1>1. /\ t \in Tasks /\ T!Call(r).op = "reset" /\ taskRequest[r].step = "idle" /\ taskRequest[r].job = {}
      /\ ~Changing(r) /\ taskCrossed \subseteq taskCrossed' /\ taskCrossed' \subseteq Tasks
      /\ \A q \in TaskRequests : Changing(q) /\ T!Call(q).task = t => t \in taskCrossed'
  BY Beginning DEF T!ResetTaskStats
<1>3. taskRows[t] \in TaskRowSet /\ l \subseteq Groups
  BY <1>1 DEF SchedInv, SchedTypes
<1>4. /\ taskRequest' = [taskRequest EXCEPT ![r] = y]
      /\ UNCHANGED <<taskPlan, taskRows, bound, groups, entries, registry>>
  BY DEF T!ResetTaskStats
<1>5. z \in Progress /\ z.step = "store" /\ z.job = {} /\ z.row = taskRows[t]
  <2> HIDE DEF l
  <2> QED
    BY <1>3 DEF Progress, Steps, T!Idle
<1> HIDE DEF z
<1>6. y \in Progress /\ y.job = {} /\ y.step # "register" /\ y.step # "groups"
  BY <1>5, IdleFields
<1>7. t \notin taskCrossed' /\ y.step \notin {"idle", "dispatch", "done"} => InStep(r)'
  <2> SUFFICES ASSUME t \notin taskCrossed', y.step # "done" PROVE InStep(r)'
    OBVIOUS
  <2>1. T!Live(t) /\ y = z
    BY IdleFields
  <2>2. Settled(t)
    BY <1>1, NothingOfTheGone
  <2>3. T!Call(r)' = T!Call(r) /\ T!Live(t)' /\ Settled(t)'
    BY <2>1, <2>2, <1>4, TaskPlanIsFixed DEF T!Live, Settled, AtMostOne, T!EntriesOf
  <2>4. taskRequest'[r].step = "store" /\ taskRequest'[r].row = taskRows[t]
    BY <2>1, <1>4, <1>5 DEF SchedInv, SchedTypes
  <2> QED
    BY <2>3, <2>4, <1>1, <1>4 DEF InStep
<1> HIDE DEF y
<1> QED
  BY <1>1, <1>4, <1>6, <1>7, QuietStep DEF SchedInv, SchedTypes

\* A request at work on a task that no two requests change is alone with it.
LEMMA ChangingTask ==
  ASSUME SchedInv, NEW r \in TaskRequests, Changing(r)
  PROVE  /\ T!Call(r).task \in Tasks /\ taskRequest[r] \in Progress
         /\ T!Call(r).task \notin taskCrossed =>
              InStep(r) /\ \A q \in TaskRequests \ {r} : Changing(q) => T!Call(q).task # T!Call(r).task
BY DEF SchedInv, SchedTypes, OfItsCall, Followed, Changing, T!InFlight

\* UpdateTask reads the groups of the task.
LEMMA GroupsStep ==
  ASSUME SchedInv, NEW r \in TaskRequests, T!GetGroupIDs(r)
  PROVE  SchedInv'
<1> DEFINE t == T!Call(r).task
           s == IF T!Live(t) THEN "store" ELSE "done"
           old == {g \in groups : <<t, g>> \in bound}
           new == T!Call(r).groups
           d == IF T!Live(t) THEN {[bind |-> FALSE, group |-> g] : g \in old \ new}
                                \cup {[bind |-> TRUE, group |-> g] : g \in new \ old}
                ELSE {}
           y == [taskRequest[r] EXCEPT !.step = s, !.todo = d]
<1>1. Changing(r) /\ taskRequest[r].step = "groups" /\ taskRequest[r].job = {}
  BY DEF T!GetGroupIDs, Changing, SchedInv, Registered
<1>2. t \in Tasks /\ taskRequest[r] \in Progress
  BY <1>1, ChangingTask
<1>0. T!Call(r).op = "update"
  BY <1>1 DEF SchedInv, SchedTypes, OfItsCall
<1>3. t \notin taskCrossed => T!Live(t) /\ Settled(t)
  BY <1>1, ChangingTask DEF InStep
<1>4. d \subseteq [bind : BOOLEAN, group : Groups]
  <2>1. new \subseteq Groups
    BY <1>0, CallsAreOK DEF CallOK, SchedInv
  <2>2. old \subseteq Groups
    BY DEF SchedInv, SchedTypes
  <2> SUFFICES ASSUME NEW x \in d PROVE x \in [bind : BOOLEAN, group : Groups]
    OBVIOUS
  <2>3. \E g \in Groups : x = [bind |-> FALSE, group |-> g] \/ x = [bind |-> TRUE, group |-> g]
    BY <2>1, <2>2
  <2>4. PICK g \in Groups : x = [bind |-> FALSE, group |-> g] \/ x = [bind |-> TRUE, group |-> g]
    BY <2>3
  <2>5. CASE x = [bind |-> FALSE, group |-> g]
    BY <2>5
  <2>6. CASE x = [bind |-> TRUE, group |-> g]
    BY <2>6
  <2> QED
    BY <2>4, <2>5, <2>6
<1>5. y \in Progress /\ y.step = s /\ y.job = {}
  <2>1. s \in Steps
    BY DEF Steps
  <2> HIDE DEF s, d
  <2> QED
    BY <2>1, <1>1, <1>2, <1>4 DEF Progress
<1>6. /\ taskRequest' = [taskRequest EXCEPT ![r] = y]
      /\ UNCHANGED <<taskPlan, taskRows, bound, groups, entries, registry, taskCrossed>>
  BY DEF T!GetGroupIDs, SchedInv, SchedTypes
<1> HIDE DEF y
<1>7. t \notin taskCrossed /\ y.step \notin {"idle", "dispatch", "done"} => InStep(r)'
  <2> SUFFICES ASSUME t \notin taskCrossed, y.step # "done" PROVE InStep(r)'
    OBVIOUS
  <2>1. taskRequest'[r].step = "store"
    BY <1>5, <1>6 DEF SchedInv, SchedTypes
  <2>2. T!Call(r)' = T!Call(r) /\ T!Live(t)' /\ Settled(t)'
    BY <1>3, <1>6, TaskPlanIsFixed DEF T!Live, Settled, AtMostOne, T!EntriesOf
  <2> QED
    BY <2>1, <2>2, <1>0, TaskPlanIsFixed DEF InStep
<1>8. y.step \in {"store", "done"}
  BY <1>5
<1> HIDE DEF s
<1> QED
  BY <1>1, <1>2, <1>3, <1>5, <1>6, <1>7, <1>8, QuietStep DEF SchedInv, SchedTypes

\* A relation of task and group is added or dropped.
LEMMA BindingStep ==
  ASSUME SchedInv, NEW r \in TaskRequests, T!ChangeBinding(r)
  PROVE  SchedInv'
<1> DEFINE t == T!Call(r).task
           p == taskRequest[r]
<1>1. T!InFlight(r) /\ UNCHANGED <<taskPlan, taskRows, groups, entries, registry, taskCrossed>>
  BY DEF T!ChangeBinding
<1>2. t \in Tasks /\ p \in Progress
  BY <1>1 DEF SchedInv, SchedTypes, OfItsCall
<1>3. PICK b \in p.todo :
        /\ bound' = IF ~T!Live(t) \/ b.group \notin groups THEN bound
                    ELSE IF b.bind THEN bound \cup {<<t, b.group>>}
                    ELSE bound \ {<<t, b.group>>}
        /\ taskRequest' = [taskRequest EXCEPT ![r].todo = @ \ {b}]
  BY DEF T!ChangeBinding
<1> DEFINE y == [p EXCEPT !.todo = @ \ {b}]
<1>4. y \in Progress /\ y.step = p.step /\ y.job = p.job /\ y.row = p.row
  BY <1>2 DEF Progress
<1>5. taskRequest' = [taskRequest EXCEPT ![r] = y]
  BY <1>3 DEF SchedInv, SchedTypes
<1>6. bound' \subseteq Tasks \X Groups
  BY <1>2, <1>3 DEF SchedInv, SchedTypes
<1> HIDE DEF y
<1>7. t \notin taskCrossed /\ y.step \notin {"idle", "dispatch", "done"} => InStep(r)'
  <2> SUFFICES ASSUME t \notin taskCrossed, y.step \notin {"idle", "dispatch", "done"} PROVE InStep(r)'
    OBVIOUS
  <2>1. taskRequest'[r] = y
    BY <1>5 DEF SchedInv, SchedTypes
  <2>2. T!Call(r)' = T!Call(r) /\ T!Live(t)' = T!Live(t) /\ Settled(t)' = Settled(t)
        /\ AtMostOne(t)' = AtMostOne(t) /\ T!EntriesOf(t)' = T!EntriesOf(t)
    BY <1>1, TaskPlanIsFixed DEF T!Live, Settled, AtMostOne, T!EntriesOf
  <2>3. InStep(r)
    BY <1>4, ChangingTask DEF Changing
  <2> QED
    BY <2>1, <2>2, <2>3, <1>1, <1>4 DEF InStep
<1>8. Changing(r) <=> y.step \notin {"idle", "dispatch", "done"}
  BY <1>4 DEF Changing
<1>9. y.step = "groups" => T!Call(r).op = "update"
  BY <1>4 DEF SchedInv, SchedTypes, OfItsCall
<1>10. p.step \notin {"idle", "done"}
  BY <1>1 DEF T!InFlight
<1>11. groups' \subseteq groups /\ taskCrossed \subseteq taskCrossed' /\ taskCrossed' \subseteq Tasks
  BY <1>1 DEF SchedInv, SchedTypes
<1> QED
  BY <1>1, <1>2, <1>4, <1>5, <1>6, <1>7, <1>8, <1>9, <1>10, <1>11, QuietStep

\* TriggerTask leaves the jobs alone.
LEMMA TriggerStep ==
  ASSUME SchedInv, NEW r \in TaskRequests, T!TriggerTask(r)
  PROVE  SchedInv'
<1> DEFINE t == T!Call(r).task
           p == taskRequest[r]
<1>1. UNCHANGED <<taskPlan, taskRows, bound, groups, entries, registry, taskCrossed>>
  BY DEF T!TriggerTask
<1>2. p \in Progress /\ bound' \subseteq Tasks \X Groups /\ groups' \subseteq groups
      /\ taskCrossed \subseteq taskCrossed' /\ taskCrossed' \subseteq Tasks
  BY <1>1 DEF SchedInv, SchedTypes
<1>3. \E y \in Progress : /\ taskRequest' = [taskRequest EXCEPT ![r] = y]
                          /\ y.step \in {"dispatch", "done"} /\ y.job = p.job
  <2>1. CASE p.step = "idle" /\ T!Call(r).op = "trigger"
             /\ taskRequest' = [taskRequest EXCEPT ![r].step = IF T!Live(t) THEN "dispatch" ELSE "done",
                                           ![r].row = taskRows[t]]
    <3> DEFINE s == IF T!Live(t) THEN "dispatch" ELSE "done"
               y == [p EXCEPT !.step = s, !.row = taskRows[t]]
    <3>1. t \in Tasks
      BY <2>1, CallsAreOK DEF CallOK, SchedInv
    <3>2. taskRows[t] \in TaskRowSet /\ s \in Steps /\ s \in {"dispatch", "done"}
      BY <3>1 DEF SchedInv, SchedTypes, Steps
    <3>3. taskRequest' = [taskRequest EXCEPT ![r] = y]
      BY <2>1 DEF SchedInv, SchedTypes
    <3> HIDE DEF s
    <3>4. y \in Progress /\ y.step = s /\ y.job = p.job
      BY <3>2, <1>2 DEF Progress
    <3> QED
      BY <3>2, <3>3, <3>4
  <2>2. CASE T!Goto(r, "done")
    <3> DEFINE y == [p EXCEPT !.step = "done"]
    <3>1. taskRequest' = [taskRequest EXCEPT ![r] = y]
      BY <2>2 DEF SchedInv, SchedTypes, T!Goto
    <3>2. y \in Progress /\ y.step = "done" /\ y.job = p.job
      BY <1>2, StepField DEF Steps
    <3> QED
      BY <3>1, <3>2
  <2> QED
    BY <2>1, <2>2 DEF T!TriggerTask
<1>4. PICK y \in Progress : /\ taskRequest' = [taskRequest EXCEPT ![r] = y]
                            /\ y.step \in {"dispatch", "done"} /\ y.job = p.job
  BY <1>3
<1>5. t \in Tasks /\ ~Changing(r) /\ p.step # "register"
  <2>1. CASE p.step = "idle" /\ T!Call(r).op = "trigger"
    BY <2>1, CallsAreOK DEF CallOK, SchedInv, Changing
  <2>2. CASE p.step = "dispatch"
    BY <2>2 DEF SchedInv, SchedTypes, OfItsCall, T!InFlight, Changing
  <2> QED
    BY <2>1, <2>2 DEF T!TriggerTask
<1> QED
  BY <1>1, <1>2, <1>4, <1>5, QuietStep

\* A group is deleted with its relations.
LEMMA GroupStep ==
  ASSUME SchedInv, NEW r \in TaskRequests, T!DeleteGroup(r)
  PROVE  SchedInv'
<1> DEFINE p == taskRequest[r]
           y == [p EXCEPT !.step = "done"]
<1>1. UNCHANGED <<taskPlan, taskRows, bound, entries, registry, taskCrossed>> /\ groups' \subseteq groups
  BY DEF T!DeleteGroup
<1>2. p \in Progress /\ bound' \subseteq Tasks \X Groups
      /\ taskCrossed \subseteq taskCrossed' /\ taskCrossed' \subseteq Tasks
  BY <1>1 DEF SchedInv, SchedTypes
<1>3. taskRequest' = [taskRequest EXCEPT ![r] = y]
  BY DEF SchedInv, SchedTypes, T!Goto, T!DeleteGroup
<1>4. y \in Progress /\ y.step = "done" /\ y.job = p.job
  BY <1>2, StepField DEF Steps
<1>5. ~Changing(r) /\ p.step # "register"
  BY DEF T!DeleteGroup, Changing
<1> HIDE DEF y
<1> QED
  BY <1>1, <1>2, <1>3, <1>4, <1>5, QuietStep

\* The row is stored as the request has it, whatever became of it since.
LEMMA TaskStoreStep ==
  ASSUME SchedInv, NEW r \in TaskRequests, T!StoreTask(r)
  PROVE  SchedInv'
<1>0. PICK t : t = T!Call(r).task
  OBVIOUS
<1> DEFINE p == taskRequest[r]
           s == IF T!Call(r).op = "reset" THEN "done" ELSE "remove"
           y == [p EXCEPT !.step = s]
<1>1. /\ p.step = "store" /\ UNCHANGED <<taskPlan, groups, entries, registry, taskCrossed>>
      /\ taskRows' = IF T!Live(t) THEN [taskRows EXCEPT ![t].expr = p.row.expr] ELSE taskRows
      /\ bound' = bound \cup {<<t, g>> : g \in p.loaded}
  BY <1>0 DEF T!StoreTask
<1>2. Changing(r)
  BY <1>1 DEF Changing
<1>3. t \in Tasks /\ p \in Progress
  BY <1>0, <1>2, ChangingTask
<1>4. taskRequest' = [taskRequest EXCEPT ![r] = y]
  BY DEF SchedInv, SchedTypes, T!Goto, T!StoreTask
<1>5. y \in Progress /\ y.step = s /\ y.job = p.job /\ y.row = p.row
  <2>1. s \in Steps
    BY DEF Steps
  <2> HIDE DEF s
  <2> QED
    BY <2>1, <1>3, StepField
<1> HIDE DEF y
<1>6. taskRequest' \in [TaskRequests -> Progress] /\ taskRequest'[r] = y
      /\ \A q \in TaskRequests \ {r} : taskRequest'[q] = taskRequest[q]
  BY <1>4, <1>5, OneRequest DEF SchedInv
<1>7. taskRows' \in [Tasks -> TaskRowSet] /\ \A v \in Tasks \ {t} : taskRows'[v] = taskRows[v]
  BY <1>1, <1>3 DEF SchedInv, SchedTypes, Progress, TaskRowSet
<1>8. SchedTypes'
  <2>1. \A q \in TaskRequests : OfItsCall(q)'
    BY <1>0, <1>1, <1>3, <1>5, <1>6, StillInFlight DEF SchedInv
  <2>2. bound' \subseteq Tasks \X Groups
    BY <1>1, <1>3 DEF SchedInv, SchedTypes, Progress
  <2> QED
    BY <2>1, <2>2, <1>1, <1>6, <1>7 DEF SchedInv, SchedTypes
<1>9. Registered'
  <2>1. \A q \in TaskRequests : /\ taskRequest'[q].job = taskRequest[q].job
                                /\ taskRequest[q].step = "register" <=> taskRequest'[q].step = "register"
    BY <1>1, <1>5, <1>6
  <2> QED
    BY <2>1, <1>1, SameEntries
<1>10. ASSUME t \notin taskCrossed
       PROVE  /\ T!Live(t)' /\ AtMostOne(t)'
              /\ taskRows'[t].expr = p.row.expr
              /\ T!Call(r).op = "reset" => Settled(t)'
  <2>1. T!Live(t) /\ Settled(t) /\ (T!Call(r).op = "reset" => p.row.expr = taskRows[t].expr)
    BY <1>0, <1>1, <1>2, <1>10, ChangingTask DEF InStep
  <2>2. taskRows'[t].gone = taskRows[t].gone /\ taskRows'[t].expr = p.row.expr
    BY <2>1, <1>1, <1>3 DEF SchedInv, SchedTypes, TaskRowSet
  <2> QED
    BY <2>1, <2>2, <1>1 DEF T!Live, Settled, AtMostOne, T!EntriesOf
<1>11. t \notin taskCrossed' /\ Changing(r)' => InStep(r)'
  <2> SUFFICES ASSUME t \notin taskCrossed, s = "remove" PROVE InStep(r)'
    BY <1>1, <1>5, <1>6 DEF Changing
  <2> QED
    BY <1>0, <1>1, <1>5, <1>6, <1>10, TaskPlanIsFixed DEF InStep
<1>12. t \in Tasks /\ t \notin taskCrossed' /\ Changing(r) /\ ~Changing(r)' => Settled(t)'
  BY <1>1, <1>5, <1>6, <1>10 DEF Changing
<1>13. Followed'
  BY <1>0, <1>1, <1>2, <1>6, <1>7, <1>11, <1>12, LocalStep
<1> QED
  BY <1>8, <1>9, <1>13 DEF SchedInv

\* RemoveTask of a task whose changes do not meet leaves no entry of it.
LEMMA NoneLeft ==
  ASSUME SchedInv, NEW r \in TaskRequests, NEW t, t = T!Call(r).task, T!RemoveTask(t), taskPlan' = taskPlan,
         taskRequest[r].step # "register", taskRequest'[r].step # "register",
         taskRequest'[r].job = taskRequest[r].job,
         \A q \in TaskRequests \ {r} : taskRequest'[q] = taskRequest[q]
  PROVE  /\ Registered' /\ entries' \subseteq entries
         /\ \A e : e.task # t => ((e \in entries') <=> (e \in entries))
         /\ AtMostOne(t) /\ (\A q \in TaskRequests \ {r} : Changing(q) => T!Call(q).task # t)
              => T!EntriesOf(t)' = {}
<1>1. \A q \in TaskRequests : /\ taskRequest'[q].job = taskRequest[q].job
                              /\ taskRequest[q].step = "register" <=> taskRequest'[q].step = "register"
  OBVIOUS
<1>2. ASSUME \A q \in TaskRequests \ {r} : Changing(q) => T!Call(q).task # t
      PROVE  \A q \in TaskRequests : \A e \in taskRequest[q].job : e.task # t
  <2> SUFFICES ASSUME NEW q \in TaskRequests, NEW e \in taskRequest[q].job PROVE e.task # t
    OBVIOUS
  <2>1. taskRequest[q].step = "register" /\ e.task = T!Call(q).task
    BY DEF SchedInv, Registered
  <2> QED
    BY <2>1, <1>2 DEF Changing
<1> QED
  BY <1>1, <1>2, RemovingJobs

\* UpdateTask removes the old jobs from the library.
LEMMA RemoveOldStep ==
  ASSUME SchedInv, NEW r \in TaskRequests, T!RemoveOld(r)
  PROVE  SchedInv'
<1>0. PICK t : t = T!Call(r).task
  OBVIOUS
<1> DEFINE p == taskRequest[r]
           s == IF p.enabled THEN "add" ELSE "done"
           y == [p EXCEPT !.step = s]
<1>1. p.step = "remove" /\ UNCHANGED <<taskPlan, taskRows, bound, groups, taskCrossed>> /\ T!RemoveTask(t)
  BY <1>0 DEF T!RemoveOld
<1>2. Changing(r)
  BY <1>1 DEF Changing
<1>3. t \in Tasks /\ p \in Progress
  BY <1>0, <1>2, ChangingTask
<1>4. taskRequest' = [taskRequest EXCEPT ![r] = y]
  BY DEF SchedInv, SchedTypes, T!Goto, T!RemoveOld
<1>5. y \in Progress /\ y.step = s /\ y.job = p.job /\ y.row = p.row
  <2>1. s \in Steps
    BY DEF Steps
  <2> HIDE DEF s
  <2> QED
    BY <2>1, <1>3, StepField
<1> HIDE DEF y
<1>6. taskRequest' \in [TaskRequests -> Progress] /\ taskRequest'[r] = y
      /\ \A q \in TaskRequests \ {r} : taskRequest'[q] = taskRequest[q]
  BY <1>4, <1>5, OneRequest DEF SchedInv
<1>7. /\ Registered' /\ entries' \subseteq entries
      /\ \A e : e.task # t => ((e \in entries') <=> (e \in entries))
      /\ AtMostOne(t) /\ (\A q \in TaskRequests \ {r} : Changing(q) => T!Call(q).task # t)
           => T!EntriesOf(t)' = {}
  BY <1>0, <1>1, <1>5, <1>6, NoneLeft
<1>8. SchedTypes'
  <2>1. \A q \in TaskRequests : OfItsCall(q)'
    BY <1>0, <1>1, <1>3, <1>5, <1>6, StillInFlight DEF SchedInv
  <2>2. IsFiniteSet(entries')
    BY <1>7, FS_Subset DEF SchedInv, SchedTypes
  <2> QED
    BY <2>1, <2>2, <1>1, <1>6, <1>7 DEF SchedInv, SchedTypes
<1>9. ASSUME t \notin taskCrossed
      PROVE  /\ T!Live(t)' /\ AtMostOne(t)' /\ Settled(t)' /\ T!EntriesOf(t)' = {}
             /\ taskRows'[t].expr = p.row.expr
  <2>1. InStep(r) /\ \A q \in TaskRequests \ {r} : Changing(q) => T!Call(q).task # t
    BY <1>0, <1>2, <1>9, ChangingTask
  <2>2. T!Live(t) /\ AtMostOne(t) /\ p.row.expr = taskRows[t].expr
    BY <2>1, <1>0, <1>1 DEF InStep
  <2>3. T!EntriesOf(t)' = {}
    BY <2>1, <2>2, <1>7
  <2> QED
    BY <2>2, <2>3, <1>1 DEF T!Live, Settled, AtMostOne
<1>11. t \notin taskCrossed' /\ Changing(r)' => InStep(r)'
  <2> SUFFICES ASSUME t \notin taskCrossed, s = "add" PROVE InStep(r)'
    BY <1>1, <1>5, <1>6 DEF Changing
  <2> QED
    BY <1>0, <1>1, <1>5, <1>6, <1>9, TaskPlanIsFixed DEF InStep
<1>12. t \in Tasks /\ t \notin taskCrossed' /\ Changing(r) /\ ~Changing(r)' => Settled(t)'
  BY <1>1, <1>9
<1>13. Followed'
  BY <1>0, <1>1, <1>2, <1>6, <1>7, <1>11, <1>12, LocalStep
<1> QED
  BY <1>7, <1>8, <1>13 DEF SchedInv

\* A schedule is added to the library: an entry that is not registered yet.
LEMMA AddStep ==
  ASSUME SchedInv, NEW r \in TaskRequests, T!AddTask(r)
  PROVE  SchedInv'
<1>0. PICK t : t = T!Call(r).task
  OBVIOUS
<1> DEFINE p == taskRequest[r]
           e == [id |-> T!NextId, task |-> t, expr |-> p.row.expr]
           y == [p EXCEPT !.step = "register", !.job = {e}]
           z == [p EXCEPT !.step = "done"]
<1>1. p.step = "add" /\ UNCHANGED <<taskPlan, taskRows, bound, groups, registry, taskCrossed>>
  BY DEF T!AddTask
<1>2. Changing(r) /\ p.job = {}
  BY <1>1 DEF Changing, SchedInv, Registered
<1>3. t \in Tasks /\ p \in Progress
  BY <1>0, <1>2, ChangingTask
<1>4. t \notin taskCrossed => /\ T!Live(t) /\ AtMostOne(t) /\ p.row.expr = taskRows[t].expr
                              /\ T!EntriesOf(t) = {}
  BY <1>0, <1>1, <1>2, ChangingTask DEF InStep
<1>5. T!NextId \in Nat /\ \A f \in entries : f.id # T!NextId
  BY FreshId
<1>6. CASE ~T!Valid(e.expr)
  <2>1. entries' = entries /\ taskRequest' = [taskRequest EXCEPT ![r] = z]
    BY <1>0, <1>6 DEF T!AddTask, T!Goto, SchedInv, SchedTypes
  <2>2. z \in Progress /\ z.step = "done" /\ z.job = p.job
    BY <1>3, StepField DEF Steps
  <2>3. Settled(t) \/ t \in taskCrossed
    BY <1>4 DEF Settled
  <2> HIDE DEF z
  <2>4. bound' \subseteq Tasks \X Groups /\ groups' \subseteq groups
        /\ taskCrossed \subseteq taskCrossed' /\ taskCrossed' \subseteq Tasks
    BY <1>1 DEF SchedInv, SchedTypes
  <2> QED
    BY <2>1, <2>2, <2>3, <2>4, <1>0, <1>1, <1>2, QuietStep
<1>7. CASE T!Valid(e.expr)
  <2>1. entries' = entries \cup {e} /\ taskRequest' = [taskRequest EXCEPT ![r] = y]
    BY <1>0, <1>7 DEF T!AddTask, SchedInv, SchedTypes
  <2>2. p.row.expr \in Schedules
    BY <1>3 DEF Progress, TaskRowSet
  <2>3. e \in Entries /\ e.id = T!NextId /\ e.task = t /\ e.expr = p.row.expr
    BY <2>2, <1>3, <1>5 DEF Entries
  <2>4. e \notin entries
    BY <2>3, <1>5
  <2> HIDE DEF e
  <2>5. y \in Progress /\ y.step = "register" /\ y.job = {e}
    BY <2>3, <1>3 DEF Progress, Steps
  <2> HIDE DEF y
  <2>6. taskRequest' \in [TaskRequests -> Progress] /\ taskRequest'[r] = y
        /\ \A q \in TaskRequests \ {r} : taskRequest'[q] = taskRequest[q]
    BY <2>1, <2>5, OneRequest DEF SchedInv
  <2>7. SchedTypes'
    <3>1. \A q \in TaskRequests : OfItsCall(q)'
      BY <1>0, <1>1, <1>3, <2>5, <2>6, StillInFlight DEF SchedInv
    <3>2. IsFiniteSet(entries')
      BY <2>1, FS_AddElement DEF SchedInv, SchedTypes
    <3> QED
      BY <3>1, <3>2, <1>1, <1>7, <2>1, <2>3, <2>6 DEF SchedInv, SchedTypes
  <2>8. Registered'
    <3>1. \A q : T!Call(q)' = T!Call(q)
      BY <1>1, TaskPlanIsFixed
    <3>2. \A f, g \in entries' : f.id = g.id => f = g
      BY <2>1, <2>3, <1>5 DEF SchedInv, Registered
    <3>3. \A j \in registry' : \E f \in entries' : j = T!Job(f)
      BY <2>1, <1>1 DEF SchedInv, Registered
    <3>4. T!Job(e) \notin registry
      <4> SUFFICES ASSUME NEW f \in entries PROVE T!Job(f) # T!Job(e)
        BY DEF SchedInv, Registered
      <4>1. T!Job(f).id = f.id /\ T!Job(e).id = e.id
        BY DEF T!Job
      <4> QED
        BY <4>1, <2>3, <1>5
    <3>5. \A f \in entries' : T!Job(f) \in registry' \/ \E q \in TaskRequests : f \in taskRequest'[q].job
      <4> SUFFICES ASSUME NEW f \in entries'
                   PROVE  T!Job(f) \in registry' \/ \E q \in TaskRequests : f \in taskRequest'[q].job
        OBVIOUS
      <4>1. CASE f = e
        BY <4>1, <2>5, <2>6
      <4>2. CASE f \in entries
        <5>1. T!Job(f) \in registry \/ \E q \in TaskRequests : f \in taskRequest[q].job
          BY <4>2 DEF SchedInv, Registered
        <5> QED
          BY <5>1, <1>1, <1>2, <2>6
      <4> QED
        BY <4>1, <4>2, <2>1
    <3>6. ASSUME NEW q \in TaskRequests
          PROVE  /\ taskRequest'[q].step # "register" => taskRequest'[q].job = {}
                 /\ \A f \in taskRequest'[q].job :
                      f \in entries' /\ T!Job(f) \notin registry' /\ f.task = T!Call(q)'.task
      <4>1. CASE q = r
        BY <4>1, <3>1, <3>4, <2>1, <2>3, <2>5, <2>6, <1>0, <1>1
      <4>2. CASE q # r
        BY <4>2, <3>1, <2>1, <2>6, <1>1 DEF SchedInv, Registered
      <4> QED
        BY <4>1, <4>2
    <3>7. \A q \in TaskRequests : e \notin taskRequest[q].job
      BY <2>4 DEF SchedInv, Registered
    <3>8. \A q, x \in TaskRequests : q # x => taskRequest'[q].job \cap taskRequest'[x].job = {}
      BY <3>7, <2>5, <2>6 DEF SchedInv, Registered
    <3> QED
      BY <3>2, <3>3, <3>5, <3>6, <3>8 DEF Registered
  <2>9. Changing(r)'
    BY <2>5, <2>6 DEF Changing
  <2>10. t \notin taskCrossed' => InStep(r)'
    <3> SUFFICES ASSUME t \notin taskCrossed PROVE InStep(r)'
      BY <1>1
    <3>1. T!EntriesOf(t)' = {e}
      BY <1>4, <2>1, <2>3 DEF T!EntriesOf
    <3>2. T!Live(t)' /\ Settled(t)'
      BY <3>1, <1>1, <1>4, <2>3 DEF T!Live, Settled, AtMostOne
    <3> QED
      BY <3>2, <2>5, <2>6, <1>0, <1>1, TaskPlanIsFixed DEF InStep
  <2>11. \A f : f.task # t => ((f \in entries') <=> (f \in entries))
    BY <2>1, <2>3
  <2>12. Followed'
    BY <1>0, <1>1, <1>2, <2>6, <2>9, <2>10, <2>11, LocalStep
  <2> QED
    BY <2>7, <2>8, <2>12 DEF SchedInv
<1> QED
  BY <1>6, <1>7

\* The entry goes into the registry.
LEMMA RegisterStep ==
  ASSUME SchedInv, NEW r \in TaskRequests, T!Register(r)
  PROVE  SchedInv'
<1>0. PICK t : t = T!Call(r).task
  OBVIOUS
<1> DEFINE p == taskRequest[r]
           y == [p EXCEPT !.step = "done", !.job = {}]
<1>1. /\ p.step = "register" /\ UNCHANGED <<taskPlan, taskRows, bound, groups, entries, taskCrossed>>
      /\ registry' = registry \cup {T!Job(e) : e \in p.job}
  BY DEF T!Register
<1>2. Changing(r)
  BY <1>1 DEF Changing
<1>3. t \in Tasks /\ p \in Progress
  BY <1>0, <1>2, ChangingTask
<1>4. taskRequest' = [taskRequest EXCEPT ![r] = y]
  BY DEF SchedInv, SchedTypes, T!Register
<1>5. y \in Progress /\ y.step = "done" /\ y.job = {}
  BY <1>3 DEF Progress, Steps
<1> HIDE DEF y
<1>6. taskRequest' \in [TaskRequests -> Progress] /\ taskRequest'[r] = y
      /\ \A q \in TaskRequests \ {r} : taskRequest'[q] = taskRequest[q]
  BY <1>4, <1>5, OneRequest DEF SchedInv
<1>7. SchedTypes'
  <2>1. \A q \in TaskRequests : OfItsCall(q)'
    BY <1>0, <1>1, <1>3, <1>5, <1>6, StillInFlight DEF SchedInv
  <2> QED
    BY <2>1, <1>1, <1>6 DEF SchedInv, SchedTypes
<1>8. Registered'
  <2>1. \A q : T!Call(q)' = T!Call(q)
    BY <1>1, TaskPlanIsFixed
  <2>2. \A q \in TaskRequests : \A e \in taskRequest[q].job :
           e \in entries /\ T!Job(e) \notin registry /\ e.task = T!Call(q).task
    BY DEF SchedInv, Registered
  <2>3. \A e, f \in entries : T!Job(e) = T!Job(f) => e = f
    <3> SUFFICES ASSUME NEW e \in entries, NEW f \in entries, T!Job(e) = T!Job(f) PROVE e = f
      OBVIOUS
    <3>1. T!Job(e).id = e.id /\ T!Job(f).id = f.id
      BY DEF T!Job
    <3> QED
      BY <3>1 DEF SchedInv, Registered
  <2>4. \A j \in registry' : \E e \in entries' : j = T!Job(e)
    BY <2>2, <1>1 DEF SchedInv, Registered
  <2>5. \A e \in entries' : T!Job(e) \in registry' \/ \E q \in TaskRequests : e \in taskRequest'[q].job
    <3> SUFFICES ASSUME NEW e \in entries
                 PROVE  T!Job(e) \in registry' \/ \E q \in TaskRequests : e \in taskRequest'[q].job
      BY <1>1
    <3>1. T!Job(e) \in registry \/ \E q \in TaskRequests : e \in taskRequest[q].job
      BY DEF SchedInv, Registered
    <3>2. e \in p.job => T!Job(e) \in registry'
      BY <1>1
    <3> QED
      BY <3>1, <3>2, <1>1, <1>6
  <2>6. ASSUME NEW q \in TaskRequests
        PROVE  /\ taskRequest'[q].step # "register" => taskRequest'[q].job = {}
               /\ \A e \in taskRequest'[q].job :
                    e \in entries' /\ T!Job(e) \notin registry' /\ e.task = T!Call(q)'.task
    <3>1. CASE q = r
      BY <3>1, <1>5, <1>6
    <3>2. CASE q # r
      <4>1. taskRequest[q].step # "register" => taskRequest[q].job = {}
        BY DEF SchedInv, Registered
      <4>2. ASSUME NEW e \in taskRequest[q].job PROVE T!Job(e) \notin registry'
        <5>1. e \notin p.job
          BY <3>2, <4>2 DEF SchedInv, Registered
        <5>2. \A f \in p.job : T!Job(f) # T!Job(e)
          BY <5>1, <2>2, <2>3, <4>2
        <5> QED
          BY <5>2, <2>2, <1>1
      <4> QED
        BY <3>2, <4>1, <4>2, <2>1, <2>2, <1>1, <1>6
    <3> QED
      BY <3>1, <3>2
  <2>7. \A q, x \in TaskRequests : q # x => taskRequest'[q].job \cap taskRequest'[x].job = {}
    BY <1>5, <1>6 DEF SchedInv, Registered
  <2>8. \A e, f \in entries' : e.id = f.id => e = f
    BY <1>1 DEF SchedInv, Registered
  <2> QED
    BY <2>4, <2>5, <2>6, <2>7, <2>8 DEF Registered
<1>9. t \notin taskCrossed => Settled(t)'
  <2> SUFFICES ASSUME t \notin taskCrossed PROVE Settled(t)'
    OBVIOUS
  <2>1. Settled(t)
    BY <1>0, <1>1, <1>2, ChangingTask DEF InStep
  <2> QED
    BY <2>1, <1>1 DEF Settled, AtMostOne, T!EntriesOf, T!Live
<1>10. ~Changing(r)'
  BY <1>5, <1>6 DEF Changing
<1>11. Followed'
  BY <1>0, <1>1, <1>2, <1>6, <1>9, <1>10, LocalStep
<1> QED
  BY <1>7, <1>8, <1>11 DEF SchedInv

\* DeleteTask first removes the jobs.
LEMMA DeleteJobStep ==
  ASSUME SchedInv, NEW r \in TaskRequests, T!Begin(r, "delete"), T!RemoveTask(T!Call(r).task),
         T!Goto(r, "delete"),
         UNCHANGED <<taskPlan, taskRows, bound, groups>>
  PROVE  SchedInv'
<1>0. PICK t : t = T!Call(r).task
  OBVIOUS
<1> DEFINE p == taskRequest[r]
           y == [p EXCEPT !.step = "delete"]
<1>1. /\ t \in Tasks /\ p.step = "idle" /\ p.job = {}
      /\ ~Changing(r) /\ taskCrossed \subseteq taskCrossed' /\ taskCrossed' \subseteq Tasks
      /\ \A q \in TaskRequests : Changing(q) /\ T!Call(q).task = t => t \in taskCrossed'
  BY <1>0, Beginning
<1>3. p \in Progress
  BY DEF SchedInv, SchedTypes
<1>4. taskRequest' = [taskRequest EXCEPT ![r] = y]
  BY DEF SchedInv, SchedTypes, T!Goto
<1>5. y \in Progress /\ y.step = "delete" /\ y.job = p.job
  BY <1>3, StepField DEF Steps
<1> HIDE DEF y
<1>6. taskRequest' \in [TaskRequests -> Progress] /\ taskRequest'[r] = y
      /\ \A q \in TaskRequests \ {r} : taskRequest'[q] = taskRequest[q]
  BY <1>4, <1>5, OneRequest DEF SchedInv
<1>7. /\ Registered' /\ entries' \subseteq entries
      /\ \A e : e.task # t => ((e \in entries') <=> (e \in entries))
      /\ AtMostOne(t) /\ (\A q \in TaskRequests \ {r} : Changing(q) => T!Call(q).task # t)
           => T!EntriesOf(t)' = {}
  BY <1>0, <1>1, <1>5, <1>6, NoneLeft
<1>8. SchedTypes'
  <2>1. \A q \in TaskRequests : OfItsCall(q)'
    BY <1>0, <1>1, <1>5, <1>6, StillInFlight DEF SchedInv
  <2>2. IsFiniteSet(entries')
    BY <1>7, FS_Subset DEF SchedInv, SchedTypes
  <2> QED
    BY <2>1, <2>2, <1>1, <1>6, <1>7 DEF SchedInv, SchedTypes
<1>9. t \notin taskCrossed' => InStep(r)'
  <2> SUFFICES ASSUME t \notin taskCrossed' PROVE InStep(r)'
    OBVIOUS
  <2>1. Settled(t) /\ \A q \in TaskRequests : Changing(q) => T!Call(q).task # t
    BY <1>1, NothingOfTheGone
  <2>2. T!EntriesOf(t)' = {}
    BY <2>1, <1>7 DEF Settled
  <2> QED
    BY <2>2, <1>0, <1>5, <1>6, TaskPlanIsFixed DEF InStep
<1>10. Changing(r)'
  BY <1>5, <1>6 DEF Changing
<1>11. \A v \in Tasks \ {t} : taskRows'[v] = taskRows[v]
  OBVIOUS
<1>12. Followed'
  BY <1>0, <1>1, <1>6, <1>7, <1>9, <1>10, <1>11, LocalStep
<1> QED
  BY <1>7, <1>8, <1>12 DEF SchedInv

\* DeleteTask then deletes the row.
LEMMA DeleteRowStep ==
  ASSUME SchedInv, NEW r \in TaskRequests, taskRequest[r].step = "delete",
         taskRows' = [taskRows EXCEPT ![T!Call(r).task].gone = TRUE], T!Goto(r, "done"),
         UNCHANGED <<taskPlan, bound, groups, entries, registry, taskCrossed>>
  PROVE  SchedInv'
<1>0. PICK t : t = T!Call(r).task
  OBVIOUS
<1> DEFINE p == taskRequest[r]
           y == [p EXCEPT !.step = "done"]
<1>2. Changing(r)
  BY DEF Changing
<1>3. t \in Tasks /\ p \in Progress
  BY <1>0, <1>2, ChangingTask
<1>4. taskRequest' = [taskRequest EXCEPT ![r] = y]
  BY DEF SchedInv, SchedTypes, T!Goto
<1>5. y \in Progress /\ y.step = "done" /\ y.job = p.job
  BY <1>3, StepField DEF Steps
<1> HIDE DEF y
<1>6. taskRequest' \in [TaskRequests -> Progress] /\ taskRequest'[r] = y
      /\ \A q \in TaskRequests \ {r} : taskRequest'[q] = taskRequest[q]
  BY <1>4, <1>5, OneRequest DEF SchedInv
<1>7. taskRows' \in [Tasks -> TaskRowSet] /\ \A v \in Tasks \ {t} : taskRows'[v] = taskRows[v]
  BY <1>0, <1>3 DEF SchedInv, SchedTypes, TaskRowSet
<1>8. SchedTypes'
  <2>1. \A q \in TaskRequests : OfItsCall(q)'
    BY <1>0, <1>3, <1>5, <1>6, StillInFlight DEF SchedInv
  <2> QED
    BY <2>1, <1>6, <1>7 DEF SchedInv, SchedTypes
<1>9. Registered'
  <2>1. \A q \in TaskRequests : /\ taskRequest'[q].job = taskRequest[q].job
                                /\ taskRequest[q].step = "register" <=> taskRequest'[q].step = "register"
    BY <1>5, <1>6
  <2> QED
    BY <2>1, SameEntries
<1>10. t \notin taskCrossed => Settled(t)'
  <2> SUFFICES ASSUME t \notin taskCrossed PROVE Settled(t)'
    OBVIOUS
  <2>1. T!EntriesOf(t) = {}
    BY <1>0, <1>2, ChangingTask DEF InStep
  <2> QED
    BY <2>1 DEF Settled, AtMostOne, T!EntriesOf
<1>11. ~Changing(r)'
  BY <1>5, <1>6 DEF Changing
<1>12. Followed'
  BY <1>0, <1>2, <1>6, <1>7, <1>10, <1>11, LocalStep
<1> QED
  BY <1>8, <1>9, <1>12 DEF SchedInv

\* Every step of the task scheduler keeps its invariant.
LEMMA SchedNext ==
  ASSUME SchedInv, [T!Next]_(T!vars)
  PROVE  SchedInv'
<1>1. CASE UNCHANGED T!vars
  <2>1. UNCHANGED <<taskPlan, taskRows, bound, groups, entries, registry, taskRequest, taskCrossed>>
    BY <1>1 DEF T!vars, T!schedulerVars
  <2> QED
    BY <2>1 DEF SchedInv, SchedTypes, Registered, Followed, InStep, OfItsCall, T!InFlight, Changing,
                Settled, AtMostOne, T!EntriesOf, T!Live, T!Call
<1>2. ASSUME NEW r \in TaskRequests, T!Handle(r)
      PROVE  SchedInv'
  <2>1. CASE T!DeleteTask(r)
    BY <2>1, DeleteJobStep, DeleteRowStep DEF T!DeleteTask
  <2>2. CASE \/ T!CreateTask(r) \/ T!UpdateTask(r) \/ T!GetGroupIDs(r) \/ T!ChangeBinding(r)
             \/ T!ResetTaskStats(r)
    BY <2>2, TaskCreateStep, TaskUpdateStep, GroupsStep, BindingStep, ResetStep
  <2>3. CASE \/ T!StoreTask(r) \/ T!RemoveOld(r) \/ T!AddTask(r) \/ T!Register(r) \/ T!TriggerTask(r)
             \/ T!DeleteGroup(r)
    BY <2>3, TaskStoreStep, RemoveOldStep, AddStep, RegisterStep, TriggerStep, GroupStep
  <2> QED
    BY <1>2, <2>1, <2>2, <2>3 DEF T!Handle
<1>3. CASE T!RunJob
  <2>1. UNCHANGED <<taskPlan, taskRows, bound, groups, entries, registry, taskRequest, taskCrossed>>
    BY <1>3 DEF T!RunJob
  <2> QED
    BY <2>1 DEF SchedInv, SchedTypes, Registered, Followed, InStep, OfItsCall, T!InFlight, Changing,
                Settled, AtMostOne, T!EntriesOf, T!Live, T!Call
<1>4. CASE T!Restart
  BY <1>4, RestartKeeps
<1> QED
  BY <1>1, <1>2, <1>3, <1>4 DEF T!Next

\* The invariant gives the types, and that the jobs follow the rows.
LEMMA SchedShows ==
  ASSUME SchedInv
  PROVE  T!TypeOK /\ T!JobsFollowRows
<1>1. T!TypeOK
  <2>1. \A e \in entries : e.task \in Tasks /\ T!Valid(e.expr)
    BY DEF SchedInv, SchedTypes, Entries
  <2>2. \A j \in registry : j.task \in Tasks
    <3> SUFFICES ASSUME NEW j \in registry PROVE j.task \in Tasks
      OBVIOUS
    <3>1. PICK e \in entries : j = T!Job(e)
      BY DEF SchedInv, Registered
    <3> QED
      BY <2>1, <3>1 DEF T!Job
  <2> QED
    BY <2>1, <2>2 DEF T!TypeOK, SchedInv, SchedTypes
<1>2. ASSUME NEW t \in Tasks \ taskCrossed, \A r \in TaskRequests : T!InFlight(r) => T!Call(r).task # t
      PROVE  /\ Cardinality(T!EntriesOf(t)) <= 1
             /\ \A e \in T!EntriesOf(t) : T!Job(e) \in registry /\ T!Live(t) /\ e.expr = taskRows[t].expr
  <2>1. Settled(t)
    BY <1>2, NothingOfTheGone DEF Changing, T!InFlight
  <2>2. Cardinality(T!EntriesOf(t)) <= 1
    <3>1. CASE T!EntriesOf(t) = {}
      BY <3>1, FS_EmptySet
    <3>2. ASSUME NEW e \in T!EntriesOf(t) PROVE Cardinality(T!EntriesOf(t)) <= 1
      <4>1. T!EntriesOf(t) = {} \cup {e}
        BY <2>1, <3>2 DEF Settled, AtMostOne
      <4>2. Cardinality({} \cup {e}) = Cardinality({}) + 1
        BY FS_EmptySet, FS_AddElement
      <4> QED
        BY <4>1, <4>2, FS_EmptySet
    <3> QED
      BY <3>1, <3>2
  <2>3. ASSUME NEW e \in T!EntriesOf(t) PROVE T!Job(e) \in registry
    <3>1. e \in entries /\ e.task = t
      BY <2>3 DEF T!EntriesOf
    <3>2. ASSUME NEW r \in TaskRequests, e \in taskRequest[r].job PROVE FALSE
      <4>1. taskRequest[r].step = "register" /\ T!Call(r).task = t
        BY <3>1, <3>2 DEF SchedInv, Registered
      <4> QED
        BY <4>1, <1>2 DEF T!InFlight
    <3> QED
      BY <3>1, <3>2 DEF SchedInv, Registered
  <2> QED
    BY <2>1, <2>2, <2>3 DEF Settled
<1> QED
  BY <1>1, <1>2, SameCount DEF T!JobsFollowRows

-----------------------------------------------------------------------------
(* The sharded session manager.                                            *)

Home(s) == ShardOf[ClientOf[s]]
Checks == [due : BOOLEAN, todo : SUBSET (ConnectedSessions \cup S!Clients),
           step : {"idle", "remove", "unregister"}, at : ConnectedSessions \cup {S!NoSession}]

CheckOK(k) ==
  /\ checker[k].due => checker[k].todo = {} /\ checker[k].step = "idle"
  /\ checker[k].step # "idle" => checker[k].at \in ConnectedSessions
  /\ k # "wheel" => /\ checker[k].todo \subseteq {s \in used : Home(s) = k}
                    /\ checker[k].step # "unregister"
  /\ k = "wheel" => checker[k].todo \subseteq S!Clients /\ ~checker[k].due

\* The shard of the session, the wheel, will look at it.
ByShard(s) == (checker[Home(s)].due /\ s \in S!Held) \/ s \in checker[Home(s)].todo
ByWheel(s) == ClientOf[s] \in checker["wheel"].todo /\ shard[ClientOf[s]] = s
Doomed(s) == \E k \in S!Checkers : checker[k].step = "remove" /\ checker[k].at = s

Watched(s) ==
  /\ s \notin used => timeouts[s] = 0 /\ silent[s] = 0
  /\ s \in S!Held /\ ~ByShard(s) => silent[s] <= Grace + timeouts[s] * Interval + clock
  /\ s \in S!Held /\ ByShard(s) => silent[s] <= Grace + (timeouts[s] + 1) * Interval
  /\ s \in S!Held /\ timeouts[s] >= MaxTimeoutCount => Doomed(s)
  /\ ByShard(s) => timeouts[s] <= MaxTimeoutCount
  /\ ByWheel(s) => timeouts[s] <= MaxTimeoutCount
  /\ ByShard(s) /\ ByWheel(s) => timeouts[s] < MaxTimeoutCount

Counted ==
  /\ Cardinality(S!Held) - Cardinality(used) <= count /\ count <= Cardinality(used)
  /\ ~shardCrossed /\ closing.step = "idle" => count = Cardinality(S!Held)
  /\ ~shardCrossed /\ closing.step = "clear" =>
       \A c \in S!Clients : shard[c] # S!NoSession => ShardOf[c] \in closing.left
  /\ ~shardCrossed /\ closing.step = "count" => S!Held = {}

ShardTypes ==
  /\ shard \in [S!Clients -> ConnectedSessions \cup {S!NoSession}]
  /\ \A c \in S!Clients : shard[c] # S!NoSession => ClientOf[shard[c]] = c
  /\ count \in Int
  /\ silent \in [ConnectedSessions -> 0 .. S!Bound]
  /\ timeouts \in [ConnectedSessions -> 0 .. (MaxTimeoutCount + 1)]
  /\ used \subseteq ConnectedSessions /\ S!Held \subseteq used /\ closed \subseteq used
  /\ wheel \in [S!Clients -> (-SlotSize) .. TimeoutTicks]
  /\ clock \in 0 .. (Interval - 1)
  /\ checker \in [S!Checkers -> Checks]
  /\ closing \in [left : SUBSET S!Shards, step : {"idle", "clear", "count"}, calls : Nat]
  /\ shardCrossed \in BOOLEAN

ShardInv ==
  /\ ShardTypes /\ Counted
  /\ \A k \in S!Checkers : CheckOK(k)
  /\ \A s \in ConnectedSessions : Watched(s)

-----------------------------------------------------------------------------

\* The bound on a session's silence, and products with the interval of the checks.
LEMMA BoundFacts ==
  /\ S!Bound \in Nat /\ Interval \in Nat /\ Interval >= 1
  /\ \A n \in Nat : /\ n * Interval \in Nat /\ (n + 1) * Interval = n * Interval + Interval
                    /\ n < MaxTimeoutCount => n * Interval + Interval <= MaxTimeoutCount * Interval
<1>1. Interval \in Nat /\ Interval >= 1 /\ MaxTimeoutCount \in Nat /\ Grace \in Nat
  BY ShardAssumption
<1>2. \A n \in Nat : n * Interval \in Nat /\ (n + 1) * Interval = n * Interval + Interval
  BY <1>1
<1>3. ASSUME NEW n \in Nat, n < MaxTimeoutCount PROVE n * Interval + Interval <= MaxTimeoutCount * Interval
  <2>1. PICK d \in Nat : MaxTimeoutCount = (n + 1) + d
    <3>1. MaxTimeoutCount - (n + 1) \in Nat /\ MaxTimeoutCount = (n + 1) + (MaxTimeoutCount - (n + 1))
      BY <1>1, <1>3
    <3> QED BY <3>1
  <2>2. ((n + 1) + d) * Interval = (n + 1) * Interval + d * Interval
    BY <1>1
  <2>3. MaxTimeoutCount * Interval = n * Interval + Interval + d * Interval
    BY <1>2, <2>1, <2>2
  <2> QED BY <1>2, <2>1, <2>3, <1>1
<1>4. S!Bound \in Nat
  BY <1>1, <1>2 DEF S!Bound
<1> QED BY <1>1, <1>2, <1>3, <1>4

\* The sessions that are held are not more than those that ever connected.
LEMMA Sizes ==
  ASSUME S!Held \subseteq used, used \subseteq ConnectedSessions
  PROVE  /\ IsFiniteSet(S!Held) /\ IsFiniteSet(used)
         /\ Cardinality(S!Held) \in Nat /\ Cardinality(used) \in Nat
         /\ Cardinality(ConnectedSessions) \in Nat
         /\ Cardinality(S!Held) <= Cardinality(used) /\ Cardinality(used) <= Cardinality(ConnectedSessions)
<1>1. IsFiniteSet(used) /\ IsFiniteSet(S!Held)
  BY ShardAssumption, FS_Subset
<1> QED BY <1>1, ShardAssumption, FS_Subset, FS_CardinalityType

\* A client's session and the sessions that are held.
LEMMA HeldFacts ==
  ASSUME ShardTypes
  PROVE  /\ \A s \in ConnectedSessions : ClientOf[s] \in S!Clients /\ Home(s) \in S!Shards /\ Home(s) \in S!Checkers
                               /\ Home(s) # "wheel" /\ (s \in S!Held <=> shard[ClientOf[s]] = s)
         /\ \A c \in S!Clients : shard[c] # S!NoSession => shard[c] \in S!Held /\ shard[c] \in ConnectedSessions
                                                       /\ ClientOf[shard[c]] = c
         /\ "wheel" \in S!Checkers
<1>1. \A s \in ConnectedSessions : ClientOf[s] \in S!Clients /\ Home(s) \in S!Shards
  BY DEF S!Clients, S!Shards, Home
<1>2. \A s \in ConnectedSessions : s # S!NoSession
  BY ShardAssumption
<1>3. \A s \in ConnectedSessions : s \in S!Held <=> shard[ClientOf[s]] = s
  BY <1>1, <1>2 DEF ShardTypes, S!Held
<1>4. \A c \in S!Clients : shard[c] # S!NoSession => shard[c] \in S!Held /\ shard[c] \in ConnectedSessions
                                                /\ ClientOf[shard[c]] = c
  BY DEF ShardTypes, S!Held
<1> QED BY <1>1, <1>3, <1>4, ShardAssumption DEF S!Checkers

\* At the start there are no sessions.
LEMMA ShardInit == S!Init => ShardInv
<1> SUFFICES ASSUME S!Init PROVE ShardInv
  OBVIOUS
<1>1. S!Held = {}
  BY ShardAssumption DEF S!Init, S!Held
<1>2. ShardTypes
  <2>1. 0 \in 0 .. S!Bound /\ 0 \in 0 .. (MaxTimeoutCount + 1) /\ 0 \in 0 .. (Interval - 1)
    BY BoundFacts, ShardAssumption
  <2>2. S!Absent \in (-SlotSize) .. TimeoutTicks
    BY ShardAssumption DEF S!Absent
  <2>3. S!NoCheck \in Checks
    BY DEF S!NoCheck, Checks
  <2>4. shard \in [S!Clients -> ConnectedSessions \cup {S!NoSession}] /\ \A c \in S!Clients : shard[c] = S!NoSession
    BY DEF S!Init
  <2>5. /\ silent \in [ConnectedSessions -> 0 .. S!Bound]
        /\ timeouts \in [ConnectedSessions -> 0 .. (MaxTimeoutCount + 1)]
    BY <2>1 DEF S!Init
  <2>6. wheel \in [S!Clients -> (-SlotSize) .. TimeoutTicks] /\ checker \in [S!Checkers -> Checks]
    BY <2>2, <2>3 DEF S!Init
  <2>7. closing \in [left : SUBSET S!Shards, step : {"idle", "clear", "count"}, calls : Nat]
    BY DEF S!Init
  <2>8. count \in Int /\ used \subseteq ConnectedSessions /\ S!Held \subseteq used /\ closed \subseteq used
    BY <1>1 DEF S!Init
  <2>9. clock \in 0 .. (Interval - 1) /\ shardCrossed \in BOOLEAN
    BY <2>1 DEF S!Init
  <2> QED BY <2>4, <2>5, <2>6, <2>7, <2>8, <2>9 DEF ShardTypes
<1>3. Counted
  BY <1>1, FS_EmptySet DEF S!Init, Counted
<1>4. \A k \in S!Checkers : CheckOK(k)
  BY DEF S!Init, CheckOK, S!NoCheck
<1>5. ASSUME NEW s \in ConnectedSessions PROVE Watched(s)
  <2>1. Home(s) \in S!Checkers /\ "wheel" \in S!Checkers
    BY HeldFacts, <1>2
  <2>2. ~ByShard(s) /\ ~ByWheel(s)
    BY <2>1 DEF ByShard, ByWheel, S!Init, S!NoCheck
  <2> QED BY <1>1, <2>2, <1>5 DEF S!Init, Watched
<1> QED BY <1>2, <1>3, <1>4, <1>5 DEF ShardInv

\* A session is taken out of its shard, or none.
LEMMA RemoveHeld ==
  ASSUME ShardTypes, NEW c \in S!Clients, S!Remove(c)
  PROVE  /\ shard' \in [S!Clients -> ConnectedSessions \cup {S!NoSession}]
         /\ \A d \in S!Clients : shard'[d] # S!NoSession => shard'[d] = shard[d] /\ d # c
         /\ wheel' \in [S!Clients -> (-SlotSize) .. TimeoutTicks]
         /\ S!Held' = S!Held \ {shard[c]}
         /\ count' \in Int /\ Cardinality(S!Held') \in Nat
         /\ Cardinality(S!Held') - Cardinality(S!Held) = count' - count
<1>1. shard' = [shard EXCEPT ![c] = S!NoSession]
  BY DEF S!Remove
<1>2. S!Absent \in (-SlotSize) .. TimeoutTicks
  BY ShardAssumption DEF S!Absent
<1>3. wheel' \in [S!Clients -> (-SlotSize) .. TimeoutTicks]
  BY <1>2 DEF S!Remove, S!Unregister, ShardTypes
<1>4. \A d \in S!Clients : shard'[d] = IF d = c THEN S!NoSession ELSE shard[d]
  BY <1>1 DEF ShardTypes
<1>5. S!Held' = S!Held \ {shard[c]}
  <2>1. ASSUME NEW s \in S!Held' PROVE s \in S!Held /\ s # shard[c]
    <3>1. PICK d \in S!Clients : shard'[d] = s
      BY <2>1 DEF S!Held
    <3>2. d # c /\ shard[d] = s /\ s \in ConnectedSessions
      BY <3>1, <1>4, <2>1, ShardAssumption DEF S!Held
    <3> QED BY <3>2, HeldFacts, ShardAssumption DEF S!Held
  <2>2. ASSUME NEW s \in S!Held, s # shard[c] PROVE s \in S!Held'
    BY <2>2, <1>4 DEF S!Held
  <2> QED BY <2>1, <2>2
<1>6. IsFiniteSet(S!Held) /\ Cardinality(S!Held) \in Nat /\ count \in Int
  BY Sizes DEF ShardTypes
<1>7. CASE shard[c] = S!NoSession
  <2>1. S!Held' = S!Held
    BY <1>5, <1>7, ShardAssumption DEF S!Held
  <2> QED BY <2>1, <1>1, <1>3, <1>4, <1>5, <1>6, <1>7 DEF S!Remove, ShardTypes
<1>8. CASE shard[c] # S!NoSession
  <2>1. shard[c] \in S!Held
    BY <1>8, HeldFacts
  <2>2. Cardinality(S!Held') = Cardinality(S!Held) - 1
    BY <1>5, <1>6, <2>1, FS_RemoveElement
  <2>3. Cardinality(S!Held') \in Nat
    BY <1>5, <1>6, FS_RemoveElement, FS_CardinalityType
  <2>4. count' = count - 1
    BY <1>8 DEF S!Remove
  <2>5. count' \in Int /\ Cardinality(S!Held') - Cardinality(S!Held) = count' - count
    BY <2>2, <2>3, <2>4, <1>6
  <2>6. shard' \in [S!Clients -> ConnectedSessions \cup {S!NoSession}]
    BY <1>1 DEF ShardTypes
  <2> QED BY <2>3, <2>5, <2>6, <1>3, <1>4, <1>5
<1> QED BY <1>7, <1>8

\* What is watched of a session when shards lose sessions and no checker moves on.
LEMMA WatchedShrinks ==
  ASSUME ShardTypes, NEW s \in ConnectedSessions, Watched(s), S!Held' \subseteq S!Held,
         s \in S!Held' <=> shard'[ClientOf[s]] = s,
         UNCHANGED <<timeouts, silent, clock, used>>,
         \A k \in S!Checkers : checker'[k].due = checker[k].due /\ checker'[k].todo = checker[k].todo,
         s \in S!Held' /\ Doomed(s) => Doomed(s)'
  PROVE  Watched(s)'
<1>1. Home(s) \in S!Checkers /\ "wheel" \in S!Checkers /\ (s \in S!Held <=> shard[ClientOf[s]] = s)
  BY HeldFacts
<1>2. ByShard(s)' => ByShard(s)
  BY <1>1 DEF ByShard, Home
<1>3. s \in S!Held' => s \in S!Held /\ (ByShard(s)' <=> ByShard(s))
  BY <1>1 DEF ByShard, Home
<1>4. ByWheel(s)' => ByWheel(s)
  BY <1>1 DEF ByWheel
<1> QED BY <1>1, <1>2, <1>3, <1>4 DEF Watched

\* The sessions held after shards have lost some.
LEMMA HeldShrinks ==
  ASSUME ShardTypes, shard' \in [S!Clients -> ConnectedSessions \cup {S!NoSession}],
         \A d \in S!Clients : shard'[d] # S!NoSession => shard'[d] = shard[d]
  PROVE  /\ S!Held' \subseteq S!Held
         /\ \A s \in ConnectedSessions : s \in S!Held' <=> shard'[ClientOf[s]] = s
         /\ \A c \in S!Clients : shard'[c] # S!NoSession => ClientOf[shard'[c]] = c
<1>1. \A s \in ConnectedSessions : s # S!NoSession /\ ClientOf[s] \in S!Clients
  BY ShardAssumption DEF S!Clients
<1>2. ASSUME NEW s \in S!Held' PROVE s \in S!Held
  BY <1>1, <1>2 DEF S!Held
<1>3. \A c \in S!Clients : shard'[c] # S!NoSession => ClientOf[shard'[c]] = c
  BY DEF ShardTypes
<1> QED BY <1>1, <1>2, <1>3 DEF S!Held

\* Leave, and the removal of RemoveJudged.
LEMMA RemoveStep ==
  ASSUME ShardInv, NEW c \in S!Clients, S!Remove(c),
         UNCHANGED <<silent, timeouts, used, closed, clock, closing, shardCrossed>>,
         checker' \in [S!Checkers -> Checks],
         \A k \in S!Checkers : CheckOK(k)',
         \A k \in S!Checkers : checker'[k].due = checker[k].due /\ checker'[k].todo = checker[k].todo,
         \A s \in ConnectedSessions : s \in S!Held' /\ Doomed(s) => Doomed(s)'
  PROVE  ShardInv'
<1>1. ShardTypes /\ Counted
  BY DEF ShardInv
<1>2. /\ shard' \in [S!Clients -> ConnectedSessions \cup {S!NoSession}]
      /\ \A d \in S!Clients : shard'[d] # S!NoSession => shard'[d] = shard[d] /\ d # c
      /\ wheel' \in [S!Clients -> (-SlotSize) .. TimeoutTicks]
      /\ count' \in Int /\ Cardinality(S!Held') \in Nat
      /\ Cardinality(S!Held') - Cardinality(S!Held) = count' - count
  BY <1>1, RemoveHeld
<1>3. /\ S!Held' \subseteq S!Held
      /\ \A s \in ConnectedSessions : s \in S!Held' <=> shard'[ClientOf[s]] = s
      /\ \A d \in S!Clients : shard'[d] # S!NoSession => ClientOf[shard'[d]] = d
  BY <1>1, <1>2, HeldShrinks
<1>4. ShardTypes'
  BY <1>1, <1>2, <1>3 DEF ShardTypes
<1>5. Counted'
  <2>1. /\ Cardinality(S!Held) \in Nat /\ Cardinality(used) \in Nat /\ count \in Int
        /\ Cardinality(S!Held') <= Cardinality(S!Held)
    <3>1. S!Held' \subseteq S!Held /\ IsFiniteSet(S!Held)
      BY <1>1, <1>3, Sizes DEF ShardTypes
    <3> QED BY <1>1, <3>1, Sizes, FS_Subset DEF ShardTypes
  <2> QED BY <1>1, <1>2, <1>3, <2>1 DEF Counted
<1>6. \A s \in ConnectedSessions : Watched(s)'
  BY <1>1, <1>3, WatchedShrinks DEF ShardInv
<1> QED BY <1>4, <1>5, <1>6 DEF ShardInv

\* A client leaves: its session is removed and counted out.
LEMMA ShardLeaveStep ==
  ASSUME ShardInv, NEW c \in S!Clients, S!Leave(c)
  PROVE  ShardInv'
<1>1. S!Remove(c) /\ UNCHANGED <<silent, timeouts, used, closed, clock, checker, closing, shardCrossed>>
  BY DEF S!Leave
<1>2. \A k \in S!Checkers : CheckOK(k)'
  BY <1>1 DEF ShardInv, CheckOK
<1>3. \A s \in ConnectedSessions : Doomed(s) => Doomed(s)'
  BY <1>1 DEF Doomed
<1> QED BY <1>1, <1>2, <1>3, RemoveStep DEF ShardInv, ShardTypes

\* A checker removes the session it has found silent for too long.
LEMMA RemoveJudgedStep ==
  ASSUME ShardInv, NEW k \in S!Checkers, S!RemoveJudged(k)
  PROVE  ShardInv'
<1> DEFINE x == [due |-> checker[k].due, todo |-> checker[k].todo,
                 step |-> IF k = "wheel" THEN "unregister" ELSE "idle",
                 at |-> IF k = "wheel" THEN checker[k].at ELSE S!NoSession]
<1>0. checker[k] \in Checks /\ CheckOK(k) /\ ShardTypes /\ checker[k].step = "remove"
  BY DEF ShardInv, ShardTypes, S!RemoveJudged
<1>1. checker' = [checker EXCEPT ![k] = x]
  <2> DEFINE y == [checker[k] EXCEPT !.step = IF k = "wheel" THEN "unregister" ELSE "idle"]
  <2>2. y = [due |-> checker[k].due, todo |-> checker[k].todo,
             step |-> IF k = "wheel" THEN "unregister" ELSE "idle", at |-> checker[k].at]
    BY <1>0 DEF Checks
  <2> HIDE DEF y
  <2>1. [y EXCEPT !.at = IF k = "wheel" THEN @ ELSE S!NoSession] = x
    BY <2>2
  <2> QED BY <2>1, <1>0 DEF S!RemoveJudged, ShardTypes, y
<1>2. checker[k].at \in ConnectedSessions /\ ClientOf[checker[k].at] \in S!Clients
  BY <1>0, HeldFacts DEF CheckOK
<1>3. S!Remove(ClientOf[checker[k].at])
      /\ UNCHANGED <<silent, timeouts, used, closed, clock, closing, shardCrossed>>
  BY DEF S!RemoveJudged
<1>4. checker' \in [S!Checkers -> Checks]
  BY <1>0, <1>1 DEF ShardTypes, Checks
<1>5. \A q \in S!Checkers : checker'[q] = IF q = k THEN x ELSE checker[q]
  BY <1>0, <1>1 DEF ShardTypes
<1>6. \A q \in S!Checkers : CheckOK(q)'
  BY <1>0, <1>2, <1>3, <1>5 DEF ShardInv, CheckOK, Home
<1>7. checker[k].at \notin S!Held'
  <2>1. S!Held' = S!Held \ {shard[ClientOf[checker[k].at]]}
    BY <1>0, <1>2, <1>3, RemoveHeld
  <2> QED BY <2>1, <1>0, <1>2, HeldFacts
<1>8. \A s \in ConnectedSessions : s \in S!Held' /\ Doomed(s) => Doomed(s)'
  BY <1>5, <1>7 DEF Doomed
<1>9. \A q \in S!Checkers : checker'[q].due = checker[q].due /\ checker'[q].todo = checker[q].todo
  BY <1>5
<1> QED BY <1>2, <1>3, <1>4, <1>6, <1>8, <1>9, RemoveStep

\* The wheel forgets the client it has removed.
LEMMA UnregisterStep ==
  ASSUME ShardInv, S!UnregisterJudged
  PROVE  ShardInv'
<1> DEFINE k == "wheel"
           x == [due |-> checker[k].due, todo |-> checker[k].todo, step |-> "idle", at |-> S!NoSession]
<1>0. /\ k \in S!Checkers /\ checker[k] \in Checks /\ CheckOK(k) /\ ShardTypes
      /\ checker[k].step = "unregister"
  BY HeldFacts DEF ShardInv, ShardTypes, S!UnregisterJudged
<1>1. checker' = [checker EXCEPT ![k] = x]
  <2> DEFINE y == [checker[k] EXCEPT !.step = "idle"]
  <2>2. y = [due |-> checker[k].due, todo |-> checker[k].todo, step |-> "idle", at |-> checker[k].at]
    BY <1>0 DEF Checks
  <2> HIDE DEF y
  <2>1. [y EXCEPT !.at = S!NoSession] = x
    BY <2>2
  <2> QED BY <2>1, <1>0 DEF S!UnregisterJudged, ShardTypes, y
<1>2. /\ UNCHANGED <<shard, count, silent, timeouts, used, closed, clock, closing, shardCrossed>>
      /\ S!Held' = S!Held
  BY DEF S!UnregisterJudged, S!Held
<1>3. wheel' \in [S!Clients -> (-SlotSize) .. TimeoutTicks]
  <2>1. S!Absent \in (-SlotSize) .. TimeoutTicks
    BY ShardAssumption DEF S!Absent
  <2> QED BY <2>1, <1>0 DEF S!UnregisterJudged, S!Unregister, ShardTypes
<1>4. checker' \in [S!Checkers -> Checks]
  BY <1>0, <1>1 DEF ShardTypes, Checks
<1>5. \A q \in S!Checkers : checker'[q] = IF q = k THEN x ELSE checker[q]
  BY <1>0, <1>1 DEF ShardTypes
<1>6. \A q \in S!Checkers : CheckOK(q)'
  BY <1>0, <1>2, <1>5 DEF ShardInv, CheckOK, Home
<1>7. \A s \in ConnectedSessions : Doomed(s) => Doomed(s)'
  BY <1>0, <1>5 DEF Doomed
<1>8. \A q \in S!Checkers : checker'[q].due = checker[q].due /\ checker'[q].todo = checker[q].todo
  BY <1>5
<1>9. \A s \in ConnectedSessions : Watched(s)'
  BY <1>0, <1>2, <1>7, <1>8, HeldFacts, WatchedShrinks DEF ShardInv
<1>10. ShardTypes'
  BY <1>0, <1>2, <1>3, <1>4 DEF ShardTypes
<1>11. Counted'
  BY <1>2 DEF ShardInv, Counted
<1> QED BY <1>6, <1>9, <1>10, <1>11 DEF ShardInv

\* Sessions closed, shards emptied, the counter zeroed.
LEMMA CloseAllStep ==
  ASSUME ShardInv, S!CloseSessions \/ S!ClearShard \/ S!StoreZero
  PROVE  ShardInv'
<1>0. ShardTypes /\ Counted /\ closing.calls \in Nat
  BY DEF ShardInv, ShardTypes
<1>1. UNCHANGED <<silent, timeouts, used, wheel, clock, checker, shardCrossed>>
  BY DEF S!CloseSessions, S!ClearShard, S!StoreZero
<1>2. /\ shard' \in [S!Clients -> ConnectedSessions \cup {S!NoSession}]
      /\ \A d \in S!Clients : shard'[d] # S!NoSession => shard'[d] = shard[d]
  BY <1>0 DEF S!CloseSessions, S!ClearShard, S!StoreZero, ShardTypes
<1>3. /\ S!Held' \subseteq S!Held
      /\ \A s \in ConnectedSessions : s \in S!Held' <=> shard'[ClientOf[s]] = s
      /\ \A d \in S!Clients : shard'[d] # S!NoSession => ClientOf[shard'[d]] = d
  BY <1>0, <1>2, HeldShrinks
<1>4. \A q \in S!Checkers : CheckOK(q)'
  BY <1>1 DEF ShardInv, CheckOK
<1>5. \A s \in ConnectedSessions : Doomed(s) => Doomed(s)'
  BY <1>1 DEF Doomed
<1>6. \A s \in ConnectedSessions : Watched(s)'
  BY <1>0, <1>1, <1>3, <1>5, WatchedShrinks DEF ShardInv
<1>7. closing' \in [left : SUBSET S!Shards, step : {"idle", "clear", "count"}, calls : Nat]
      /\ count' \in Int /\ closed' \subseteq used
  <2>1. CASE S!CloseSessions
    <3>1. closing' = [left |-> S!Shards, step |-> "clear", calls |-> closing.calls + 1]
      BY <2>1 DEF S!CloseSessions
    <3> QED BY <2>1, <3>1, <1>0 DEF S!CloseSessions, ShardTypes
  <2>2. CASE S!ClearShard
    <3>1. PICK k \in closing.left :
            closing' = [closing EXCEPT !.left = @ \ {k},
                                       !.step = IF closing.left = {k} THEN "count" ELSE @]
      BY <2>2 DEF S!ClearShard
    <3>2. closing' \in [left : SUBSET S!Shards, step : {"idle", "clear", "count"}, calls : Nat]
      BY <1>0, <3>1 DEF ShardTypes
    <3> QED BY <1>0, <2>2, <3>2 DEF S!ClearShard, ShardTypes
  <2>3. CASE S!StoreZero
    BY <1>0, <2>3 DEF S!StoreZero, ShardTypes
  <2> QED BY <2>1, <2>2, <2>3
<1>8. ShardTypes'
  BY <1>0, <1>1, <1>2, <1>3, <1>7 DEF ShardTypes
<1>9. /\ Cardinality(S!Held) \in Nat /\ Cardinality(used) \in Nat /\ count \in Int
      /\ Cardinality(S!Held') \in Nat /\ Cardinality(S!Held') <= Cardinality(S!Held)
      /\ Cardinality(S!Held) <= Cardinality(used)
  <2>1. S!Held' \subseteq S!Held /\ IsFiniteSet(S!Held)
    BY <1>0, <1>3, Sizes DEF ShardTypes
  <2> QED BY <1>0, <2>1, Sizes, FS_Subset, FS_CardinalityType DEF ShardTypes
<1>10. Counted'
  <2>1. CASE S!CloseSessions
    <3>1. /\ S!Held' = S!Held /\ UNCHANGED <<shard, count>> /\ closing'.step = "clear"
          /\ closing'.left = S!Shards
      BY <2>1 DEF S!CloseSessions, S!Held
    <3>2. \A c \in S!Clients : ShardOf[c] \in S!Shards
      BY DEF S!Shards
    <3> QED BY <1>0, <1>1, <3>1, <3>2 DEF Counted
  <2>2. CASE S!ClearShard
    <3>1. UNCHANGED count /\ closing.step = "clear"
      BY <2>2 DEF S!ClearShard
    <3>2. PICK k \in closing.left :
            /\ shard' = [c \in S!Clients |-> IF ShardOf[c] = k THEN S!NoSession ELSE shard[c]]
            /\ closing' = [closing EXCEPT !.left = @ \ {k},
                                          !.step = IF closing.left = {k} THEN "count" ELSE @]
      BY <2>2 DEF S!ClearShard
    <3>3. closing'.left = closing.left \ {k}
          /\ closing'.step = IF closing.left = {k} THEN "count" ELSE "clear"
      BY <1>0, <3>1, <3>2 DEF ShardTypes
    <3>4. ~shardCrossed => \A c \in S!Clients : shard'[c] # S!NoSession => ShardOf[c] \in closing'.left
      BY <1>0, <3>1, <3>2, <3>3 DEF Counted
    <3>5. ~shardCrossed /\ closing'.step = "count" => S!Held' = {}
      <4> SUFFICES ASSUME ~shardCrossed, closing'.step = "count", NEW s \in S!Held' PROVE FALSE
        OBVIOUS
      <4>1. closing'.left = {}
        BY <3>3
      <4>2. s \in ConnectedSessions /\ ClientOf[s] \in S!Clients /\ shard'[ClientOf[s]] # S!NoSession
        BY <1>3, ShardAssumption DEF S!Held, S!Clients
      <4> QED BY <3>4, <4>1, <4>2
    <3> QED BY <1>0, <1>1, <1>9, <3>1, <3>3, <3>4, <3>5 DEF Counted
  <2>3. CASE S!StoreZero
    <3>1. S!Held' = S!Held /\ count' = 0 /\ closing.step = "count" /\ closing'.step = "idle"
      BY <2>3, <1>0 DEF S!StoreZero, S!Held, ShardTypes
    <3>2. ~shardCrossed => Cardinality(S!Held) = 0
      BY <1>0, <3>1, FS_EmptySet DEF Counted
    <3> QED BY <1>1, <1>9, <3>1, <3>2 DEF Counted
  <2> QED BY <2>1, <2>2, <2>3
<1> QED BY <1>4, <1>6, <1>8, <1>10 DEF ShardInv

\* A client connects, perhaps over a session that is still held.
LEMMA ShardAddStep ==
  ASSUME ShardInv, NEW s \in ConnectedSessions, S!Add(s)
  PROVE  ShardInv'
<1>0. ShardTypes /\ Counted /\ ClientOf[s] \in S!Clients /\ s # S!NoSession
  BY ShardAssumption DEF ShardInv, S!Clients
<1>1. /\ s \notin used /\ shard[ClientOf[s]] = S!NoSession /\ used' = used \cup {s} /\ count' = count + 1
      /\ UNCHANGED <<silent, timeouts, closed, clock, checker, closing>>
  BY DEF S!Add
<1>2. \A d \in S!Clients : shard'[d] = IF d = ClientOf[s] THEN s ELSE shard[d]
  BY <1>0 DEF S!Add, ShardTypes
<1>3. shard' \in [S!Clients -> ConnectedSessions \cup {S!NoSession}] /\ (shardCrossed' \in BOOLEAN)
  BY <1>0 DEF S!Add, ShardTypes
<1>4. S!Held' = S!Held \cup {s}
  <2>1. ASSUME NEW q \in ConnectedSessions PROVE q \in S!Held' <=> q \in S!Held \/ q = s
    <3>1. q # S!NoSession
      BY ShardAssumption
    <3> QED BY <1>0, <1>1, <1>2, <3>1 DEF S!Held
  <2>2. S!Held \subseteq ConnectedSessions /\ S!Held' \subseteq ConnectedSessions
    BY DEF S!Held
  <2> QED BY <2>1, <2>2
<1>5. s \notin S!Held
  BY <1>0, <1>1 DEF ShardTypes
<1>6. wheel' \in [S!Clients -> (-SlotSize) .. TimeoutTicks]
  <2>1. TimeoutTicks \in (-SlotSize) .. TimeoutTicks
    BY ShardAssumption
  <2> QED BY <2>1, <1>0 DEF S!Add, S!Register, ShardTypes
<1>7. ShardTypes'
  BY <1>0, <1>1, <1>2, <1>3, <1>4, <1>6 DEF ShardTypes
<1>8. Counted'
  <2>1. IsFiniteSet(S!Held) /\ IsFiniteSet(used) /\ Cardinality(S!Held) \in Nat /\ Cardinality(used) \in Nat
        /\ count \in Int
    BY <1>0, Sizes DEF ShardTypes
  <2>2. Cardinality(S!Held') = Cardinality(S!Held) + 1 /\ Cardinality(used') = Cardinality(used) + 1
    BY <1>1, <1>4, <1>5, <2>1, FS_AddElement
  <2>3. ~shardCrossed' => ~shardCrossed /\ closing.step = "idle"
    BY <1>0 DEF S!Add, ShardTypes
  <2> QED BY <1>0, <1>1, <2>1, <2>2, <2>3 DEF Counted
<1>9. \A k \in S!Checkers : CheckOK(k)'
  BY <1>1 DEF ShardInv, CheckOK, Home
<1>10. ASSUME NEW q \in ConnectedSessions PROVE Watched(q)'
  <2>1. /\ Home(q) \in S!Checkers /\ ClientOf[q] \in S!Clients /\ "wheel" \in S!Checkers /\ Watched(q)
        /\ q # S!NoSession /\ (q \in S!Held <=> shard[ClientOf[q]] = q)
    BY <1>0, HeldFacts, ShardAssumption DEF ShardInv
  <2>2. CASE q = s
    <3>1. /\ timeouts'[q] = 0 /\ silent'[q] = 0 /\ q \in used' /\ 0 * Interval = 0
          /\ (0 + 1) * Interval = Interval
      BY <1>1, <2>1, <2>2, ShardAssumption DEF Watched
    <3>2. /\ clock' = clock /\ clock \in Nat /\ Interval \in Nat /\ Grace \in Nat /\ MaxTimeoutCount >= 1
          /\ MaxTimeoutCount \in Nat
      BY <1>0, <1>1, ShardAssumption DEF ShardTypes
    <3>4. 0 <= Grace + 0 + clock /\ 0 <= Grace + Interval
      BY <3>2
    <3>5. ~(0 >= MaxTimeoutCount)
      BY <3>2
    <3>6. 0 <= MaxTimeoutCount /\ 0 < MaxTimeoutCount
      BY <3>2
    <3>3. /\ 0 <= Grace + 0 + clock /\ 0 <= Grace + Interval
          /\ ~(0 >= MaxTimeoutCount) /\ 0 <= MaxTimeoutCount /\ 0 < MaxTimeoutCount
      BY <3>4, <3>5, <3>6
    <3> QED BY <3>1, <3>2, <3>3 DEF Watched
  <2>3. CASE q # s
    <3>1. q \in S!Held' <=> q \in S!Held
      BY <1>4, <2>3
    <3>2. (ByShard(q)' <=> ByShard(q)) /\ (Doomed(q)' <=> Doomed(q))
      BY <1>1, <3>1 DEF ByShard, Home, Doomed
    <3>3. ByWheel(q)' <=> ByWheel(q)
      BY <1>1, <1>2, <2>1, <2>3 DEF ByWheel
    <3>4. q \in used' <=> q \in used
      BY <1>1, <2>3
    <3> QED BY <1>1, <2>1, <3>1, <3>2, <3>3, <3>4 DEF Watched
  <2> QED BY <2>2, <2>3
<1> QED BY <1>7, <1>8, <1>9, <1>10 DEF ShardInv

\* A heartbeat ends the silence of its session.
LEMMA BeatStep ==
  ASSUME ShardInv, NEW s \in ConnectedSessions, S!Beat(s)
  PROVE  ShardInv'
<1>0. ShardTypes /\ Counted
  BY DEF ShardInv
<1>1. /\ UNCHANGED <<shard, count, used, closed, wheel, clock, checker, closing, shardCrossed>>
      /\ S!Held' = S!Held /\ s \in S!Held
  BY DEF S!Beat, S!Held
<1>2. /\ silent' \in [ConnectedSessions -> 0 .. S!Bound]
      /\ timeouts' \in [ConnectedSessions -> 0 .. (MaxTimeoutCount + 1)]
  <2>1. 0 \in 0 .. S!Bound /\ 0 \in 0 .. (MaxTimeoutCount + 1)
    BY BoundFacts, ShardAssumption
  <2> QED BY <2>1, <1>0 DEF S!Beat, ShardTypes
<1>3. ShardTypes'
  BY <1>0, <1>1, <1>2 DEF ShardTypes
<1>4. Counted' /\ \A k \in S!Checkers : CheckOK(k)'
  BY <1>1 DEF ShardInv, Counted, CheckOK
<1>5. ASSUME NEW q \in ConnectedSessions PROVE Watched(q)'
  <2>1. /\ Watched(q) /\ (ByShard(q)' <=> ByShard(q)) /\ (Doomed(q)' <=> Doomed(q))
        /\ (ByWheel(q)' <=> ByWheel(q))
    BY <1>1 DEF ShardInv, ByShard, Home, Doomed, ByWheel
  <2>2. CASE q = s
    <3>1. /\ timeouts'[q] = 0 /\ silent'[q] = 0 /\ q \in used' /\ 0 * Interval = 0
          /\ (0 + 1) * Interval = Interval
      BY <1>0, <1>1, <2>2, ShardAssumption DEF S!Beat, ShardTypes
    <3>2. /\ clock' = clock /\ clock \in Nat /\ Interval \in Nat /\ Grace \in Nat /\ MaxTimeoutCount >= 1
          /\ MaxTimeoutCount \in Nat
      BY <1>0, <1>1, ShardAssumption DEF ShardTypes
    <3>4. 0 <= Grace + 0 + clock /\ 0 <= Grace + Interval
      BY <3>2
    <3>5. ~(0 >= MaxTimeoutCount)
      BY <3>2
    <3>6. 0 <= MaxTimeoutCount /\ 0 < MaxTimeoutCount
      BY <3>2
    <3>3. /\ 0 <= Grace + 0 + clock /\ 0 <= Grace + Interval
          /\ ~(0 >= MaxTimeoutCount) /\ 0 <= MaxTimeoutCount /\ 0 < MaxTimeoutCount
      BY <3>4, <3>5, <3>6
    <3> QED BY <3>1, <3>2, <3>3 DEF Watched
  <2>3. CASE q # s
    <3>1. timeouts'[q] = timeouts[q] /\ silent'[q] = silent[q]
      BY <1>0, <2>3 DEF S!Beat, ShardTypes
    <3> QED BY <1>1, <2>1, <3>1 DEF Watched
  <2> QED BY <2>2, <2>3
<1> QED BY <1>3, <1>4, <1>5 DEF ShardInv

\* A checker takes its list of sessions.
LEMMA SnapshotStep ==
  ASSUME ShardInv, NEW k \in S!Checkers, S!Snapshot(k)
  PROVE  ShardInv'
<1> DEFINE x == [S!NoCheck EXCEPT !.todo = {s \in S!Held : ShardOf[ClientOf[s]] = k}]
<1>0. /\ ShardTypes /\ Counted /\ checker[k].due /\ CheckOK(k) /\ k # "wheel"
      /\ checker[k].todo = {} /\ checker[k].step = "idle"
  BY DEF ShardInv, S!Snapshot, CheckOK
<1>1. /\ UNCHANGED <<shard, count, silent, timeouts, used, closed, wheel, clock, closing, shardCrossed>>
      /\ S!Held' = S!Held
  BY DEF S!Snapshot, S!Held
<1>2. checker' = [checker EXCEPT ![k] = x]
  BY DEF S!Snapshot
<1>8. /\ ~x.due /\ x.todo = {s \in S!Held : Home(s) = k} /\ x.step = "idle"
      /\ x \in Checks
  BY DEF S!NoCheck, Home, Checks, S!Held
<1> HIDE DEF x
<1>3. checker' \in [S!Checkers -> Checks]
  BY <1>0, <1>2, <1>8 DEF ShardTypes
<1>4. \A q \in S!Checkers : checker'[q] = IF q = k THEN x ELSE checker[q]
  BY <1>0, <1>2 DEF ShardTypes
<1>5. \A q \in S!Checkers : CheckOK(q)'
  <2>1. ASSUME NEW q \in S!Checkers, q # k PROVE CheckOK(q)'
    BY <1>1, <1>4, <2>1 DEF ShardInv, CheckOK, Home
  <2>2. x.todo \subseteq {s \in used : Home(s) = k}
    BY <1>0, <1>8 DEF ShardTypes
  <2>3. checker'[k] = x /\ {s \in used : Home(s) = k} = {s \in used' : Home(s)' = k}
    BY <1>1, <1>4 DEF Home
  <2>4. CheckOK(k)'
    BY <1>0, <1>8, <2>2, <2>3 DEF CheckOK, Home
  <2> QED BY <2>1, <2>4
<1>6. ShardTypes' /\ Counted'
  BY <1>0, <1>1, <1>3 DEF ShardTypes, Counted
<1>7. ASSUME NEW s \in ConnectedSessions PROVE Watched(s)'
  <2>1. Watched(s) /\ Home(s) \in S!Checkers /\ "wheel" \in S!Checkers /\ Home(s)' = Home(s)
    BY <1>0, HeldFacts DEF ShardInv, Home
  <2>2. ByShard(s)' <=> ByShard(s)
    <3>1. CASE Home(s) = k
      <4>1. ~x.due /\ (s \in x.todo <=> s \in S!Held) /\ checker'[k] = x
        BY <1>4, <1>8, <3>1
      <4> QED BY <1>0, <1>1, <2>1, <3>1, <4>1 DEF ByShard
    <3>2. CASE Home(s) # k
      BY <1>0, <1>1, <1>4, <2>1, <3>2 DEF ByShard
    <3> QED BY <3>1, <3>2
  <2>3. ByWheel(s)' <=> ByWheel(s)
    BY <1>0, <1>1, <1>4, <2>1 DEF ByWheel
  <2>4. Doomed(s) => Doomed(s)'
    BY <1>0, <1>4 DEF Doomed
  <2>5. ByShard(s)' <=> ByShard(s)
    BY <2>2
  <2> QED BY <1>1, <2>1, <2>2, <2>3, <2>4 DEF Watched
<1> QED BY <1>5, <1>6, <1>7 DEF ShardInv

\* The clock of the wheel's tables.
LEMMA TickStep ==
  ASSUME ShardInv, S!Tick
  PROVE  ShardInv'
<1>0. ShardTypes /\ Counted /\ S!Quiet
  BY DEF ShardInv, S!Tick
<1>1. UNCHANGED <<shard, count, timeouts, used, closed, closing, shardCrossed>> /\ S!Held' = S!Held
  BY DEF S!Tick, S!Held
<1>2. \A k \in S!Checkers : ~checker[k].due /\ checker[k].todo = {} /\ checker[k].step = "idle"
  BY <1>0 DEF S!Quiet
<1>3. /\ clock \in Nat /\ clock < Interval /\ Interval \in Nat /\ Interval >= 1
      /\ (clock' = clock + 1 /\ clock' < Interval) \/ (clock' = 0 /\ clock = Interval - 1)
  <2>1. clock \in Nat /\ clock < Interval /\ Interval \in Nat /\ Interval >= 1
    BY <1>0, BoundFacts DEF ShardTypes
  <2>2. clock' = (clock + 1) % Interval
    BY DEF S!Tick
  <2>3. CASE clock + 1 < Interval
    <3>1. (clock + 1) % Interval = clock + 1
      BY <2>1, <2>3
    <3> QED BY <2>1, <2>2, <2>3, <3>1
  <2>4. CASE clock + 1 = Interval
    <3>1. Interval % Interval = 0
      BY <2>1
    <3> QED BY <2>1, <2>2, <2>4, <3>1
  <2> QED BY <2>1, <2>3, <2>4
<1>4. clock' \in 0 .. (Interval - 1)
  BY <1>3
<1>5. wheel' \in [S!Clients -> (-SlotSize) .. TimeoutTicks]
  <2>1. \A x \in (-SlotSize) .. TimeoutTicks : S!Turn(x) \in (-SlotSize) .. TimeoutTicks
    BY ShardAssumption DEF S!Turn, S!Absent
  <2> QED BY <2>1, <1>0 DEF S!Tick, ShardTypes
<1>6. \A k \in S!Checkers : /\ checker'[k].step = "idle" /\ checker'[k].at = S!NoSession
                            /\ k # "wheel" => checker'[k].due = (clock' = 0) /\ checker'[k].todo = {}
                            /\ k = "wheel" => ~checker'[k].due /\ checker'[k].todo \subseteq S!Clients
  BY DEF S!Tick, S!NoCheck
<1>7. checker' \in [S!Checkers -> Checks]
  <2>1. checker' = [k \in S!Checkers |->
           IF k = "wheel"
           THEN [S!NoCheck EXCEPT !.todo = {c \in S!Clients : wheel'[c] = 0}]
           ELSE [S!NoCheck EXCEPT !.due = (clock' = 0)]]
    BY DEF S!Tick
  <2>2. [S!NoCheck EXCEPT !.todo = {c \in S!Clients : wheel'[c] = 0}] \in Checks
    BY DEF S!NoCheck, Checks
  <2>3. [S!NoCheck EXCEPT !.due = (clock' = 0)] \in Checks
    BY DEF S!NoCheck, Checks
  <2> QED BY <2>1, <2>2, <2>3
<1>8. \A k \in S!Checkers : CheckOK(k)'
  BY <1>6 DEF CheckOK
<1>9. ASSUME NEW s \in ConnectedSessions
      PROVE  /\ silent'[s] \in 0 .. S!Bound /\ Watched(s)'
             /\ silent' \in [ConnectedSessions -> Nat]
  <2>1. Watched(s) /\ Home(s) \in S!Checkers /\ Home(s) # "wheel" /\ "wheel" \in S!Checkers
    BY <1>0, HeldFacts DEF ShardInv
  <2>2. silent[s] \in Nat /\ silent[s] <= S!Bound /\ timeouts[s] \in Nat /\ S!Bound \in Nat /\ Grace \in Nat
        /\ MaxTimeoutCount \in Nat /\ MaxTimeoutCount >= 1 /\ S!Bound = Grace + MaxTimeoutCount * Interval
    BY <1>0, BoundFacts, ShardAssumption DEF ShardTypes, S!Bound
  <2>3. silent'[s] = IF s \in S!Held THEN (IF silent[s] > S!Bound THEN silent[s] ELSE silent[s] + 1) ELSE silent[s]
    BY DEF S!Tick
  <2>4. ~ByShard(s) /\ ~Doomed(s)
    BY <1>2, <2>1 DEF ByShard, Doomed
  <2>5. s \in S!Held => /\ silent'[s] = silent[s] + 1 /\ timeouts[s] < MaxTimeoutCount
                        /\ silent[s] <= Grace + timeouts[s] * Interval + clock
    BY <2>1, <2>2, <2>3, <2>4 DEF Watched
  <2>6. timeouts[s] * Interval \in Nat /\ (timeouts[s] + 1) * Interval = timeouts[s] * Interval + Interval
        /\ (timeouts[s] < MaxTimeoutCount => timeouts[s] * Interval + Interval <= MaxTimeoutCount * Interval)
        /\ MaxTimeoutCount * Interval \in Nat
    BY <2>2, BoundFacts
  <2> HIDE DEF S!Bound
  <2>7. silent'[s] \in 0 .. S!Bound
    <3>1. CASE s \in S!Held
      BY <1>3, <2>2, <2>5, <2>6, <3>1
    <3>2. CASE s \notin S!Held
      BY <2>2, <2>3, <3>2
    <3> QED BY <3>1, <3>2
  <2>8. ByShard(s)' <=> (clock' = 0 /\ s \in S!Held)
    BY <1>1, <1>6, <2>1 DEF ByShard, Home
  <2>9. ByWheel(s)' => s \in S!Held
    BY <1>0, <1>1, <2>1, HeldFacts DEF ByWheel
  <2>10. s \in S!Held /\ ~ByShard(s)' => silent'[s] <= Grace + timeouts'[s] * Interval + clock'
    BY <1>1, <1>3, <2>2, <2>5, <2>6, <2>8
  <2>11. s \in S!Held /\ ByShard(s)' => silent'[s] <= Grace + (timeouts'[s] + 1) * Interval
    BY <1>1, <1>3, <2>2, <2>5, <2>6, <2>8
  <2>12. s \in S!Held => ~(timeouts'[s] >= MaxTimeoutCount) /\ timeouts'[s] < MaxTimeoutCount
                       /\ timeouts'[s] <= MaxTimeoutCount
    BY <1>1, <2>2, <2>5
  <2>13. s \notin used' => timeouts'[s] = 0 /\ silent'[s] = 0
    BY <1>0, <1>1, <2>1, <2>3 DEF Watched, ShardTypes
  <2>14. Watched(s)'
    BY <1>1, <2>8, <2>9, <2>10, <2>11, <2>12, <2>13 DEF Watched
  <2>15. silent' \in [ConnectedSessions -> Nat]
    BY <1>0, BoundFacts DEF S!Tick, ShardTypes
  <2> QED BY <2>7, <2>14, <2>15
<1>10. silent' \in [ConnectedSessions -> 0 .. S!Bound]
  <2>1. DOMAIN silent' = ConnectedSessions /\ silent' = [s \in ConnectedSessions |-> silent'[s]]
    BY DEF S!Tick
  <2> QED BY <2>1, <1>9
<1>11. ShardTypes'
  BY <1>0, <1>1, <1>4, <1>5, <1>7, <1>10 DEF ShardTypes
<1>12. Counted'
  BY <1>0, <1>1 DEF Counted
<1> QED BY <1>8, <1>9, <1>11, <1>12 DEF ShardInv

\* A check with another list to look at.
LEMMA CheckFields ==
  ASSUME NEW x \in Checks, NEW t
  PROVE  [x EXCEPT !.todo = t] = [due |-> x.due, todo |-> t, step |-> x.step, at |-> x.at]
BY DEF Checks

\* A check of one session, by its shard or by the wheel.
LEMMA JudgeStep ==
  ASSUME ShardInv, NEW k \in S!Checkers, NEW s \in ConnectedSessions, NEW x \in checker[k].todo,
         checker[k].step = "idle", s \in used,
         S!Judge(k, s, checker[k].todo \ {x}),
         UNCHANGED <<shard, count, silent, used, clock, closing, shardCrossed>>,
         \/ k # "wheel" /\ x = s /\ Home(s) = k
         \/ k = "wheel" /\ x = ClientOf[s] /\ shard[x] = s
  PROVE  ShardInv'
<1> DEFINE late == silent[s] > Grace
           n == timeouts[s] + 1
           doomed == late /\ n >= MaxTimeoutCount
           step == IF doomed THEN "remove" ELSE "idle"
           at == IF doomed THEN s ELSE S!NoSession
           rest == checker[k].todo \ {x}
           y == [due |-> checker[k].due, todo |-> rest, step |-> step, at |-> at]
<1>0. /\ ShardTypes /\ Counted /\ CheckOK(k) /\ checker[k] \in Checks /\ ~checker[k].due
      /\ timeouts[s] \in Nat /\ n \in Nat /\ silent[s] \in Nat /\ MaxTimeoutCount \in Nat
      /\ MaxTimeoutCount >= 1
      /\ Grace \in Nat
  BY ShardAssumption DEF ShardInv, ShardTypes, CheckOK
<1>1. S!Held' = S!Held /\ ClientOf[s] \in S!Clients
  BY DEF S!Held, S!Clients
<1>2. checker' = [checker EXCEPT ![k] = y]
  <2> DEFINE y1 == [checker[k] EXCEPT !.todo = rest]
             y2 == [y1 EXCEPT !.step = step]
             y3 == [y2 EXCEPT !.at = at]
  <2>1. y1 = [due |-> checker[k].due, todo |-> rest, step |-> checker[k].step, at |-> checker[k].at]
    BY <1>0, CheckFields
  <2> HIDE DEF y1
  <2>2. y2 = [due |-> checker[k].due, todo |-> rest, step |-> step, at |-> checker[k].at]
    BY <2>1
  <2> HIDE DEF y2
  <2>3. y3 = y
    BY <2>2
  <2>4. checker' = [checker EXCEPT ![k] = y3]
    BY <1>0 DEF S!Judge, ShardTypes, y1, y2
  <2> QED BY <2>3, <2>4
<1>3. \A q \in S!Checkers : checker'[q] = IF q = k THEN y ELSE checker[q]
  BY <1>0, <1>2 DEF ShardTypes
<1>4. y \in Checks
  BY <1>0 DEF Checks
<1>5. checker' \in [S!Checkers -> Checks]
  BY <1>0, <1>2, <1>4 DEF ShardTypes
<1>6. timeouts' = [timeouts EXCEPT ![s] = IF late THEN n ELSE 0]
  BY DEF S!Judge
<1>7. ByShard(s) \/ ByWheel(s)
  BY DEF ByShard, ByWheel
<1>8. timeouts[s] <= MaxTimeoutCount
  BY <1>7 DEF ShardInv, Watched
<1>9. timeouts' \in [ConnectedSessions -> 0 .. (MaxTimeoutCount + 1)]
  <2>1. (IF late THEN n ELSE 0) \in 0 .. (MaxTimeoutCount + 1)
    BY <1>0, <1>8
  <2> HIDE DEF late, n
  <2> QED BY <2>1, <1>0, <1>6 DEF ShardTypes
<1>10. wheel' \in [S!Clients -> (-SlotSize) .. TimeoutTicks] /\ closed' \subseteq used
  <2>1. TimeoutTicks \in (-SlotSize) .. TimeoutTicks
    BY ShardAssumption
  <2> QED BY <2>1, <1>0, <1>1 DEF S!Judge, S!Register, ShardTypes
<1>11. ShardTypes'
  BY <1>0, <1>1, <1>5, <1>9, <1>10 DEF ShardTypes
<1>12. Counted'
  BY <1>0, <1>1 DEF Counted
<1>13. ASSUME NEW q \in S!Checkers PROVE CheckOK(q)'
  <2>1. CASE q = k
    <3>1. checker'[k] = y /\ y.todo \subseteq checker[k].todo /\ ~y.due /\ y.step # "unregister"
          /\ (y.step # "idle" => y.at \in ConnectedSessions)
      BY <1>0, <1>3
    <3> HIDE DEF y
    <3> QED BY <1>0, <2>1, <3>1 DEF CheckOK, Home
  <2>2. CASE q # k
    BY <1>3, <2>2 DEF ShardInv, CheckOK, Home
  <2> QED BY <2>1, <2>2
<1>14. ASSUME NEW q \in ConnectedSessions, q # s PROVE Watched(q)'
  <2>1. /\ Watched(q) /\ Home(q) \in S!Checkers /\ Home(q) # "wheel" /\ "wheel" \in S!Checkers
        /\ ClientOf[q] \in S!Clients
    BY <1>0, HeldFacts DEF ShardInv
  <2>2. ByShard(q)' <=> ByShard(q)
    <3>1. CASE Home(q) = k
      <4>1. checker'[k].todo = checker[k].todo \ {s} /\ checker'[k].due = checker[k].due
        BY <1>3, <2>1, <3>1
      <4> QED BY <1>1, <1>14, <3>1, <4>1 DEF ByShard, Home
    <3>2. CASE Home(q) # k
      BY <1>1, <1>3, <2>1, <3>2 DEF ByShard, Home
    <3> QED BY <3>1, <3>2
  <2>3. ByWheel(q)' => ByWheel(q)
    BY <1>3, <2>1 DEF ByWheel
  <2>4. Doomed(q) => Doomed(q)'
    BY <1>3 DEF Doomed
  <2>5. timeouts'[q] = timeouts[q]
    BY <1>0, <1>6, <1>14 DEF ShardTypes
  <2> QED BY <1>1, <2>1, <2>2, <2>3, <2>4, <2>5 DEF Watched
<1>15. Watched(s)'
  <2>1. Watched(s) /\ Home(s) \in S!Checkers /\ Home(s) # "wheel" /\ "wheel" \in S!Checkers
    BY <1>0, HeldFacts DEF ShardInv
  <2>2. /\ clock \in Nat /\ Interval \in Nat /\ timeouts[s] * Interval \in Nat
        /\ (timeouts[s] + 1) * Interval = timeouts[s] * Interval + Interval
        /\ (n + 1) * Interval = n * Interval + Interval
        /\ 0 * Interval = 0 /\ (0 + 1) * Interval = Interval
    <3>1. \A m \in Nat : m * Interval \in Nat /\ (m + 1) * Interval = m * Interval + Interval
      BY BoundFacts
    <3>2. 0 * Interval = 0 /\ (0 + 1) * Interval = Interval /\ clock \in Nat /\ Interval \in Nat
      BY <1>0, BoundFacts DEF ShardTypes
    <3> QED BY <1>0, <3>1, <3>2
  <2>3. CASE ~late
    <3>1. timeouts'[s] = 0 /\ silent[s] <= Grace
      BY <1>0, <1>6, <2>3 DEF ShardTypes
    <3>2. /\ silent[s] <= Grace + 0 * Interval + clock /\ silent[s] <= Grace + (0 + 1) * Interval
          /\ ~(0 >= MaxTimeoutCount) /\ 0 <= MaxTimeoutCount /\ 0 < MaxTimeoutCount
      BY <1>0, <2>2, <3>1
    <3> QED BY <1>1, <3>1, <3>2 DEF Watched
  <2>4. CASE late
    <3>1. timeouts'[s] = timeouts[s] + 1
      BY <1>0, <1>6, <2>4 DEF ShardTypes
    <3>2. timeouts'[s] >= MaxTimeoutCount => Doomed(s)'
      <4>1. ASSUME timeouts'[s] >= MaxTimeoutCount PROVE checker'[k].step = "remove" /\ checker'[k].at = s
        BY <1>3, <2>4, <3>1, <4>1
      <4> QED BY <4>1 DEF Doomed
    <3>3. CASE k # "wheel"
      <4>1. ByShard(s) /\ Home(s) = k /\ x = s
        BY <3>3 DEF ByShard
      <4>2. ~ByShard(s)'
        <5>1. ~checker'[k].due /\ s \notin checker'[k].todo /\ Home(s)' = k
          BY <1>0, <1>3, <4>1 DEF Home
        <5> QED BY <5>1 DEF ByShard
      <4>3. ByWheel(s)' => ByWheel(s)
        BY <1>3, <2>1, <3>3 DEF ByWheel
      <4>4. s \in S!Held => silent[s] <= Grace + timeouts'[s] * Interval + clock
        BY <1>0, <2>1, <2>2, <3>1, <4>1 DEF Watched
      <4>5. ByWheel(s)' => timeouts'[s] <= MaxTimeoutCount
        BY <1>0, <2>1, <3>1, <4>1, <4>3 DEF Watched
      <4> QED BY <1>1, <3>2, <4>2, <4>4, <4>5 DEF Watched
    <3>4. CASE k = "wheel"
      <4>1. ByWheel(s) /\ x = ClientOf[s]
        BY <3>4 DEF ByWheel
      <4>2. ~ByWheel(s)'
        BY <1>3, <3>4, <4>1 DEF ByWheel
      <4>3. ByShard(s)' <=> ByShard(s)
        BY <1>1, <1>3, <2>1, <3>4 DEF ByShard, Home
      <4>4. s \in S!Held /\ ~ByShard(s) => silent[s] <= Grace + timeouts'[s] * Interval + clock
        BY <1>0, <2>1, <2>2, <3>1 DEF Watched
      <4>5. s \in S!Held /\ ByShard(s) => silent[s] <= Grace + (timeouts'[s] + 1) * Interval
        BY <1>0, <2>1, <2>2, <3>1 DEF Watched
      <4>6. ByShard(s)' => timeouts'[s] <= MaxTimeoutCount
        BY <1>0, <2>1, <3>1, <4>1, <4>3 DEF Watched
      <4> QED BY <1>1, <3>2, <4>2, <4>3, <4>4, <4>5, <4>6 DEF Watched
    <3> QED BY <3>3, <3>4
  <2> QED BY <2>3, <2>4
<1>16. \A q \in ConnectedSessions : Watched(q)'
  BY <1>14, <1>15
<1>17. \A q \in S!Checkers : CheckOK(q)'
  BY <1>13
<1> QED BY <1>11, <1>12, <1>16, <1>17 DEF ShardInv

\* A checker looks at a session: it counts a timeout, or judges the session.
LEMMA CheckStep ==
  ASSUME ShardInv, NEW k \in S!Checkers, S!CheckSession(k)
  PROVE  ShardInv'
<1>0. ShardTypes /\ Counted /\ CheckOK(k) /\ checker[k] \in Checks /\ checker[k].step = "idle"
  BY DEF ShardInv, ShardTypes, S!CheckSession
<1>1. UNCHANGED <<shard, count, silent, used, clock, closing, shardCrossed>> /\ S!Held' = S!Held
  BY DEF S!CheckSession, S!Held
<1>2. PICK x \in checker[k].todo :
        IF k # "wheel" THEN S!Judge(k, x, checker[k].todo \ {x})
        ELSE IF shard[x] # S!NoSession THEN S!Judge(k, shard[x], checker[k].todo \ {x})
        ELSE /\ wheel' = S!Unregister(x)
             /\ checker' = [checker EXCEPT ![k].todo = @ \ {x}]
             /\ UNCHANGED <<timeouts, closed>>
  BY DEF S!CheckSession
<1>3. CASE k # "wheel"
  <2>1. x \in used /\ x \in ConnectedSessions /\ Home(x) = k
    BY <1>0, <1>3 DEF CheckOK, ShardTypes
  <2> QED BY <1>0, <1>1, <1>2, <1>3, <2>1, JudgeStep
<1>4. CASE k = "wheel" /\ shard[x] # S!NoSession
  <2>1. x \in S!Clients
    BY <1>0, <1>4 DEF CheckOK
  <2>2. shard[x] \in ConnectedSessions /\ shard[x] \in used /\ ClientOf[shard[x]] = x
    BY <1>0, <1>4, <2>1, HeldFacts DEF ShardTypes
  <2> QED BY <1>0, <1>1, <1>2, <1>4, <2>1, <2>2, JudgeStep
<1>5. CASE k = "wheel" /\ shard[x] = S!NoSession
  <2> DEFINE y == [due |-> checker[k].due, todo |-> checker[k].todo \ {x}, step |-> checker[k].step,
                   at |-> checker[k].at]
  <2>1. [checker[k] EXCEPT !.todo = @ \ {x}] = y
    BY <1>0, CheckFields
  <2>2. checker' = [checker EXCEPT ![k] = y]
    BY <1>2, <1>5, <2>1
  <2>3. \A q \in S!Checkers : checker'[q] = IF q = k THEN y ELSE checker[q]
    BY <1>0, <2>2 DEF ShardTypes
  <2>4. checker' \in [S!Checkers -> Checks]
    <3>1. y \in Checks
      BY <1>0 DEF Checks
    <3> QED BY <1>0, <2>2, <3>1 DEF ShardTypes
  <2>5. UNCHANGED <<timeouts, closed>> /\ wheel' \in [S!Clients -> (-SlotSize) .. TimeoutTicks]
    <3>1. S!Absent \in (-SlotSize) .. TimeoutTicks
      BY ShardAssumption DEF S!Absent
    <3> QED BY <1>0, <1>2, <1>5, <3>1 DEF S!Unregister, ShardTypes
  <2>6. ShardTypes' /\ Counted'
    BY <1>0, <1>1, <2>4, <2>5 DEF ShardTypes, Counted
  <2>7. \A q \in S!Checkers : CheckOK(q)'
    BY <1>0, <1>1, <1>5, <2>3 DEF ShardInv, CheckOK, Home
  <2>8. ASSUME NEW q \in ConnectedSessions PROVE Watched(q)'
    <3>1. Watched(q) /\ Home(q) \in S!Checkers /\ Home(q) # "wheel" /\ "wheel" \in S!Checkers
      BY <1>0, HeldFacts DEF ShardInv
    <3>2. ByShard(q)' <=> ByShard(q)
      BY <1>1, <1>5, <2>3, <3>1 DEF ByShard, Home
    <3>3. ByWheel(q)' => ByWheel(q)
      BY <1>1, <1>5, <2>3, <3>1 DEF ByWheel
    <3>4. Doomed(q) => Doomed(q)'
      BY <2>3 DEF Doomed
    <3> QED BY <1>1, <2>5, <3>1, <3>2, <3>3, <3>4 DEF Watched
  <2> QED BY <2>6, <2>7, <2>8 DEF ShardInv
<1> QED BY <1>3, <1>4, <1>5

\* Every step of the sharded manager keeps its invariant.
LEMMA ShardNext == ShardInv /\ [S!Next]_(S!shardedVars) => ShardInv'
<1> SUFFICES ASSUME ShardInv, [S!Next]_(S!shardedVars) PROVE ShardInv'
  OBVIOUS
<1>1. CASE UNCHANGED S!shardedVars
  <2>1. ShardTypes' /\ Counted'
    BY <1>1 DEF S!shardedVars, ShardInv, ShardTypes, Counted, S!Held
  <2>2. \A k \in S!Checkers : CheckOK(k)'
    BY <1>1 DEF S!shardedVars, ShardInv, CheckOK
  <2>3. \A s \in ConnectedSessions : Watched(s)'
    BY <1>1 DEF S!shardedVars, ShardInv, Watched, ByShard, ByWheel, Doomed, Home, S!Held
  <2> QED BY <2>1, <2>2, <2>3 DEF ShardInv
<1>2. CASE S!Next
  BY <1>2, ShardAddStep, BeatStep, ShardLeaveStep, TickStep, SnapshotStep, CheckStep, RemoveJudgedStep,
     UnregisterStep, CloseAllStep DEF S!Next
<1> QED BY <1>1, <1>2

\* The invariant gives the types, the exact counter, and that silence is bounded.
LEMMA ShardShows == ShardInv => S!TypeOK /\ S!CountIsExact /\ S!SilentIsRemoved
<1> SUFFICES ASSUME ShardInv PROVE S!TypeOK /\ S!CountIsExact /\ S!SilentIsRemoved
  OBVIOUS
<1>0. ShardTypes /\ Counted /\ S!Bound \in Nat
  BY BoundFacts DEF ShardInv
<1>1. count \in (-Cardinality(ConnectedSessions)) .. Cardinality(ConnectedSessions)
  BY <1>0, Sizes DEF ShardTypes, Counted
<1>2. silent \in [ConnectedSessions -> 0 .. (S!Bound + 1)] /\ \A s \in ConnectedSessions : silent[s] <= S!Bound
  <2>1. (0 .. S!Bound) \subseteq 0 .. (S!Bound + 1)
    BY <1>0
  <2> QED BY <1>0, <2>1 DEF ShardTypes
<1>3. timeouts \in [ConnectedSessions -> 0 .. (MaxTimeoutCount + 2)]
  <2>1. (0 .. (MaxTimeoutCount + 1)) \subseteq 0 .. (MaxTimeoutCount + 2)
    BY ShardAssumption
  <2> QED BY <1>0, <2>1 DEF ShardTypes
<1>4. DOMAIN checker = S!Checkers
  BY <1>0 DEF ShardTypes
<1>5. S!TypeOK
  BY <1>0, <1>1, <1>2, <1>3, <1>4, SameCount DEF S!TypeOK, ShardTypes
<1>6. S!CountIsExact
  BY <1>0, SameCount DEF S!CountIsExact, Counted
<1>7. S!SilentIsRemoved
  BY <1>2 DEF S!SilentIsRemoved, S!Held
<1> QED BY <1>5, <1>6, <1>7

-----------------------------------------------------------------------------
(* Reports of clients, and the log of a deploy task with its page.         *)

SaverSteps == {"none", "answered", "touch", "find", "upsert", "cache", "compare", "done"}
Saving == [pc : SaverSteps, hw : I!Hardware \union {"none"}, at : 0 .. MaxReportTime, met : BOOLEAN]
Devices == [hw : I!Hardware \union {"none"}, seen : 0 .. MaxReportTime,
            status : {"none", "online", "offline", "unknown"}, hidden : BOOLEAN]
Changes == [kind : {"created", "changed"}, met : BOOLEAN]

DeviceTypes ==
  /\ reportPlan \in ReportPlans /\ reportNow \in 0 .. MaxReportTime
  /\ machine \in I!Hardware
  /\ channel \in Seq(I!Hardware) /\ Len(channel) <= ReportQueueSize
  /\ reported \in 0 .. reportPlan.reports /\ reportEdits \in 0 .. reportPlan.edits
  /\ device \in Devices /\ had \subseteq I!Hardware
  /\ hwCache \in [hw : I!Hardware \union {"none"}, at : 0 .. MaxReportTime] /\ hwCache.at <= reportNow
  /\ once \in BOOLEAN /\ byHand \in BOOLEAN
  /\ saver \in [I!Savers -> Saving]
  /\ \A s \in I!Savers : saver[s].at <= reportNow /\ (saver[s].pc # "none" => saver[s].hw \in I!Hardware)
  /\ changes \in Seq(Changes)
  /\ last \in Saving /\ metEnd \in Int /\ metEnd <= reportNow

\* Of two saves at work, each has met the other.
Paired == \A s, q \in I!Savers : s # q /\ I!AtWork(s) /\ I!AtWork(q) => saver[s].met

\* Row and cache differ only after saves that met, and the entry is older than their end.
Calm == \A s \in I!Savers : (I!AtWork(s) => ~saver[s].met) /\ saver[s].pc # "cache"
Trusted == Calm /\ device.hw # hwCache.hw => hwCache.hw = "none" \/ hwCache.at <= metEnd

\* What a save that meets no other has done so far.
Fresh(x) == /\ device.seen = x.at
            /\ device.status = "offline" /\ ~byHand => x.at < reportNow - OfflineTimeout
Doing(x) ==
  /\ x.pc \in {"touch", "find"} => hwCache.hw = x.hw /\ x.at < hwCache.at + CacheTTL
  /\ x.pc = "find" /\ I!Visible => Fresh(x)
  /\ x.pc \in {"cache", "compare"} => device.hw = x.hw /\ Fresh(x)
  /\ x.pc = "compare" => hwCache.hw = x.hw
OnItsWay == \A s \in I!Savers : I!AtWork(s) /\ ~saver[s].met => Doing(saver[s])

\* The first record of a new device is made under the mutex.
RecordedOnce == I!CreatedOnce /\ (~once => \A i \in DOMAIN changes : changes[i].kind # "created")

DeviceInv == DeviceTypes /\ Paired /\ Trusted /\ OnItsWay /\ I!DeviceIsTrue /\ RecordedOnce

Grows == \A i, j \in DOMAIN reportPlan.ids : i < j => reportPlan.ids[i] < reportPlan.ids[j]

StreamTypes ==
  /\ reportPlan \in ReportPlans
  /\ deployTask \in {"running"} \union I!Final /\ deployRun \in {"running", "done"}
  /\ deployLogs \in Seq(Nat) /\ Len(deployLogs) <= Len(reportPlan.ids)
  /\ \A i \in 1 .. Len(deployLogs) : deployLogs[i] = reportPlan.ids[i]
  /\ viewer \in [pc : {"none", "poll", "read", "done"}, last : 0 .. Len(reportPlan.ids),
                 status : {"running"} \union I!Final]
  /\ shown \in Seq(Nat)

\* The run is over before its status is; the page ends after it has read that.
Ended ==
  /\ deployTask = "completed" \/ viewer.status = "completed" => deployRun = "done"
  /\ viewer.last # 0 => \E k \in 1 .. Len(shown) : shown[k] = viewer.last
  /\ viewer.pc = "done" /\ viewer.status = "completed" =>
       \A i \in 1 .. Len(deployLogs) : \E k \in 1 .. Len(shown) : shown[k] >= deployLogs[i]

\* With ids that grow, what is shown is the beginning of the log.
InOrder ==
  Grows => /\ Len(shown) <= Len(deployLogs) /\ \A i \in 1 .. Len(shown) : shown[i] = deployLogs[i]
           /\ viewer.last = IF shown = <<>> THEN 0 ELSE deployLogs[Len(shown)]

StreamInv == StreamTypes /\ Ended /\ InOrder

ReportInv == DeviceInv /\ StreamInv

-----------------------------------------------------------------------------
(* The log of a task and its page.                                          *)

\* Nth enumerates a finite set of positions.
LEMMA Enumeration ==
  ASSUME NEW Q, IsFiniteSet(Q), Q \subseteq Int
  PROVE  /\ Cardinality(Q) \in Nat
         /\ \A n \in 1 .. Cardinality(Q) : I!Nth(Q, n) \in Q
         /\ \A i \in Q : \E n \in 1 .. Cardinality(Q) : I!Nth(Q, n) = i
<1> DEFINE upTo(i) == {j \in Q : j <= i}
           rank(i) == Cardinality(upTo(i))
<1>1. Cardinality(Q) \in Nat
  BY FS_CardinalityType
<1>2. ASSUME NEW i \in Q
      PROVE  IsFiniteSet(upTo(i)) /\ rank(i) \in 1 .. Cardinality(Q)
  <2>1. IsFiniteSet(upTo(i)) /\ Cardinality(upTo(i)) <= Cardinality(Q)
    <3>1. upTo(i) \subseteq Q
      OBVIOUS
    <3> QED
      BY <3>1, FS_Subset
  <2>2. i \in upTo(i)
    OBVIOUS
  <2> HIDE DEF upTo
  <2>3. Cardinality(upTo(i)) \in Nat /\ Cardinality(upTo(i)) # 0
    BY <2>1, <2>2, FS_CardinalityType, FS_EmptySet
  <2> QED
    BY <2>1, <2>3, <1>1
<1>3. ASSUME NEW t \in Q, NEW u \in Q, t < u
      PROVE  rank(t) < rank(u)
  <2>0. t \in Int /\ u \in Int
    OBVIOUS
  <2>1. u \notin upTo(t) /\ upTo(t) \cup {u} \subseteq upTo(u)
    <3>1. \A j \in Q : j <= t => j <= u
      BY <2>0, <1>3
    <3>2. ~(u <= t) /\ u <= u
      BY <2>0, <1>3
    <3> QED
      BY <3>1, <3>2
  <2>2. IsFiniteSet(upTo(t)) /\ IsFiniteSet(upTo(u))
    BY <1>2
  <2> HIDE DEF upTo
  <2>3. Cardinality(upTo(t) \cup {u}) = Cardinality(upTo(t)) + 1
    BY <2>1, <2>2, FS_AddElement
  <2>4. Cardinality(upTo(t) \cup {u}) <= Cardinality(upTo(u))
    BY <2>1, <2>2, FS_Subset
  <2>5. Cardinality(upTo(t)) \in Nat /\ Cardinality(upTo(u)) \in Nat
    BY <2>2, FS_CardinalityType
  <2> QED
    BY <2>3, <2>4, <2>5
<1> HIDE DEF upTo
<1>4. \A t, u \in Q : rank(t) = rank(u) => t = u
  <2> SUFFICES ASSUME NEW t \in Q, NEW u \in Q, t # u
               PROVE  rank(t) # rank(u)
    OBVIOUS
  <2>1. t < u \/ u < t
    OBVIOUS
  <2>2. rank(t) \in Int /\ rank(u) \in Int
    BY <1>2
  <2>3. CASE t < u
    <3>1. rank(t) < rank(u)
      BY <2>3, <1>3
    <3> HIDE DEF rank
    <3> QED
      BY <3>1, <2>2
  <2>4. CASE u < t
    <3>1. rank(u) < rank(t)
      BY <2>4, <1>3
    <3> HIDE DEF rank
    <3> QED
      BY <3>1, <2>2
  <2> QED
    BY <2>1, <2>3, <2>4
<1>5. \A n \in 1 .. Cardinality(Q) : \E i \in Q : rank(i) = n
  <2> DEFINE f == [i \in Q |-> rank(i)]
             U == 1 .. Cardinality(Q)
  <2> HIDE DEF rank
  <2>1. f \in Injection(Q, U)
    <3>1. f \in [Q -> U]
      BY <1>2
    <3>2. \A i, j \in Q : f[i] = f[j] => i = j
      BY <1>4
    <3> HIDE DEF f, U
    <3> QED
      BY <3>1, <3>2 DEF Injection, IsInjective
  <2>2. IsFiniteSet(U) /\ Cardinality(U) = Cardinality(Q)
    <3>1. Cardinality(1 .. Cardinality(Q)) = IF 1 > Cardinality(Q) THEN 0 ELSE Cardinality(Q) - 1 + 1
      BY <1>1, FS_Interval
    <3> QED
      BY <3>1, <1>1, FS_Interval
  <2> HIDE DEF U
  <2>3. f \in Surjection(Q, U)
    BY <2>1, <2>2, FS_Injection
  <2>4. \A n \in U : \E i \in Q : f[i] = n
    BY <2>3 DEF Surjection
  <2>5. \A i \in Q : f[i] = rank(i)
    OBVIOUS
  <2> QED
    BY <2>4, <2>5 DEF U
<1>6. \A n : I!Nth(Q, n) = CHOOSE i \in Q : rank(i) = n
  BY SameCount DEF I!Nth, upTo
<1> HIDE DEF rank
<1>7. \A n \in 1 .. Cardinality(Q) : I!Nth(Q, n) \in Q /\ rank(I!Nth(Q, n)) = n
  BY <1>5, <1>6
<1>8. ASSUME NEW i \in Q PROVE I!Nth(Q, rank(i)) = i
  BY <1>2, <1>4, <1>7
<1> QED
  BY <1>1, <1>2, <1>7, <1>8

\* Nth enumerates an interval from its lower end.
LEMMA EnumerationOfInterval ==
  ASSUME NEW a \in Nat, NEW b \in Nat, NEW n \in 1 .. (b - a)
  PROVE  I!Nth((a + 1) .. b, n) = a + n
<1> DEFINE Q == (a + 1) .. b
<1>1. ASSUME NEW i \in Q
      PROVE  Cardinality({j \in Q : j <= i}) = i - a
  <2>1. {j \in Q : j <= i} = (a + 1) .. i
    OBVIOUS
  <2>2. Cardinality((a + 1) .. i) = IF a + 1 > i THEN 0 ELSE i - (a + 1) + 1
    BY FS_Interval
  <2>3. i \in Int /\ ~(a + 1 > i) /\ i - (a + 1) + 1 = i - a
    OBVIOUS
  <2> HIDE DEF Q
  <2> QED
    BY <2>1, <2>2, <2>3
<1>2. a + n \in Q
  OBVIOUS
<1> HIDE DEF Q
<1>3. \A i \in Q : Cardinality({j \in Q : j <= i}) = n <=> i = a + n
  <2> SUFFICES ASSUME NEW i \in Q PROVE Cardinality({j \in Q : j <= i}) = n <=> i = a + n
    OBVIOUS
  <2>1. i \in Int
    BY DEF Q
  <2> QED
    BY <2>1, <1>1
<1>4. I!Nth(Q, n) = a + n
  BY <1>2, <1>3, SameCount DEF I!Nth
<1> QED
  BY <1>4 DEF Q

\* The ids of the log are among those of the scenario.
LEMMA IdsInRange ==
  ASSUME StreamTypes
  PROVE  /\ reportPlan.ids \in Seq(Nat) /\ Len(reportPlan.ids) \in Nat /\ Len(deployLogs) \in Nat /\ Len(shown) \in Nat
         /\ DOMAIN deployLogs = 1 .. Len(deployLogs) /\ DOMAIN reportPlan.ids = 1 .. Len(reportPlan.ids)
         /\ \A i \in 1 .. Len(reportPlan.ids) : reportPlan.ids[i] \in 1 .. Len(reportPlan.ids)
         /\ \A i \in 1 .. Len(deployLogs) : deployLogs[i] \in 1 .. Len(reportPlan.ids) /\ deployLogs[i] \in Nat
<1>1. reportPlan.ids \in Seq(Nat) /\ \A i \in DOMAIN reportPlan.ids : reportPlan.ids[i] \in 1 .. Len(reportPlan.ids)
  BY ReportAssumption DEF StreamTypes
<1>2. Len(reportPlan.ids) \in Nat /\ DOMAIN reportPlan.ids = 1 .. Len(reportPlan.ids)
  BY <1>1
<1>3. deployLogs \in Seq(Nat) /\ shown \in Seq(Nat)
  BY DEF StreamTypes
<1>4. Len(deployLogs) \in Nat /\ Len(shown) \in Nat /\ DOMAIN deployLogs = 1 .. Len(deployLogs)
  BY <1>3
<1>5. \A i \in 1 .. Len(deployLogs) : i \in 1 .. Len(reportPlan.ids) /\ deployLogs[i] = reportPlan.ids[i]
  BY <1>2, <1>4 DEF StreamTypes
<1> QED
  BY <1>1, <1>2, <1>4, <1>5

\* The rows a page reads are exactly those of the log above its last id.
LEMMA NewRowsFacts ==
  ASSUME StreamTypes
  PROVE  /\ I!NewRows \in Seq(Nat)
         /\ \A k \in 1 .. Len(I!NewRows) : I!NewRows[k] \in 1 .. Len(reportPlan.ids)
         /\ \A i \in 1 .. Len(deployLogs) :
              deployLogs[i] > viewer.last => \E k \in 1 .. Len(I!NewRows) : I!NewRows[k] = deployLogs[i]
<1> DEFINE new == {i \in DOMAIN deployLogs : deployLogs[i] > viewer.last}
           N == Cardinality(new)
<1>1. DOMAIN deployLogs = 1 .. Len(deployLogs) /\ Len(deployLogs) \in Nat
      /\ \A i \in 1 .. Len(deployLogs) : deployLogs[i] \in 1 .. Len(reportPlan.ids) /\ deployLogs[i] \in Nat
  BY IdsInRange
<1>2. IsFiniteSet(new) /\ new \subseteq Int
  <2>1. IsFiniteSet(1 .. Len(deployLogs)) /\ new \subseteq 1 .. Len(deployLogs)
    BY <1>1, FS_Interval
  <2> QED
    BY <2>1, FS_Subset
<1>3. I!NewRows = [n \in 1 .. N |-> deployLogs[I!Nth(new, n)]]
  BY SameCount DEF I!NewRows
<1>4. \A i \in new : i \in 1 .. Len(deployLogs)
  BY <1>1
<1>5. \A i \in 1 .. Len(deployLogs) : deployLogs[i] > viewer.last => i \in new
  BY <1>1
<1> HIDE DEF new
<1>6. /\ N \in Nat
      /\ \A n \in 1 .. N : I!Nth(new, n) \in new
      /\ \A i \in new : \E n \in 1 .. N : I!Nth(new, n) = i
  BY <1>2, Enumeration
<1> HIDE DEF N
<1>7. \A n \in 1 .. N : I!NewRows[n] \in Nat /\ I!NewRows[n] \in 1 .. Len(reportPlan.ids)
  BY <1>1, <1>3, <1>4, <1>6
<1>8. I!NewRows \in Seq(Nat) /\ Len(I!NewRows) = N
  BY <1>3, <1>6, <1>7
<1>9. ASSUME NEW i \in 1 .. Len(deployLogs), deployLogs[i] > viewer.last
      PROVE  \E k \in 1 .. N : I!NewRows[k] = deployLogs[i]
  <2>1. PICK n \in 1 .. N : I!Nth(new, n) = i
    BY <1>5, <1>6, <1>9
  <2> QED
    BY <2>1, <1>3
<1> QED
  BY <1>7, <1>8, <1>9

\* With ids that grow, the rows a page reads are what the log has more than the page.
LEMMA NewRowsInOrder ==
  ASSUME StreamTypes, Grows, InOrder
  PROVE  /\ Len(I!NewRows) = Len(deployLogs) - Len(shown)
         /\ \A k \in 1 .. Len(I!NewRows) : I!NewRows[k] = deployLogs[Len(shown) + k]
<1> DEFINE new == {i \in DOMAIN deployLogs : deployLogs[i] > viewer.last}
           a == Len(shown)
           b == Len(deployLogs)
<1>1. /\ DOMAIN deployLogs = 1 .. b /\ b \in Nat /\ a \in Nat /\ a <= b /\ Len(reportPlan.ids) \in Nat
      /\ b <= Len(reportPlan.ids)
      /\ DOMAIN reportPlan.ids = 1 .. Len(reportPlan.ids)
      /\ \A i \in 1 .. b : deployLogs[i] \in 1 .. Len(reportPlan.ids) /\ deployLogs[i] \in Nat /\ deployLogs[i] = reportPlan.ids[i]
  BY IdsInRange DEF InOrder, StreamTypes
<1>0. a \in Nat /\ b \in Nat /\ a <= b
  BY <1>1
<1>2. \A i, j \in 1 .. b : i < j => deployLogs[i] < deployLogs[j]
  <2>1. \A i \in 1 .. b : i \in DOMAIN reportPlan.ids
    BY <1>1
  <2> QED
    BY <2>1, <1>1 DEF Grows
<1>3. viewer.last = IF a = 0 THEN 0 ELSE deployLogs[a]
  <2>1. shown = <<>> <=> a = 0
    BY DEF StreamTypes
  <2> QED
    BY <2>1 DEF InOrder
<1>4. new = (a + 1) .. b
  <2>1. ASSUME NEW i \in 1 .. b
        PROVE  deployLogs[i] > viewer.last <=> i > a
    <3>1. CASE a = 0
      BY <3>1, <1>1, <1>3
    <3>2. CASE a # 0
      <4>1. a \in 1 .. b /\ viewer.last = deployLogs[a] /\ deployLogs[a] \in Nat /\ deployLogs[i] \in Nat
        BY <3>2, <1>1, <1>3
      <4>2. i < a => deployLogs[i] < deployLogs[a]
        BY <4>1, <1>2
      <4>3. a < i => deployLogs[a] < deployLogs[i]
        BY <4>1, <1>2
      <4>4. i = a => deployLogs[i] = deployLogs[a]
        OBVIOUS
      <4> HIDE DEF a
      <4> QED
        BY <4>1, <4>2, <4>3, <4>4
    <3> QED
      BY <3>1, <3>2
  <2>2. new = {i \in 1 .. b : i > a}
    BY <2>1, <1>1
  <2> HIDE DEF new, a, b
  <2>3. {i \in 1 .. b : i > a} = (a + 1) .. b
    BY <1>0
  <2> QED
    BY <2>2, <2>3
<1>5. Cardinality(new) = b - a
  <2>1. Cardinality((a + 1) .. b) = IF a + 1 > b THEN 0 ELSE b - (a + 1) + 1
    <3> HIDE DEF new, a, b
    <3>1. a + 1 \in Int /\ b \in Int
      BY <1>0
    <3> QED
      BY <3>1, FS_Interval
  <2> HIDE DEF new, a, b
  <2> QED
    BY <2>1, <1>0, <1>4
<1>6. I!NewRows = [n \in 1 .. Cardinality(new) |-> deployLogs[I!Nth(new, n)]]
  BY SameCount DEF I!NewRows
<1> HIDE DEF new, a, b
<1>7. I!NewRows = [n \in 1 .. (b - a) |-> deployLogs[I!Nth(new, n)]] /\ b - a \in Nat
  BY <1>1, <1>5, <1>6
<1>8. Len(I!NewRows) = b - a
  BY <1>7
<1>9. \A n \in 1 .. (b - a) : I!Nth(new, n) = a + n
  BY <1>0, <1>4, EnumerationOfInterval
<1>10. \A n \in 1 .. (b - a) : I!NewRows[n] = deployLogs[a + n]
  BY <1>7, <1>9
<1> QED
  BY <1>8, <1>10 DEF a, b

\* The elements of two sequences joined.
LEMMA Joined ==
  ASSUME NEW s \in Seq(Nat), NEW t \in Seq(Nat)
  PROVE  /\ s \o t \in Seq(Nat) /\ Len(s \o t) = Len(s) + Len(t)
         /\ \A i \in 1 .. Len(s) : (s \o t)[i] = s[i] /\ i \in 1 .. Len(s \o t)
         /\ \A k \in 1 .. Len(t) : (s \o t)[Len(s) + k] = t[k] /\ Len(s) + k \in 1 .. Len(s \o t)
OBVIOUS

\* A page sends the rows it has read (StreamDeployTaskLogs).
LEMMA ReportSendStep ==
  ASSUME StreamInv, NEW p \in {"poll", "done"}, I!Send(p),
         UNCHANGED <<reportPlan, deployTask, deployRun, deployLogs>>
  PROVE  StreamInv'
<1> DEFINE v == [viewer EXCEPT !.pc = p, !.last = IF I!NewRows = <<>> THEN @ ELSE I!Last(I!NewRows)]
<1>0. StreamTypes /\ Ended /\ InOrder
  BY DEF StreamInv
<1>1. /\ I!NewRows \in Seq(Nat) /\ shown \in Seq(Nat) /\ Len(I!NewRows) \in Nat /\ Len(shown) \in Nat
      /\ \A k \in 1 .. Len(I!NewRows) : I!NewRows[k] \in 1 .. Len(reportPlan.ids)
      /\ \A i \in 1 .. Len(deployLogs) :
           deployLogs[i] > viewer.last => \E k \in 1 .. Len(I!NewRows) : I!NewRows[k] = deployLogs[i]
  BY <1>0, NewRowsFacts DEF StreamTypes
<1>2. /\ shown' \in Seq(Nat) /\ Len(shown') = Len(shown) + Len(I!NewRows)
      /\ \A i \in 1 .. Len(shown) : shown'[i] = shown[i] /\ i \in 1 .. Len(shown')
      /\ \A k \in 1 .. Len(I!NewRows) : shown'[Len(shown) + k] = I!NewRows[k]
                                      /\ Len(shown) + k \in 1 .. Len(shown')
  BY <1>1, Joined DEF I!Send
<1>3. viewer' = v
  BY DEF I!Send
<1>4. /\ viewer.last \in 0 .. Len(reportPlan.ids) /\ Len(reportPlan.ids) \in Nat
      /\ viewer.status \in {"running"} \union I!Final
  BY <1>0, IdsInRange DEF StreamTypes
<1>5. v.pc = p /\ v.status = viewer.status
      /\ v.last = IF I!NewRows = <<>> THEN viewer.last ELSE I!NewRows[Len(I!NewRows)]
  BY <1>0 DEF StreamTypes, I!Last
<1>6. I!NewRows # <<>> => Len(I!NewRows) \in 1 .. Len(I!NewRows)
  BY <1>1
<1>7. v.last \in 0 .. Len(reportPlan.ids)
  <2>1. CASE I!NewRows = <<>>
    BY <2>1, <1>4, <1>5
  <2>2. CASE I!NewRows # <<>>
    <3>1. v.last \in 1 .. Len(reportPlan.ids)
      BY <2>2, <1>1, <1>5, <1>6
    <3> QED
      BY <3>1, <1>4
  <2> QED
    BY <2>1, <2>2
<1>8. StreamTypes'
  <2>1. v \in [pc : {"none", "poll", "read", "done"}, last : 0 .. Len(reportPlan.ids),
               status : {"running"} \union I!Final]
    <3>1. v.last \in 0 .. Len(reportPlan.ids)
      BY <1>7
    <3>2. (IF I!NewRows = <<>> THEN viewer.last ELSE I!Last(I!NewRows)) \in 0 .. Len(reportPlan.ids)
      BY <1>5, <1>7 DEF I!Last
    <3> QED
      BY <3>2, <1>0 DEF StreamTypes
  <2> QED
    BY <2>1, <1>0, <1>2, <1>3 DEF StreamTypes
<1> HIDE DEF v
<1>9. v.last # 0 => \E k \in 1 .. Len(shown') : shown'[k] = v.last
  <2>1. CASE I!NewRows = <<>>
    <3>1. v.last = viewer.last
      BY <2>1, <1>5
    <3>2. viewer.last # 0 => \E k \in 1 .. Len(shown) : shown[k] = viewer.last
      BY <1>0 DEF Ended
    <3> QED
      BY <3>1, <3>2, <1>2
  <2>2. CASE I!NewRows # <<>>
    <3>1. v.last = shown'[Len(shown) + Len(I!NewRows)]
      BY <2>2, <1>2, <1>5, <1>6
    <3> QED
      BY <3>1, <2>2, <1>2, <1>6
  <2> QED
    BY <2>1, <2>2
<1>10. ASSUME NEW i \in 1 .. Len(deployLogs)
       PROVE  \E k \in 1 .. Len(shown') : shown'[k] >= deployLogs[i]
  <2>1. deployLogs[i] \in Nat /\ deployLogs[i] \in 1 .. Len(reportPlan.ids)
    BY <1>0, IdsInRange
  <2>2. CASE deployLogs[i] > viewer.last
    <3>1. PICK k \in 1 .. Len(I!NewRows) : I!NewRows[k] = deployLogs[i]
      BY <2>2, <1>1
    <3>2. shown'[Len(shown) + k] = deployLogs[i] /\ Len(shown) + k \in 1 .. Len(shown')
      BY <3>1, <1>2
    <3>3. shown'[Len(shown) + k] >= deployLogs[i]
      BY <3>2, <2>1
    <3> QED
      BY <3>2, <3>3
  <2>3. CASE ~(deployLogs[i] > viewer.last)
    <3>1. viewer.last # 0 /\ viewer.last >= deployLogs[i]
      BY <2>1, <2>3, <1>4
    <3>2. PICK k \in 1 .. Len(shown) : shown[k] = viewer.last
      BY <3>1, <1>0 DEF Ended
    <3>3. k \in 1 .. Len(shown') /\ shown'[k] = viewer.last
      BY <3>2, <1>2
    <3> QED
      BY <3>1, <3>3
  <2> QED
    BY <2>2, <2>3
<1>11. Ended'
  <2>1. deployTask = "completed" \/ viewer.status = "completed" => deployRun = "done"
    BY <1>0 DEF Ended
  <2> QED
    BY <2>1, <1>3, <1>5, <1>9, <1>10 DEF Ended
<1>12. InOrder'
  <2> SUFFICES ASSUME Grows'
               PROVE  /\ Len(shown') <= Len(deployLogs') /\ \A i \in 1 .. Len(shown') : shown'[i] = deployLogs'[i]
                      /\ viewer'.last = IF shown' = <<>> THEN 0 ELSE deployLogs'[Len(shown')]
    BY DEF InOrder
  <2>1. Grows
    BY DEF Grows
  <2>2. /\ Len(I!NewRows) = Len(deployLogs) - Len(shown)
        /\ \A k \in 1 .. Len(I!NewRows) : I!NewRows[k] = deployLogs[Len(shown) + k]
    BY <2>1, <1>0, NewRowsInOrder
  <2>3. Len(deployLogs) \in Nat /\ Len(shown') = Len(deployLogs)
    BY <2>2, <1>0, <1>1, <1>2, IdsInRange
  <2>4. ASSUME NEW i \in 1 .. Len(shown') PROVE shown'[i] = deployLogs[i]
    <3>1. CASE i <= Len(shown)
      <4>1. i \in 1 .. Len(shown) /\ shown[i] = deployLogs[i]
        BY <3>1, <2>1, <1>0, <1>1 DEF InOrder
      <4> QED
        BY <4>1, <1>2
    <3>2. CASE ~(i <= Len(shown))
      <4> DEFINE k == i - Len(shown)
      <4>1. k \in 1 .. Len(I!NewRows) /\ Len(shown) + k = i
        BY <3>2, <2>2, <2>3, <1>1
      <4>2. shown'[Len(shown) + k] = I!NewRows[k] /\ I!NewRows[k] = deployLogs[Len(shown) + k]
        BY <4>1, <1>2, <2>2
      <4> HIDE DEF k
      <4> QED
        BY <4>1, <4>2
    <3> QED
      BY <3>1, <3>2
  <2>5. viewer'.last = IF shown' = <<>> THEN 0 ELSE deployLogs[Len(shown')]
    <3>1. CASE I!NewRows = <<>>
      <4>1. Len(I!NewRows) = 0
        BY <3>1
      <4>2. Len(shown') = Len(shown)
        BY <4>1, <1>1, <1>2
      <4>3. shown' = <<>> <=> shown = <<>>
        BY <4>2, <1>1, <1>2
      <4>4. viewer.last = IF shown = <<>> THEN 0 ELSE deployLogs[Len(shown)]
        BY <2>1, <1>0 DEF InOrder
      <4> QED
        BY <4>2, <4>3, <4>4, <3>1, <1>3, <1>5
    <3>2. CASE I!NewRows # <<>>
      <4>1. shown' # <<>> /\ Len(shown) + Len(I!NewRows) = Len(shown')
        BY <3>2, <1>1, <1>2, <1>6
      <4>2. I!NewRows[Len(I!NewRows)] = deployLogs[Len(shown) + Len(I!NewRows)]
        BY <3>2, <1>6, <2>2
      <4> QED
        BY <4>1, <4>2, <3>2, <1>3, <1>5
    <3> QED
      BY <3>1, <3>2
  <2> QED
    BY <2>3, <2>4, <2>5
<1> QED
  BY <1>8, <1>11, <1>12 DEF StreamInv

\* The run writes a line of the log, with the next id.
LEMMA WriteStep ==
  ASSUME StreamInv, I!writeTaskLog, reportPlan' = reportPlan
  PROVE  StreamInv'
<1>0. StreamTypes /\ Ended /\ InOrder
  BY DEF StreamInv
<1> DEFINE n == Len(deployLogs) + 1
<1>1. /\ deployRun = "running" /\ Len(deployLogs) < Len(reportPlan.ids)
      /\ deployLogs' = Append(deployLogs, reportPlan.ids[n])
      /\ UNCHANGED <<deployTask, deployRun, viewer, shown>>
  BY DEF I!writeTaskLog
<1>2. /\ Len(deployLogs) \in Nat /\ Len(reportPlan.ids) \in Nat /\ n \in 1 .. Len(reportPlan.ids)
      /\ reportPlan.ids[n] \in Nat
      /\ deployLogs \in Seq(Nat) /\ Len(shown) \in Nat
  BY <1>0, <1>1, IdsInRange DEF StreamTypes
<1>3. /\ deployLogs' \in Seq(Nat) /\ Len(deployLogs') = n /\ deployLogs'[n] = reportPlan.ids[n]
      /\ \A i \in 1 .. Len(deployLogs) : deployLogs'[i] = deployLogs[i]
  BY <1>1, <1>2
<1>4. StreamTypes'
  <2>1. \A i \in 1 .. Len(deployLogs') : deployLogs'[i] = reportPlan.ids[i]
    <3> SUFFICES ASSUME NEW i \in 1 .. Len(deployLogs') PROVE deployLogs'[i] = reportPlan.ids[i]
      OBVIOUS
    <3>1. i \in 1 .. Len(deployLogs) \/ i = n
      BY <1>2, <1>3
    <3>2. CASE i = n
      BY <3>2, <1>3
    <3>3. CASE i \in 1 .. Len(deployLogs)
      BY <3>3, <1>0, <1>3 DEF StreamTypes
    <3> QED
      BY <3>1, <3>2, <3>3
  <2> QED
    BY <2>1, <1>0, <1>1, <1>2, <1>3 DEF StreamTypes
<1>5. Ended'
  BY <1>0, <1>1 DEF Ended
<1>6. InOrder'
  <2> SUFFICES ASSUME Grows'
               PROVE  /\ Len(shown) <= Len(deployLogs') /\ \A i \in 1 .. Len(shown) : shown[i] = deployLogs'[i]
                      /\ viewer.last = IF shown = <<>> THEN 0 ELSE deployLogs'[Len(shown)]
    BY <1>1 DEF InOrder
  <2>1. /\ Len(shown) <= Len(deployLogs) /\ \A i \in 1 .. Len(shown) : shown[i] = deployLogs[i]
        /\ viewer.last = IF shown = <<>> THEN 0 ELSE deployLogs[Len(shown)]
    BY <1>0 DEF InOrder, Grows
  <2>2. shown # <<>> => Len(shown) \in 1 .. Len(deployLogs)
    BY <2>1, <1>0, <1>2 DEF StreamTypes
  <2> QED
    BY <2>1, <2>2, <1>2, <1>3
<1> QED
  BY <1>4, <1>5, <1>6 DEF StreamInv

\* Every step of the log and its page keeps their invariant.
LEMMA StreamsStep ==
  ASSUME StreamInv, I!StreamStep, reportPlan' = reportPlan
  PROVE  StreamInv'
<1>1. CASE I!writeTaskLog
  BY <1>1, WriteStep
<1>2. CASE I!Finish
  BY <1>2 DEF I!Finish, StreamInv, StreamTypes, Ended, InOrder, Grows, I!Final
<1>3. CASE I!Cancel
  BY <1>3 DEF I!Cancel, StreamInv, StreamTypes, Ended, InOrder, Grows, I!Final
<1>4. CASE I!Open
  BY <1>4, ReportSendStep DEF I!Open
<1>5. CASE I!Poll
  <2>1. /\ viewer' = [viewer EXCEPT !.pc = "read", !.status = deployTask]
        /\ UNCHANGED <<deployTask, deployRun, deployLogs, shown>>
    BY <1>5 DEF I!Poll
  <2>2. viewer'.last = viewer.last /\ viewer'.pc = "read" /\ viewer'.status = deployTask
        /\ viewer' \in [pc : {"none", "poll", "read", "done"}, last : 0 .. Len(reportPlan.ids),
                        status : {"running"} \union I!Final]
    BY <2>1 DEF StreamInv, StreamTypes
  <2>3. StreamTypes'
    BY <2>1, <2>2 DEF StreamInv, StreamTypes
  <2>4. Ended' /\ InOrder'
    BY <2>1, <2>2 DEF StreamInv, Ended, InOrder, Grows
  <2> QED
    BY <2>3, <2>4 DEF StreamInv
<1>6. CASE I!ReadNew
  BY <1>6, ReportSendStep DEF I!ReadNew
<1> QED
  BY <1>1, <1>2, <1>3, <1>4, <1>5, <1>6 DEF I!StreamStep

\* At the start the log is empty, and nothing is shown.
LEMMA StreamInit ==
  ASSUME I!Init
  PROVE  StreamInv
<1>1. /\ reportPlan \in ReportPlans /\ deployTask = "running" /\ deployRun = "running"
      /\ deployLogs = <<>> /\ shown = <<>>
      /\ viewer = [pc |-> "none", last |-> 0, status |-> "running"]
  BY DEF I!Init
<1>2. <<>> \in Seq(Nat) /\ Len(<<>>) = 0
  OBVIOUS
<1>3. Len(reportPlan.ids) \in Nat
  BY <1>1, ReportAssumption
<1>4. StreamTypes
  BY <1>1, <1>2, <1>3 DEF StreamTypes
<1>5. Ended /\ InOrder
  BY <1>1, <1>2 DEF Ended, InOrder
<1> QED
  BY <1>4, <1>5 DEF StreamInv

\* A sequence that agrees with a longer one is a prefix of it.
LEMMA PrefixByElements ==
  ASSUME NEW s \in Seq(Nat), NEW t \in Seq(Nat), Len(s) <= Len(t), \A i \in 1 .. Len(s) : s[i] = t[i]
  PROVE  I!IsPrefix(s, t)
<1>1. SubSeq(s, 1, Len(s)) = s
  OBVIOUS
<1>2. SubSeq(t, 1, Len(s)) \in Seq(Nat) /\ Len(SubSeq(t, 1, Len(s))) = Len(s)
      /\ \A i \in 1 .. Len(s) : SubSeq(t, 1, Len(s))[i] = t[i]
  OBVIOUS
<1>3. SubSeq(t, 1, Len(s)) = s
  BY <1>2
<1> QED
  BY <1>1, <1>3 DEF I!IsPrefix

\* The invariant gives what a page promises.
LEMMA StreamShows ==
  ASSUME StreamInv
  PROVE  I!StreamIsOrderly /\ I!IsPrefix(deployLogs, reportPlan.ids)
<1>0. StreamTypes /\ Ended /\ InOrder
  BY DEF StreamInv
<1>1. /\ reportPlan.ids \in Seq(Nat) /\ deployLogs \in Seq(Nat) /\ shown \in Seq(Nat)
      /\ DOMAIN shown = 1 .. Len(shown) /\ DOMAIN deployLogs = 1 .. Len(deployLogs)
  BY <1>0, IdsInRange DEF StreamTypes
<1>2. I!IsPrefix(deployLogs, reportPlan.ids)
  BY <1>0, <1>1, PrefixByElements DEF StreamTypes
<1>3. Grows => I!IsPrefix(shown, deployLogs)
  BY <1>0, <1>1, PrefixByElements DEF InOrder
<1>4. ASSUME viewer.pc = "done", viewer.status = "completed", NEW i \in I!ToSet(deployLogs)
      PROVE  i \in I!ToSet(shown) \/ \E j \in I!ToSet(shown) : j > i
  <2>1. PICK n \in 1 .. Len(deployLogs) : i = deployLogs[n]
    BY <1>1 DEF I!ToSet
  <2>2. PICK k \in 1 .. Len(shown) : shown[k] >= i
    BY <2>1, <1>0, <1>4 DEF Ended
  <2>3. shown[k] \in I!ToSet(shown) /\ shown[k] \in Nat /\ i \in Nat
    <3>1. shown[k] \in I!ToSet(shown)
      BY <1>1 DEF I!ToSet
    <3>2. shown[k] \in Nat
      BY <1>1
    <3>3. deployLogs[n] \in Nat
      BY <1>1
    <3> QED
      BY <3>1, <3>2, <3>3, <2>1
  <2>4. shown[k] = i \/ shown[k] > i
    BY <2>2, <2>3
  <2> QED
    BY <2>3, <2>4
<1> QED
  BY <1>2, <1>3, <1>4 DEF I!StreamIsOrderly, Grows

-----------------------------------------------------------------------------
(* The row of the device.                                                   *)

\* At the start there is no row, and no save is at work.
LEMMA DeviceInit ==
  ASSUME I!Init
  PROVE  DeviceInv
<1>1. /\ I!NoDevice \in Devices /\ I!Idle \in Saving
      /\ [hw |-> "none", at |-> 0] \in [hw : I!Hardware \union {"none"}, at : 0 .. MaxReportTime]
      /\ "old" \in I!Hardware
  BY ReportAssumption DEF I!NoDevice, Devices, I!Idle, Saving, SaverSteps, I!Hardware
<1>2. \A s \in I!Savers : saver[s] = I!Idle /\ saver[s].pc = "none" /\ saver[s].at = 0 /\ ~I!AtWork(s)
  BY DEF I!Init, I!Idle, I!AtWork
<1>3. <<>> \in Seq(I!Hardware) /\ <<>> \in Seq(Changes) /\ Len(<<>>) = 0
  OBVIOUS
<1>4. DeviceTypes
  <2>1. reportPlan \in ReportPlans /\ reportPlan.reports \in Nat /\ reportPlan.edits \in Nat
    BY ReportAssumption DEF I!Init
  <2>2. /\ reportNow = 0 /\ MaxReportTime \in Nat /\ metEnd = -CacheTTL /\ CacheTTL \in Nat
        /\ ReportQueueSize \in Nat
    BY ReportAssumption DEF I!Init
  <2>3. reportNow \in 0 .. MaxReportTime /\ metEnd \in Int /\ metEnd <= reportNow
    BY <2>2
  <2>4. hwCache = [hw |-> "none", at |-> 0] /\ hwCache.at = 0
    BY DEF I!Init
  <2>5. reported \in 0 .. reportPlan.reports /\ reportEdits \in 0 .. reportPlan.edits
    BY <2>1 DEF I!Init
  <2>6. machine \in I!Hardware /\ channel \in Seq(I!Hardware) /\ Len(channel) <= ReportQueueSize
    BY <2>2, <1>1, <1>3 DEF I!Init
  <2>7. saver \in [I!Savers -> Saving]
    BY <1>1 DEF I!Init
  <2>8. device \in Devices /\ had \subseteq I!Hardware /\ once \in BOOLEAN /\ byHand \in BOOLEAN
        /\ changes \in Seq(Changes) /\ last \in Saving
    BY <1>1, <1>3 DEF I!Init
  <2>9. hwCache \in [hw : I!Hardware \union {"none"}, at : 0 .. MaxReportTime] /\ hwCache.at <= reportNow
    BY <2>2, <2>4, <1>1
  <2>10. \A s \in I!Savers : saver[s].at <= reportNow /\ (saver[s].pc # "none" => saver[s].hw \in I!Hardware)
    BY <2>2, <1>2
  <2> QED
    BY <2>1, <2>3, <2>5, <2>6, <2>7, <2>8, <2>9, <2>10 DEF DeviceTypes
<1>5. Paired /\ OnItsWay
  BY <1>2 DEF Paired, OnItsWay
<1>6. Trusted
  BY DEF Trusted, I!Init
<1>7. I!DeviceIsTrue
  BY DEF I!DeviceIsTrue, I!Alone, I!Init
<1>8. RecordedOnce
  BY DEF RecordedOnce, I!CreatedOnce, I!Init
<1> QED
  BY <1>4, <1>5, <1>6, <1>7, <1>8 DEF DeviceInv

\* A step of one saver.
LEMMA OneSaver ==
  ASSUME DeviceTypes, NEW s \in I!Savers, NEW y \in Saving, saver' = [saver EXCEPT ![s] = y]
  PROVE  /\ saver' \in [I!Savers -> Saving] /\ saver'[s] = y
         /\ \A q \in I!Savers \ {s} : saver'[q] = saver[q]
BY DEF DeviceTypes

\* A save that goes on keeps what it carries.
LEMMA GoFacts ==
  ASSUME DeviceTypes, NEW s \in I!Savers, NEW p \in SaverSteps, I!Go(s, p)
  PROVE  /\ saver' \in [I!Savers -> Saving]
         /\ saver'[s].pc = p /\ saver'[s].hw = saver[s].hw /\ saver'[s].at = saver[s].at
         /\ saver'[s].met = saver[s].met
         /\ \A q \in I!Savers \ {s} : saver'[q] = saver[q]
<1> DEFINE y == [saver[s] EXCEPT !.pc = p]
<1>1. y \in Saving /\ y.pc = p /\ y.hw = saver[s].hw /\ y.at = saver[s].at /\ y.met = saver[s].met
  BY DEF DeviceTypes, Saving
<1>2. saver' = [saver EXCEPT ![s] = y]
  BY DEF I!Go
<1> HIDE DEF y
<1> QED
  BY <1>1, <1>2, OneSaver

\* A save that ends is remembered, and when it met another, so is the time.
LEMMA EndFacts ==
  ASSUME DeviceTypes, NEW s \in I!Savers, I!End(s), saver[s].pc # "none"
  PROVE  /\ saver' \in [I!Savers -> Saving]
         /\ saver'[s].pc \in {"none", "done"} /\ saver'[s].at <= saver[s].at
         /\ saver'[s].pc # "none" => saver'[s].hw = saver[s].hw
         /\ \A q \in I!Savers \ {s} : saver'[q] = saver[q]
         /\ last' = saver[s] /\ metEnd' = IF saver[s].met THEN reportNow ELSE metEnd
<1> DEFINE y == IF s = "report" THEN I!Idle ELSE [saver[s] EXCEPT !.pc = "done"]
<1>1. I!Idle \in Saving /\ I!Idle.pc = "none" /\ I!Idle.at = 0
  BY ReportAssumption DEF I!Idle, Saving, SaverSteps
<1>2. /\ [saver[s] EXCEPT !.pc = "done"] \in Saving /\ saver[s] \in Saving
      /\ saver[s].at \in 0 .. MaxReportTime
  BY DEF DeviceTypes, Saving, SaverSteps
<1>3. y \in Saving /\ y.pc \in {"none", "done"} /\ y.at <= saver[s].at
      /\ (y.pc # "none" => y.hw = saver[s].hw)
  BY <1>1, <1>2 DEF Saving
<1>4. saver' = [saver EXCEPT ![s] = y]
  BY DEF I!End
<1> HIDE DEF y
<1>5. /\ saver' \in [I!Savers -> Saving] /\ saver'[s] = y
      /\ \A q \in I!Savers \ {s} : saver'[q] = saver[q]
  BY <1>3, <1>4, OneSaver
<1> QED
  BY <1>3, <1>5 DEF I!End

\* The savers do not move, and neither do row, cache and clock.
LEMMA AroundTheRow ==
  ASSUME DeviceInv, UNCHANGED <<reportNow, device, hwCache, once, saver, changes, last, metEnd, byHand>>
  PROVE  Paired' /\ Trusted' /\ OnItsWay' /\ I!DeviceIsTrue' /\ RecordedOnce'
BY DEF DeviceInv, Paired, Trusted, Calm, OnItsWay, Doing, Fresh, I!Visible, I!AtWork, I!DeviceIsTrue,
   I!Alone, I!Quiet, RecordedOnce, I!CreatedOnce

\* Time passes.
LEMMA ReportTickStep ==
  ASSUME DeviceInv, I!Tick, reportPlan' = reportPlan
  PROVE  DeviceInv'
<1>1. DeviceTypes
  BY DEF DeviceInv
<1>2. UNCHANGED <<machine, channel, reported, device, had, hwCache, once, saver, changes, reportEdits,
                  last, metEnd, byHand>>
      /\ reportNow' = reportNow + 1 /\ reportNow < MaxReportTime
  BY DEF I!Tick
<1>3. /\ reportNow \in 0 .. MaxReportTime /\ reportNow' \in 0 .. MaxReportTime /\ reportNow \in Int
      /\ reportNow' \in Int
  BY <1>1, <1>2, ReportAssumption DEF DeviceTypes
<1>4. \A s \in I!Savers : saver[s].at \in Int /\ saver[s].at <= reportNow
  BY <1>1 DEF DeviceTypes, Saving
<1>5. \A s \in I!Savers : saver[s].at <= reportNow'
  BY <1>2, <1>3, <1>4
<1>6. hwCache.at <= reportNow' /\ metEnd <= reportNow'
  BY <1>1, <1>2, <1>3 DEF DeviceTypes
<1>7. DeviceTypes'
  BY <1>1, <1>2, <1>3, <1>5, <1>6 DEF DeviceTypes
<1>8. Paired' /\ Trusted' /\ RecordedOnce'
  BY <1>2 DEF DeviceInv, Paired, Trusted, Calm, I!AtWork, RecordedOnce, I!CreatedOnce
<1>9. ASSUME NEW x \in Saving, Fresh(x) PROVE Fresh(x)'
  <2>1. x.at \in Int
    BY <1>9 DEF Saving
  <2> QED
    BY <2>1, <1>2, <1>3, <1>9, ReportAssumption DEF Fresh
<1>10. OnItsWay'
  <2> SUFFICES ASSUME NEW s \in I!Savers, I!AtWork(s)', ~saver'[s].met
               PROVE  Doing(saver[s])'
    BY DEF OnItsWay
  <2>1. PICK x \in Saving : x = saver[s]
    BY <1>1 DEF DeviceTypes
  <2>2. Doing(x)
    BY <2>1, <1>2 DEF DeviceInv, OnItsWay, I!AtWork
  <2>3. Doing(x)'
    BY <2>2, <1>2, <1>9 DEF Doing, I!Visible
  <2>4. saver'[s] = x
    BY <2>1, <1>2
  <2> QED
    BY <2>3, <2>4 DEF Doing, Fresh, I!Visible
<1>11. I!DeviceIsTrue'
  <2> SUFFICES ASSUME I!Alone'
               PROVE  /\ device.seen = last.at
                      /\ device.hw # last.hw => hwCache.hw = last.hw /\ last.at < metEnd + CacheTTL
                      /\ device.status = "offline" /\ ~byHand => last.at < reportNow' - OfflineTimeout
    BY <1>2 DEF I!DeviceIsTrue
  <2>1. I!Alone
    BY <1>2 DEF I!Alone, I!Quiet, I!AtWork
  <2>2. last.at \in Int
    BY <1>1 DEF DeviceTypes, Saving
  <2> QED
    BY <2>1, <2>2, <1>2, <1>3, ReportAssumption DEF DeviceInv, I!DeviceIsTrue
<1> QED
  BY <1>7, <1>8, <1>10, <1>11 DEF DeviceInv

\* The hardware of the client's machine is replaced.
LEMMA ReplaceStep ==
  ASSUME DeviceInv, I!Replace, reportPlan' = reportPlan
  PROVE  DeviceInv'
<1>1. DeviceTypes'
  BY DEF I!Replace, DeviceInv, DeviceTypes, I!Hardware
<1>2. UNCHANGED <<reportNow, device, hwCache, once, saver, changes, last, metEnd, byHand>>
  BY DEF I!Replace
<1> QED
  BY <1>1, <1>2, AroundTheRow DEF DeviceInv

\* The client reports its hardware, and the queue takes the report or drops it.
LEMMA ReportStep ==
  ASSUME DeviceInv, I!Report, reportPlan' = reportPlan
  PROVE  DeviceInv'
<1>1. channel' \in Seq(I!Hardware) /\ Len(channel') <= ReportQueueSize
  BY ReportAssumption DEF I!Report, DeviceInv, DeviceTypes
<1>2. reported' \in 0 .. reportPlan.reports
  BY ReportAssumption DEF I!Report, DeviceInv, DeviceTypes
<1>3. DeviceTypes'
  BY <1>1, <1>2 DEF I!Report, DeviceInv, DeviceTypes
<1>4. UNCHANGED <<reportNow, device, hwCache, once, saver, changes, last, metEnd, byHand>>
  BY DEF I!Report
<1> QED
  BY <1>3, <1>4, AroundTheRow DEF DeviceInv

\* An answer with hardware starts a save that has not begun to work.
LEMMA Answering ==
  ASSUME DeviceInv, NEW s \in I!Savers, NEW h \in I!Hardware, saver[s].pc = "none",
         saver' = [saver EXCEPT ![s] = [I!Idle EXCEPT !.pc = "answered", !.hw = h]],
         UNCHANGED <<reportPlan, reportNow, machine, reported, device, had, hwCache, once, changes,
                     reportEdits, last, metEnd, byHand>>,
         channel' \in Seq(I!Hardware), Len(channel') <= ReportQueueSize
  PROVE  DeviceInv'
<1> DEFINE y == [I!Idle EXCEPT !.pc = "answered", !.hw = h]
<1>1. y \in Saving /\ y.pc = "answered" /\ y.hw = h /\ y.at = 0
  <2>1. I!Idle \in Saving /\ I!Idle.at = 0
    BY ReportAssumption DEF I!Idle, Saving, SaverSteps
  <2>2. "answered" \in SaverSteps /\ h \in I!Hardware \union {"none"}
    BY DEF SaverSteps
  <2> QED
    BY <2>1, <2>2 DEF Saving
<1> HIDE DEF y
<1>2. saver' \in [I!Savers -> Saving] /\ saver'[s] = y /\ \A q \in I!Savers \ {s} : saver'[q] = saver[q]
  BY <1>1, OneSaver DEF DeviceInv, y
<1>3. ~I!AtWork(s) /\ ~I!AtWork(s)' /\ saver'[s].pc # "cache" /\ saver[s].pc # "cache"
  BY <1>1, <1>2 DEF I!AtWork
<1>4. \A q \in I!Savers : I!AtWork(q)' = I!AtWork(q)
  BY <1>2, <1>3 DEF I!AtWork
<1>5. DeviceTypes'
  <2>1. \A q \in I!Savers : saver'[q].at <= reportNow /\ (saver'[q].pc # "none" => saver'[q].hw \in I!Hardware)
    <3>1. 0 <= reportNow
      BY ReportAssumption DEF DeviceInv, DeviceTypes
    <3>2. saver'[s].at <= reportNow /\ saver'[s].hw \in I!Hardware
      BY <3>1, <1>1, <1>2
    <3> QED
      BY <3>2, <1>2 DEF DeviceInv, DeviceTypes
  <2> QED
    BY <2>1, <1>2 DEF DeviceInv, DeviceTypes
<1>6. \A q \in I!Savers : I!AtWork(q) => saver'[q] = saver[q]
  BY <1>2, <1>3
<1>7. Paired'
  BY <1>4, <1>6 DEF DeviceInv, Paired
<1>8. Trusted'
  <2>1. Calm' = Calm
    BY <1>2, <1>3, <1>4, <1>6 DEF Calm
  <2> QED
    BY <2>1 DEF DeviceInv, Trusted
<1>9. OnItsWay'
  BY <1>4, <1>6 DEF DeviceInv, OnItsWay, Doing, Fresh, I!Visible
<1>10. I!DeviceIsTrue'
  BY <1>4 DEF DeviceInv, I!DeviceIsTrue, I!Alone, I!Quiet
<1>11. RecordedOnce'
  BY DEF DeviceInv, RecordedOnce, I!CreatedOnce
<1> QED
  BY <1>5, <1>7, <1>8, <1>9, <1>10, <1>11 DEF DeviceInv

\* The worker takes a report from the queue.
LEMMA TakeStep ==
  ASSUME DeviceInv, I!Take, reportPlan' = reportPlan
  PROVE  DeviceInv'
<1>1. channel \in Seq(I!Hardware) /\ channel # <<>> /\ Len(channel) <= ReportQueueSize
  BY DEF I!Take, DeviceInv, DeviceTypes
<1>2. /\ Head(channel) \in I!Hardware /\ Tail(channel) \in Seq(I!Hardware)
      /\ Len(Tail(channel)) <= ReportQueueSize
  BY <1>1, ReportAssumption
<1> QED
  BY <1>2, Answering DEF I!Take, I!Savers

\* A command hardware.info is answered.
LEMMA AnswerStep ==
  ASSUME DeviceInv, NEW a \in Answers, I!Answer(a), reportPlan' = reportPlan
  PROVE  DeviceInv'
<1>1. machine \in I!Hardware /\ channel \in Seq(I!Hardware) /\ Len(channel) <= ReportQueueSize
  BY DEF DeviceInv, DeviceTypes
<1> QED
  BY <1>1, Answering DEF I!Answer, I!Savers

\* SaveHardwareInfo begins, and looks at the cache.
LEMMA BeginStep ==
  ASSUME DeviceInv, NEW s \in I!Savers, I!Begin(s), reportPlan' = reportPlan
  PROVE  DeviceInv'
<1>1. /\ saver[s].pc = "answered" /\ saver' = I!Begun(s)
      /\ UNCHANGED <<reportNow, machine, channel, reported, device, had, hwCache, once, changes,
                     reportEdits, last, metEnd, byHand>>
  BY DEF I!Begin
<1> DEFINE m == \E p \in I!Savers : I!AtWork(p)
           n == IF I!Cached(s) THEN "touch" ELSE "upsert"
           y == [saver[s] EXCEPT !.pc = n, !.at = reportNow, !.met = m]
           w(q) == [saver[q] EXCEPT !.met = TRUE]
<1>2. ~I!AtWork(s)
  BY <1>1 DEF I!AtWork
<1>3. saver \in [I!Savers -> Saving] /\ reportNow \in 0 .. MaxReportTime
  BY DEF DeviceInv, DeviceTypes
<1>4. y \in Saving /\ y.pc = n /\ y.at = reportNow /\ y.met = m /\ y.hw = saver[s].hw
  <2>1. m \in BOOLEAN /\ n \in SaverSteps
    BY DEF SaverSteps
  <2> HIDE DEF m, n
  <2> QED
    BY <2>1, <1>3 DEF Saving
<1>5. \A q \in I!Savers : w(q) \in Saving /\ w(q).pc = saver[q].pc /\ w(q).at = saver[q].at
                        /\ w(q).hw = saver[q].hw /\ w(q).met = TRUE
  BY <1>3 DEF Saving
<1>6. saver' = [q \in I!Savers |-> IF q = s THEN y ELSE IF I!AtWork(q) THEN w(q) ELSE saver[q]]
  BY <1>1 DEF I!Begun
<1> HIDE DEF y, w
<1>7. saver' \in [I!Savers -> Saving] /\ saver'[s] = y
  BY <1>3, <1>4, <1>5, <1>6
<1>8. \A q \in I!Savers \ {s} : /\ saver'[q].pc = saver[q].pc /\ saver'[q].at = saver[q].at
                                /\ saver'[q].hw = saver[q].hw
                                /\ I!AtWork(q) => saver'[q].met = TRUE
                                /\ ~I!AtWork(q) => saver'[q] = saver[q]
  BY <1>5, <1>6
<1>9. I!AtWork(s)' /\ saver'[s].pc # "cache"
  BY <1>4, <1>7 DEF I!AtWork
<1>10. \A q \in I!Savers \ {s} : I!AtWork(q)' = I!AtWork(q)
  BY <1>8 DEF I!AtWork
<1>11. DeviceTypes'
  <2>1. \A q \in I!Savers : saver'[q].at <= reportNow /\ (saver'[q].pc # "none" => saver'[q].hw \in I!Hardware)
    <3>1. saver'[s].at <= reportNow /\ saver'[s].hw \in I!Hardware
      BY <1>1, <1>3, <1>4, <1>7 DEF DeviceInv, DeviceTypes
    <3> QED
      BY <3>1, <1>8 DEF DeviceInv, DeviceTypes
  <2> QED
    BY <2>1, <1>1, <1>7 DEF DeviceInv, DeviceTypes
<1>12. Paired'
  BY <1>2, <1>4, <1>7, <1>8, <1>9, <1>10 DEF Paired
<1>13. Trusted'
  <2>1. CASE m
    <3>1. PICK p \in I!Savers : I!AtWork(p)
      BY <2>1
    <3>2. ~Calm'
      BY <3>1, <1>2, <1>8, <1>10 DEF Calm
    <3> QED
      BY <3>2 DEF Trusted
  <2>2. CASE ~m
    <3>1. Calm' => Calm
      BY <2>2, <1>1, <1>8 DEF Calm
    <3> QED
      BY <3>1, <1>1 DEF Trusted, DeviceInv
  <2> QED
    BY <2>1, <2>2
<1>14. OnItsWay'
  <2> SUFFICES ASSUME NEW q \in I!Savers, I!AtWork(q)', ~saver'[q].met
               PROVE  Doing(saver[q])'
    BY DEF OnItsWay
  <2>1. q = s
    BY <1>8, <1>10
  <2>2. saver'[q].pc \in {"touch", "upsert"}
    BY <2>1, <1>4, <1>7
  <2>3. saver'[q].pc = "touch" => hwCache.hw = saver'[q].hw /\ saver'[q].at < hwCache.at + CacheTTL
    <3> SUFFICES ASSUME I!Cached(s) PROVE hwCache.hw = y.hw /\ reportNow < hwCache.at + CacheTTL
      BY <2>1, <1>4, <1>7
    <3>1. hwCache.at \in Int /\ reportNow \in Int /\ CacheTTL \in Int
      BY <1>3, ReportAssumption DEF DeviceInv, DeviceTypes
    <3> QED
      BY <3>1, <1>4 DEF I!Cached
  <2> QED
    BY <2>2, <2>3, <1>1 DEF Doing
<1>15. I!DeviceIsTrue'
  BY <1>9 DEF I!DeviceIsTrue, I!Alone, I!Quiet
<1>16. RecordedOnce'
  BY <1>1 DEF DeviceInv, RecordedOnce, I!CreatedOnce
<1> QED
  BY <1>11, <1>12, <1>13, <1>14, <1>15, <1>16 DEF DeviceInv

\* A save that is at work and has met no other is alone.
LEMMA LoneSave ==
  ASSUME DeviceInv, NEW s \in I!Savers, I!AtWork(s)
  PROVE  /\ saver[s] \in Saving /\ saver[s].hw \in I!Hardware /\ saver[s].at \in 0 .. MaxReportTime
         /\ saver[s].met \in BOOLEAN
         /\ \A q \in I!Savers \ {s} : I!AtWork(q) => saver[q].met /\ saver[s].met
         /\ ~saver[s].met => Doing(saver[s])
<1>1. saver[s] \in Saving /\ saver[s].pc # "none"
  BY DEF DeviceInv, DeviceTypes, I!AtWork
<1> QED
  BY <1>1 DEF DeviceInv, DeviceTypes, Paired, OnItsWay, Saving

\* A save goes on.
LEMMA Working ==
  ASSUME DeviceInv, NEW s \in I!Savers, I!AtWork(s), NEW p \in {"find", "upsert", "cache", "compare"},
         I!Go(s, p),
         UNCHANGED <<reportPlan, reportNow, machine, channel, reported, changes, reportEdits, last, metEnd,
                     once>>,
         device' \in Devices, had' \subseteq I!Hardware, byHand' \in BOOLEAN,
         hwCache' \in [hw : I!Hardware \union {"none"}, at : 0 .. MaxReportTime], hwCache'.at <= reportNow,
         ~saver[s].met => Doing(saver[s])',
         ~saver[s].met /\ p # "cache" /\ device'.hw # hwCache'.hw => hwCache'.hw = "none" \/ hwCache'.at <= metEnd
  PROVE  DeviceInv'
<1>1. /\ saver' \in [I!Savers -> Saving]
      /\ saver'[s].pc = p /\ saver'[s].hw = saver[s].hw /\ saver'[s].at = saver[s].at
      /\ saver'[s].met = saver[s].met
      /\ \A q \in I!Savers \ {s} : saver'[q] = saver[q]
  BY GoFacts DEF DeviceInv, SaverSteps
<1>2. \A q \in I!Savers \ {s} : I!AtWork(q) => saver[q].met /\ saver[s].met
  BY LoneSave
<1>3. I!AtWork(s)' /\ \A q \in I!Savers \ {s} : I!AtWork(q)' = I!AtWork(q)
  BY <1>1 DEF I!AtWork
<1>4. DeviceTypes'
  <2>1. saver[s].pc # "none"
    BY DEF I!AtWork
  <2>2. \A q \in I!Savers : saver'[q].at <= reportNow /\ (saver'[q].pc # "none" => saver'[q].hw \in I!Hardware)
    BY <2>1, <1>1 DEF DeviceInv, DeviceTypes
  <2> QED
    BY <2>2, <1>1 DEF DeviceInv, DeviceTypes
<1>5. Paired'
  BY <1>1, <1>2, <1>3 DEF Paired, DeviceInv
<1>6. Trusted'
  BY <1>1, <1>3 DEF Trusted, Calm
<1>7. OnItsWay'
  <2> SUFFICES ASSUME NEW q \in I!Savers, I!AtWork(q)', ~saver'[q].met
               PROVE  Doing(saver[q])'
    BY DEF OnItsWay
  <2>1. q = s
    BY <1>1, <1>2, <1>3
  <2>2. ~saver[s].met
    BY <2>1, <1>1
  <2> QED
    BY <2>1, <2>2
<1>8. I!DeviceIsTrue'
  BY <1>3 DEF I!DeviceIsTrue, I!Alone, I!Quiet
<1>9. RecordedOnce'
  BY DEF DeviceInv, RecordedOnce, I!CreatedOnce
<1> QED
  BY <1>4, <1>5, <1>6, <1>7, <1>8, <1>9 DEF DeviceInv

\* A save ends.
LEMMA Ending ==
  ASSUME DeviceInv, NEW s \in I!Savers, saver[s].pc \in {"find", "compare"}, I!End(s),
         UNCHANGED <<reportPlan, reportNow, machine, channel, reported, device, had, hwCache, reportEdits,
                     byHand>>,
         once' \in BOOLEAN, changes' \in Seq(Changes), RecordedOnce',
         ~saver[s].met =>
           /\ Fresh(saver[s])
           /\ device.hw # saver[s].hw => hwCache.hw = saver[s].hw /\ saver[s].at < metEnd + CacheTTL
  PROVE  DeviceInv'
<1>0. I!AtWork(s) /\ saver[s].pc # "none" /\ saver[s].pc # "cache"
  BY DEF I!AtWork
<1>1. /\ saver' \in [I!Savers -> Saving]
      /\ saver'[s].pc \in {"none", "done"} /\ saver'[s].at <= saver[s].at
      /\ saver'[s].pc # "none" => saver'[s].hw = saver[s].hw
      /\ \A q \in I!Savers \ {s} : saver'[q] = saver[q]
      /\ last' = saver[s] /\ metEnd' = IF saver[s].met THEN reportNow ELSE metEnd
  BY <1>0, EndFacts DEF DeviceInv
<1>2. /\ saver[s] \in Saving /\ saver[s].hw \in I!Hardware /\ saver[s].at \in 0 .. MaxReportTime
      /\ \A q \in I!Savers \ {s} : I!AtWork(q) => saver[q].met /\ saver[s].met
  BY <1>0, LoneSave
<1>3. ~I!AtWork(s)' /\ \A q \in I!Savers \ {s} : I!AtWork(q)' = I!AtWork(q)
  BY <1>1 DEF I!AtWork
<1>4. /\ reportNow \in 0 .. MaxReportTime /\ reportNow \in Int /\ metEnd \in Int /\ metEnd <= reportNow
      /\ hwCache.at <= reportNow
  BY ReportAssumption DEF DeviceInv, DeviceTypes
<1>5. DeviceTypes'
  <2>1. saver[s].at <= reportNow /\ saver'[s].at \in 0 .. MaxReportTime
    BY <1>1 DEF DeviceInv, DeviceTypes, Saving
  <2>2. saver'[s].at <= reportNow
    BY <2>1, <1>1, <1>2, <1>4
  <2>3. \A q \in I!Savers : saver'[q].at <= reportNow /\ (saver'[q].pc # "none" => saver'[q].hw \in I!Hardware)
    BY <2>2, <1>1, <1>2 DEF DeviceInv, DeviceTypes
  <2>4. metEnd' \in Int /\ metEnd' <= reportNow
    BY <1>1, <1>4
  <2> QED
    BY <2>3, <2>4, <1>1, <1>2 DEF DeviceInv, DeviceTypes
<1>6. Paired'
  BY <1>1, <1>3 DEF Paired, DeviceInv
<1>7. Trusted'
  <2>1. CASE saver[s].met
    <3>1. hwCache.at <= metEnd'
      BY <2>1, <1>1, <1>4
    <3> QED
      BY <3>1 DEF Trusted
  <2>2. CASE ~saver[s].met
    <3>1. Calm' => Calm
      BY <2>2, <1>0, <1>1, <1>3 DEF Calm
    <3>2. metEnd' = metEnd
      BY <2>2, <1>1
    <3> QED
      BY <3>1, <3>2 DEF Trusted, DeviceInv
  <2> QED
    BY <2>1, <2>2
<1>8. OnItsWay'
  BY <1>1, <1>2, <1>3 DEF OnItsWay
<1>9. I!DeviceIsTrue'
  <2> SUFFICES ASSUME ~saver[s].met PROVE I!DeviceIsTrue'
    BY <1>1 DEF I!DeviceIsTrue, I!Alone
  <2> QED
    BY <1>1 DEF I!DeviceIsTrue, Fresh
<1> QED
  BY <1>5, <1>6, <1>7, <1>8, <1>9 DEF DeviceInv

\* While such a save is at work, the cache is as true as it was.
LEMMA UnmetIsCalm ==
  ASSUME DeviceInv, NEW s \in I!Savers, I!AtWork(s), ~saver[s].met, saver[s].pc # "cache"
  PROVE  device.hw # hwCache.hw => hwCache.hw = "none" \/ hwCache.at <= metEnd
<1>1. \A q \in I!Savers \ {s} : ~I!AtWork(q)
  BY LoneSave
<1>2. Calm
  BY <1>1 DEF Calm, I!AtWork
<1> QED
  BY <1>2 DEF DeviceInv, Trusted

\* The hardware is that of the cache: only the time is written.
LEMMA TouchStep ==
  ASSUME DeviceInv, NEW s \in I!Savers, I!Touch(s), reportPlan' = reportPlan
  PROVE  DeviceInv'
<1>1. /\ saver[s].pc = "touch" /\ I!Go(s, "find")
      /\ device' = IF I!Visible THEN [device EXCEPT !.seen = saver[s].at, !.status = "online"] ELSE device
      /\ byHand' = (byHand /\ ~I!Visible)
      /\ UNCHANGED <<reportNow, machine, channel, reported, had, hwCache, once, changes, reportEdits, last,
                     metEnd>>
  BY DEF I!Touch
<1>2. I!AtWork(s)
  BY <1>1 DEF I!AtWork
<1>3. saver[s].at \in 0 .. MaxReportTime /\ (~saver[s].met => Doing(saver[s]))
  BY <1>2, LoneSave
<1>4. device' \in Devices /\ device'.hw = device.hw
  BY <1>1, <1>3 DEF DeviceInv, DeviceTypes, Devices
<1>5. I!Visible => device'.seen = saver[s].at /\ device'.status = "online"
  BY <1>1 DEF DeviceInv, DeviceTypes, Devices
<1>6. ~I!Visible => device' = device
  BY <1>1
<1>7. /\ saver'[s].pc = "find" /\ saver'[s].hw = saver[s].hw /\ saver'[s].at = saver[s].at
  BY <1>1, GoFacts DEF DeviceInv, SaverSteps
<1>8. ~saver[s].met => Doing(saver[s])'
  <2> SUFFICES ASSUME ~saver[s].met PROVE Doing(saver[s])'
    OBVIOUS
  <2>1. hwCache.hw = saver[s].hw /\ saver[s].at < hwCache.at + CacheTTL
    BY <1>1, <1>3 DEF Doing
  <2>2. I!Visible' => I!Visible
    BY <1>6 DEF I!Visible
  <2>3. I!Visible' => Fresh(saver[s])'
    BY <2>2, <1>5, <1>7 DEF Fresh
  <2> QED
    BY <2>1, <2>3, <1>1, <1>7 DEF Doing
<1>9. ~saver[s].met /\ device'.hw # hwCache'.hw => hwCache'.hw = "none" \/ hwCache'.at <= metEnd
  BY <1>1, <1>2, <1>4, UnmetIsCalm
<1>10. had' \subseteq I!Hardware /\ byHand' \in BOOLEAN
       /\ hwCache' \in [hw : I!Hardware \union {"none"}, at : 0 .. MaxReportTime]
       /\ hwCache'.at <= reportNow
  BY <1>1 DEF DeviceInv, DeviceTypes
<1> QED
  BY <1>1, <1>2, <1>4, <1>8, <1>9, <1>10, Working

\* SaveHardwareInfo reads the row.
LEMMA FindStep ==
  ASSUME DeviceInv, NEW s \in I!Savers, I!Find(s), reportPlan' = reportPlan
  PROVE  DeviceInv'
<1>1. /\ saver[s].pc = "find"
      /\ IF I!Visible THEN I!End(s) ELSE I!Go(s, "upsert") /\ UNCHANGED <<last, metEnd>>
      /\ UNCHANGED <<reportNow, machine, channel, reported, device, had, hwCache, once, changes,
                     reportEdits, byHand>>
  BY DEF I!Find
<1>2. I!AtWork(s)
  BY <1>1 DEF I!AtWork
<1>3. /\ saver[s].at \in 0 .. MaxReportTime /\ saver[s].hw \in I!Hardware
      /\ ~saver[s].met => hwCache.hw = saver[s].hw /\ saver[s].at < hwCache.at + CacheTTL
                          /\ (I!Visible => Fresh(saver[s]))
  BY <1>1, <1>2, LoneSave DEF Doing
<1>4. ~saver[s].met => (device.hw # hwCache.hw => hwCache.hw = "none" \/ hwCache.at <= metEnd)
  BY <1>1, <1>2, UnmetIsCalm
<1>5. CASE I!Visible
  <2>1. ASSUME ~saver[s].met, device.hw # saver[s].hw
        PROVE  hwCache.hw = saver[s].hw /\ saver[s].at < metEnd + CacheTTL
    <3>1. hwCache.hw = saver[s].hw /\ saver[s].at < hwCache.at + CacheTTL /\ hwCache.at <= metEnd
      BY <2>1, <1>3, <1>4 DEF I!Hardware
    <3>2. hwCache.at \in Int /\ metEnd \in Int /\ CacheTTL \in Int /\ saver[s].at \in Int
      BY <1>3, ReportAssumption DEF DeviceInv, DeviceTypes
    <3> QED
      BY <3>1, <3>2
  <2>2. RecordedOnce'
    BY <1>1 DEF DeviceInv, RecordedOnce, I!CreatedOnce
  <2>3. once' \in BOOLEAN /\ changes' \in Seq(Changes)
    BY <1>1 DEF DeviceInv, DeviceTypes
  <2> QED
    BY <2>1, <2>2, <2>3, <1>1, <1>3, <1>5, Ending
<1>6. CASE ~I!Visible
  <2>1. I!Go(s, "upsert")
    BY <1>1, <1>6
  <2>2. saver'[s].pc = "upsert"
    BY <2>1, GoFacts DEF DeviceInv, SaverSteps
  <2>3. Doing(saver[s])'
    BY <2>2 DEF Doing
  <2>4. device' \in Devices /\ had' \subseteq I!Hardware /\ byHand' \in BOOLEAN
        /\ hwCache' \in [hw : I!Hardware \union {"none"}, at : 0 .. MaxReportTime]
        /\ hwCache'.at <= reportNow
    BY <1>1 DEF DeviceInv, DeviceTypes
  <2> QED
    BY <2>1, <2>3, <2>4, <1>1, <1>2, <1>4, <1>6, Working
<1> QED
  BY <1>5, <1>6

\* SaveHardwareInfo writes the row.
LEMMA UpsertStep ==
  ASSUME DeviceInv, NEW s \in I!Savers, I!Upsert(s), reportPlan' = reportPlan
  PROVE  DeviceInv'
<1> DEFINE d == [hw |-> saver[s].hw, seen |-> saver[s].at, status |-> "online", hidden |-> device.hidden]
<1>1. /\ saver[s].pc = "upsert" /\ I!Go(s, "cache") /\ device' = d
      /\ had' = had \union {saver[s].hw} /\ byHand' = FALSE
      /\ UNCHANGED <<reportNow, machine, channel, reported, hwCache, once, changes, reportEdits, last,
                     metEnd>>
  BY DEF I!Upsert
<1>2. I!AtWork(s)
  BY <1>1 DEF I!AtWork
<1>3. saver[s].at \in 0 .. MaxReportTime /\ saver[s].hw \in I!Hardware
  BY <1>2, LoneSave
<1>4. d \in Devices /\ d.hw = saver[s].hw /\ d.seen = saver[s].at /\ d.status = "online"
  BY <1>3 DEF DeviceInv, DeviceTypes, Devices
<1> HIDE DEF d
<1>5. saver'[s].pc = "cache" /\ saver'[s].hw = saver[s].hw /\ saver'[s].at = saver[s].at
  BY <1>1, GoFacts DEF DeviceInv, SaverSteps
<1>6. Doing(saver[s])'
  BY <1>1, <1>4, <1>5 DEF Doing, Fresh
<1>7. had' \subseteq I!Hardware
      /\ hwCache' \in [hw : I!Hardware \union {"none"}, at : 0 .. MaxReportTime] /\ hwCache'.at <= reportNow
  BY <1>1, <1>3 DEF DeviceInv, DeviceTypes
<1> QED
  BY <1>1, <1>2, <1>4, <1>6, <1>7, Working

\* SaveHardwareInfo puts the hardware into the cache.
LEMMA PutCacheStep ==
  ASSUME DeviceInv, NEW s \in I!Savers, I!PutCache(s), reportPlan' = reportPlan
  PROVE  DeviceInv'
<1> DEFINE d == [hw |-> saver[s].hw, at |-> saver[s].at]
<1>1. /\ saver[s].pc = "cache" /\ I!Go(s, "compare") /\ hwCache' = d
      /\ UNCHANGED <<reportNow, machine, channel, reported, device, had, once, changes, reportEdits, last,
                     metEnd, byHand>>
  BY DEF I!PutCache
<1>2. I!AtWork(s)
  BY <1>1 DEF I!AtWork
<1>3. /\ saver[s].at \in 0 .. MaxReportTime /\ saver[s].hw \in I!Hardware
      /\ ~saver[s].met => device.hw = saver[s].hw /\ Fresh(saver[s])
  BY <1>1, <1>2, LoneSave DEF Doing
<1>4. /\ d \in [hw : I!Hardware \union {"none"}, at : 0 .. MaxReportTime] /\ d.hw = saver[s].hw
      /\ d.at = saver[s].at
  BY <1>3
<1> HIDE DEF d
<1>5. saver'[s].pc = "compare" /\ saver'[s].hw = saver[s].hw /\ saver'[s].at = saver[s].at
  BY <1>1, GoFacts DEF DeviceInv, SaverSteps
<1>6. ~saver[s].met => Doing(saver[s])'
  BY <1>1, <1>3, <1>4, <1>5 DEF Doing, Fresh
<1>7. device' \in Devices /\ had' \subseteq I!Hardware /\ byHand' \in BOOLEAN /\ saver[s].at <= reportNow
  BY <1>1 DEF DeviceInv, DeviceTypes
<1> QED
  BY <1>1, <1>2, <1>3, <1>4, <1>6, <1>7, Working

\* SaveHardwareInfo writes the history, once for a new device.
LEMMA CompareStep ==
  ASSUME DeviceInv, NEW s \in I!Savers, I!Compare(s), reportPlan' = reportPlan
  PROVE  DeviceInv'
<1>1. /\ saver[s].pc = "compare" /\ I!End(s) /\ once' = (once \/ ~I!Visible)
      /\ UNCHANGED <<reportNow, machine, channel, reported, device, had, hwCache, reportEdits, byHand>>
  BY DEF I!Compare
<1>2. I!AtWork(s)
  BY <1>1 DEF I!AtWork
<1>3. saver[s].met \in BOOLEAN /\ (~saver[s].met => device.hw = saver[s].hw /\ Fresh(saver[s]))
  BY <1>1, <1>2, LoneSave DEF Doing
<1> DEFINE rec(k) == [kind |-> k, met |-> saver[s].met]
<1>4. rec("created") \in Changes /\ rec("changed") \in Changes /\ rec("created").kind = "created"
      /\ rec("changed").kind = "changed"
  BY <1>3 DEF Changes
<1>5. changes \in Seq(Changes) /\ once \in BOOLEAN /\ once' \in BOOLEAN
  BY <1>1 DEF DeviceInv, DeviceTypes
<1>6. \/ changes' = changes
      \/ ~once /\ once' = TRUE /\ changes' = Append(changes, rec("created"))
      \/ changes' = Append(changes, rec("changed"))
  BY <1>1, <1>5 DEF I!Compare
<1>7. once => once'
  BY <1>1
<1> HIDE DEF rec
<1>8. changes' \in Seq(Changes)
  BY <1>4, <1>5, <1>6
<1>9. RecordedOnce'
  <2>0. I!CreatedOnce /\ (~once => \A i \in DOMAIN changes : changes[i].kind # "created")
    BY DEF DeviceInv, RecordedOnce
  <2>1. CASE changes' = changes
    BY <2>0, <2>1, <1>7 DEF RecordedOnce, I!CreatedOnce
  <2>2. ASSUME NEW r \in Changes, changes' = Append(changes, r)
        PROVE  /\ Len(changes) \in Nat /\ DOMAIN changes = 1 .. Len(changes)
               /\ DOMAIN changes' = 1 .. Len(changes) + 1 /\ changes'[Len(changes) + 1] = r
               /\ \A i \in 1 .. Len(changes) : changes'[i] = changes[i]
    BY <2>2, <1>5
  <2>3. CASE ~once /\ once' = TRUE /\ changes' = Append(changes, rec("created"))
    <3>1. \A i \in DOMAIN changes : changes[i].kind # "created"
      BY <2>0, <2>3
    <3>2. \A i \in DOMAIN changes' : changes'[i].kind = "created" => i = Len(changes) + 1
      BY <3>1, <2>2, <2>3, <1>4
    <3> QED
      BY <3>2, <2>3 DEF RecordedOnce, I!CreatedOnce
  <2>4. CASE changes' = Append(changes, rec("changed"))
    <3>1. \A i \in DOMAIN changes' : changes'[i].kind = "created" =>
             i \in DOMAIN changes /\ changes[i].kind = "created"
      BY <2>2, <2>4, <1>4
    <3> QED
      BY <3>1, <2>0, <1>7 DEF RecordedOnce, I!CreatedOnce
  <2> QED
    BY <2>1, <2>3, <2>4, <1>6
<1> QED
  BY <1>1, <1>3, <1>5, <1>8, <1>9, Ending

\* A request of an administrator changes status and visibility of the row.
LEMMA EditedRow ==
  ASSUME DeviceInv, I!Edit, reportPlan' = reportPlan, device' \in Devices, byHand' \in BOOLEAN,
         device'.hw = device.hw, device'.seen = device.seen, I!Visible' => I!Visible,
         device'.status = "offline" /\ ~byHand' =>
           \/ device.status = "offline" /\ ~byHand
           \/ device.seen < reportNow - OfflineTimeout
  PROVE  DeviceInv'
<1>1. UNCHANGED <<reportNow, machine, channel, reported, had, hwCache, once, saver, changes, last, metEnd>>
      /\ reportEdits' = reportEdits + 1 /\ reportEdits < reportPlan.edits
  BY DEF I!Edit
<1>2. DeviceTypes'
  <2>1. reportEdits' \in 0 .. reportPlan.edits
    BY <1>1, ReportAssumption DEF DeviceInv, DeviceTypes
  <2> QED
    BY <2>1, <1>1 DEF DeviceInv, DeviceTypes
<1>3. Paired' /\ Trusted' /\ RecordedOnce'
  BY <1>1 DEF DeviceInv, Paired, Trusted, Calm, I!AtWork, RecordedOnce, I!CreatedOnce
<1>4. OnItsWay'
  BY <1>1 DEF DeviceInv, OnItsWay, Doing, Fresh, I!AtWork
<1>5. I!DeviceIsTrue'
  BY <1>1 DEF DeviceInv, I!DeviceIsTrue, I!Alone, I!Quiet, I!AtWork
<1> QED
  BY <1>2, <1>3, <1>4, <1>5 DEF DeviceInv

\* MarkOfflineDevices and the requests of an administrator.
LEMMA EditsStep ==
  ASSUME DeviceInv, reportPlan' = reportPlan,
         I!MarkOfflineDevices \/ I!DeleteDevice
           \/ \E status \in {"online", "offline", "unknown"} : I!UpdateDeviceStatus(status)
  PROVE  DeviceInv'
<1>1. device \in Devices /\ byHand \in BOOLEAN
  BY DEF DeviceInv, DeviceTypes
<1>2. CASE I!MarkOfflineDevices
  <2>1. I!Edit /\ I!Visible /\ device.seen < reportNow - OfflineTimeout /\ byHand' = byHand
        /\ device' = [device EXCEPT !.status = "offline"]
    BY <1>2 DEF I!MarkOfflineDevices
  <2>2. device' \in Devices /\ device'.hw = device.hw /\ device'.seen = device.seen
    BY <2>1, <1>1 DEF Devices
  <2> QED
    BY <2>1, <2>2, <1>1, EditedRow
<1>3. CASE I!DeleteDevice
  <2>1. I!Edit /\ I!Visible /\ byHand' = byHand /\ device' = [device EXCEPT !.hidden = TRUE]
    BY <1>3 DEF I!DeleteDevice
  <2>2. device' \in Devices /\ device'.hw = device.hw /\ device'.seen = device.seen
        /\ device'.status = device.status
    BY <2>1, <1>1 DEF Devices
  <2> QED
    BY <2>1, <2>2, <1>1, EditedRow
<1>4. ASSUME NEW status \in {"online", "offline", "unknown"}, I!UpdateDeviceStatus(status)
      PROVE  DeviceInv'
  <2>1. I!Edit /\ I!Visible /\ byHand' = TRUE /\ device' = [device EXCEPT !.status = status]
    BY <1>4 DEF I!UpdateDeviceStatus
  <2>2. device' \in Devices /\ device'.hw = device.hw /\ device'.seen = device.seen
    BY <2>1, <1>1 DEF Devices
  <2> QED
    BY <2>1, <2>2, <1>1, EditedRow
<1> QED
  BY <1>2, <1>3, <1>4

\* Every step about the row of the device keeps its invariant.
LEMMA DevicesStep ==
  ASSUME DeviceInv, I!DeviceStep, reportPlan' = reportPlan
  PROVE  DeviceInv'
<1>1. CASE I!Tick \/ I!Replace \/ I!Report \/ I!Take
  BY <1>1, ReportTickStep, ReplaceStep, ReportStep, TakeStep
<1>2. ASSUME NEW s \in I!Savers, I!SaveStep(s)
      PROVE  DeviceInv'
  BY <1>2, BeginStep, TouchStep, FindStep, UpsertStep, PutCacheStep, CompareStep DEF I!SaveStep
<1>3. CASE \E a \in Answers : I!Answer(a)
  BY <1>3, AnswerStep
<1> QED
  BY <1>1, <1>2, <1>3, EditsStep DEF I!DeviceStep

\* The invariant gives the types, and that the reports are true.
LEMMA DeviceShows ==
  ASSUME ReportInv
  PROVE  I!TypeOK /\ I!ReportsAreTrue
<1>1. I!StreamIsOrderly /\ I!IsPrefix(deployLogs, reportPlan.ids)
  BY StreamShows DEF ReportInv
<1>2. I!DeviceIsTrue /\ I!CreatedOnce
  BY DEF ReportInv, DeviceInv, RecordedOnce
<1>3. I!TypeOK
  BY <1>1 DEF I!TypeOK, ReportInv, DeviceInv, DeviceTypes, StreamInv, StreamTypes, Devices, Saving,
     SaverSteps
<1> QED
  BY <1>1, <1>2, <1>3 DEF I!ReportsAreTrue

\* The reports start in their invariant.
LEMMA ReportInit ==
  ASSUME I!Init
  PROVE  ReportInv
BY DeviceInit, StreamInit DEF ReportInv

\* Every step of the reports keeps their invariant.
LEMMA ReportNext ==
  ASSUME ReportInv, [I!Next]_(I!vars)
  PROVE  ReportInv'
<1>1. CASE UNCHANGED I!vars
  <2>1. UNCHANGED <<reportPlan, reportNow, machine, channel, reported, device, had, hwCache, once, saver, changes,
                    reportEdits, last, metEnd, byHand, deployTask, deployRun, deployLogs, viewer, shown>>
    BY <1>1 DEF I!vars, I!deviceVars, I!streamVars
  <2>2. DeviceTypes'
    BY <2>1 DEF ReportInv, DeviceInv, DeviceTypes
  <2>3. StreamInv'
    BY <2>1 DEF ReportInv, StreamInv, StreamTypes, Ended, InOrder, Grows
  <2> QED
    BY <2>1, <2>2, <2>3, AroundTheRow DEF ReportInv, DeviceInv
<1>2. CASE I!DeviceStep /\ UNCHANGED <<reportPlan, I!streamVars>>
  <2>1. DeviceInv'
    BY <1>2, DevicesStep DEF ReportInv
  <2>2. StreamInv'
    BY <1>2 DEF I!streamVars, ReportInv, StreamInv, StreamTypes, Ended, InOrder, Grows
  <2> QED
    BY <2>1, <2>2 DEF ReportInv
<1>3. CASE I!StreamStep /\ UNCHANGED <<reportPlan, I!deviceVars>>
  <2>1. StreamInv'
    BY <1>3, StreamsStep DEF ReportInv
  <2>2. UNCHANGED <<reportPlan, reportNow, machine, channel, reported, device, had, hwCache, once, saver, changes,
                    reportEdits, last, metEnd, byHand>>
    BY <1>3 DEF I!deviceVars
  <2>3. DeviceTypes'
    BY <2>2 DEF ReportInv, DeviceInv, DeviceTypes
  <2> QED
    BY <2>1, <2>2, <2>3, AroundTheRow DEF ReportInv, DeviceInv
<1> QED
  BY <1>1, <1>2, <1>3 DEF I!Next

-----------------------------------------------------------------------------
(* The parts together: the one that runs keeps its invariant, and the      *)
(* others do not move.                                                     *)

\* What each part keeps.
ManagementInv == ConfigInv /\ PushInv /\ AlertInv /\ SchedInv /\ ShardInv /\ ReportInv

\* A part moves by its own steps, also in a step of another part.
LEMMA PartsStep ==
  ASSUME [Next]_vars
  PROVE  /\ [C!Next]_(C!vars) /\ [P!Next]_(P!vars) /\ [A!Next]_(A!vars)
         /\ [T!Next]_(T!vars) /\ [S!Next]_(S!shardedVars) /\ [I!Next]_(I!vars)
<1>1. C!Next \/ UNCHANGED configVars
  BY DEF Next, vars
<1>2. P!Next \/ UNCHANGED pushVars
  BY DEF Next, vars
<1>3. A!Next \/ UNCHANGED alertVars
  BY DEF Next, vars
<1>4. T!Next \/ UNCHANGED taskVars
  BY DEF Next, vars
<1>5. S!Next \/ UNCHANGED shardVars
  BY DEF Next, vars
<1>6. I!Next \/ UNCHANGED reportVars
  BY DEF Next, vars
<1>7. UNCHANGED configVars => UNCHANGED C!vars
  BY DEF configVars, C!vars
<1>8. UNCHANGED pushVars => UNCHANGED P!vars
  BY DEF pushVars, P!vars
<1>9. UNCHANGED alertVars => UNCHANGED A!vars
  BY DEF alertVars, A!vars, A!evaluator, A!notifier
<1>10. UNCHANGED taskVars => UNCHANGED T!vars
  BY DEF taskVars, T!vars, T!schedulerVars
<1>11. UNCHANGED shardVars => UNCHANGED S!shardedVars
  BY DEF shardVars, S!shardedVars
<1>12. UNCHANGED reportVars => UNCHANGED I!vars
  BY DEF reportVars, I!vars, I!deviceVars, I!streamVars
<1> QED BY <1>1, <1>2, <1>3, <1>4, <1>5, <1>6, <1>7, <1>8, <1>9, <1>10, <1>11, <1>12

\* Every part starts in its invariant.
LEMMA ManagementInit == Init => ManagementInv
BY ConfigInit, PushInit, AlertInit, SchedInit, ShardInit, ReportInit DEF Init, ManagementInv

\* A step of any part keeps the invariants of all.
LEMMA ManagementNext == ManagementInv /\ [Next]_vars => ManagementInv'
<1> SUFFICES ASSUME ManagementInv, [Next]_vars PROVE ManagementInv'
  OBVIOUS
<1>1. ConfigInv' /\ PushInv' /\ AlertInv'
  BY PartsStep, ConfigNext, PushNext, AlertNext DEF ManagementInv
<1>2. SchedInv' /\ ShardInv' /\ ReportInv'
  BY PartsStep, SchedNext, ShardNext, ReportNext DEF ManagementInv
<1> QED BY <1>1, <1>2 DEF ManagementInv

\* The invariant of every part holds throughout (Next).
THEOREM ManagementInvHolds == Spec => []ManagementInv
<1>1. Init => ManagementInv
  BY ManagementInit
<1>2. ManagementInv /\ [Next]_vars => ManagementInv'
  BY ManagementNext
<1> QED BY <1>1, <1>2, PTL DEF Spec

\* The cron library fires what the rows of the tasks say, except for tasks
\* that two requests changed at the same time (CronScheduler.UpdateTask).
THEOREM SchedulesFollow == Spec => []JobsFollowRows
<1>1. ManagementInv => JobsFollowRows
  BY SchedShows DEF ManagementInv, JobsFollowRows
<1> QED BY <1>1, ManagementInvHolds, PTL

\* The counter of the sharded manager is the number of its sessions, and no
\* silent session stays (Remove, CloseAll, checkShardHeartbeats).
THEOREM SessionsCounted == Spec => []SessionsAreCounted
<1>1. ManagementInv => SessionsAreCounted
  BY ShardShows DEF ManagementInv, SessionsAreCounted
<1> QED BY <1>1, ManagementInvHolds, PTL

\* What is on record of a client is what it said, and a page shows the log of
\* a task as its run wrote it (HandleConfigAck, SaveHardwareInfo,
\* StreamDeployTaskLogs).
THEOREM ReportsTrue == Spec => []ReportsAreTrue
<1>1. ManagementInv => ReportsAreTrue
  BY ConfigShows, AlertShows, PushShows, DeviceShows DEF ManagementInv, ReportsAreTrue
<1> QED BY <1>1, ManagementInvHolds, PTL

\* The requests that find an edit lock expired do not take it from each other
\* (AcquireEditLock, ReleaseLock).
THEOREM LockKept == Spec => LockIsKept
<1>1. ManagementInv /\ [Next]_vars =>
        [\A l \in lock \ lock' :
           C!Expired(l) \/ \E r \in Handlers : configRequest[r].pc = "held" /\ configRequest'[r].pc = "done"
                                              /\ configRequest[r].session = l.session]_(C!vars)
  BY PartsStep, KeptLocks DEF ManagementInv
<1> QED BY <1>1, ManagementInvHolds, PTL DEF LockIsKept, C!LockIsKept, Spec

\* Once Unsubscribe has returned, no message is written for the client
\* (sendToSubscriber).
THEOREM QuietAfterUnsubscribe == Spec => NoneAfterUnsubscribe
<1>1. ManagementInv /\ [Next]_vars =>
        [\A m \in messages' : (\E x \in messages : x.push = m.push /\ x.client = m.client)
           \/ m.client \in DOMAIN subscribers[pushPlan.pushes[m.push].key]]_(P!vars)
  BY PartsStep, NoMessageAfter DEF ManagementInv
<1> QED BY <1>1, ManagementInvHolds, PTL DEF NoneAfterUnsubscribe, P!NoneAfterUnsubscribe, Spec

\* Two calls of ProcessAlert do not both create the alert of a fingerprint:
\* the table refuses what the cache let through (CreateAlert).
THEOREM AlertCreatedOnce == Spec => CreatedOnce
<1>1. ManagementInv /\ [Next]_vars =>
        [\A c, d \in AlertCalls : c # d /\ A!Fingerprint(c) = A!Fingerprint(d) /\ alertCall[c].pc = "cache"
           => alertCall'[d].pc # "cache"]_(A!vars)
  BY PartsStep, CreatesOnce DEF ManagementInv
<1> QED BY <1>1, ManagementInvHolds, PTL DEF CreatedOnce, A!CreatedOnce, Spec
=============================================================================
