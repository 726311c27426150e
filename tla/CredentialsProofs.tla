-------------------------- MODULE CredentialsProofs --------------------------
(***************************************************************************)
(* Module Credentials keeps its types, implements WriteOnce, replaces the  *)
(* engine pod for tokens only and, under leader election, keeps workloads  *)
(* with the CR that took them over: for any number of processes, any       *)
(* bounds and every kind of credential.                                    *)
(***************************************************************************)
EXTENDS Credentials, TLAPS

USE BoundsAssumption DEF Uids

LEMMA LegacyIsSecret == LegacySecret \in Secrets
  BY DEF LegacySecret, Secrets

LEMMA InitTyped == Init => TypeOK
  <1> SUFFICES ASSUME Init PROVE TypeOK
    OBVIOUS
  <1>1. ManagersTypeOK
    BY DEF Init, ManagersInit, ManagersTypeOK, Modes
  <1>2. secret \in Secrets \cup {None}
    <2>1. secret \in {None, LegacySecret}
      BY DEF Init, When
    <2> QED
      BY <2>1, LegacyIsSecret
  <1>3. /\ cache \in [Managers -> Secrets \cup {None}]
        /\ made \in Nat
    BY <1>2 DEF Init
  <1>4. /\ kind \in Kinds /\ cr \in Uids /\ crCache \in [Managers -> Uids]
        /\ owner \in [Workloads -> 0 .. MaxUid]
        /\ sum \in Nat /\ rolled \in Nat \cup {None}
        /\ has \in [AllReaders -> Nat \cup {None}]
        /\ edits \in 0 .. MaxEdits /\ faults \in 0 .. MaxFaults
    BY DEF Init
  <1>5. /\ pc \in [Managers -> {"Idle", "Ensure", "StatefulSet", "Deployment"}]
        /\ my \in [Managers -> 0 .. MaxUid]
        /\ \A m \in Managers : pc[m] # "Idle" => my[m] # 0 /\ mode[m] = "active"
    BY DEF Init
  <1> QED
    BY <1>1, <1>2, <1>3, <1>4, <1>5 DEF TypeOK

-----------------------------------------------------------------------------
(* The steps, in groups that leave the same variables alone.                *)

\* A step of process m that moves it to another step of its reconcile, or ends it.
LEMMA Moves ==
  ASSUME TypeOK, NEW m \in Managers,
         \/ /\ pc[m] # "Idle"
            /\ \E step \in {"Ensure", "StatefulSet", "Deployment"} : Goto(m, step)
            /\ UNCHANGED managerVars
         \/ Return(m) /\ mode' \in [Managers -> Modes]
            /\ \A p \in Managers \ {m} : mode'[p] = mode[p]
  PROVE  /\ pc' \in [Managers -> {"Idle", "Ensure", "StatefulSet", "Deployment"}]
         /\ my' \in [Managers -> 0 .. MaxUid]
         /\ \A p \in Managers : pc'[p] # "Idle" => my'[p] # 0 /\ mode'[p] = "active"
  <1>1. CASE Return(m)
    BY <1>1 DEF TypeOK, Return, managerVars
  <1>2. CASE \E step \in {"Ensure", "StatefulSet", "Deployment"} : Goto(m, step)
    BY <1>2 DEF TypeOK, Goto, managerVars, Return
  <1> QED
    BY <1>1, <1>2

\* The write an ensure function makes is one the register allows: it generates
\* where there is nothing, or keeps the value.
LEMMA Writes ==
  ASSUME TypeOK, NEW m \in Managers, Write(m)
  PROVE  /\ secret' \in Secrets /\ made' \in Nat
         /\ \/ Register!Generate
            \/ secret # None /\ secret'.by = secret.by /\ secret'.n = secret.n
               /\ made' = made
  <1>1. CASE cache[m] = None /\ Create(m)
    <2>1. secret' = Generated(m) /\ made' = made + 1 /\ secret = None
      BY <1>1 DEF Create
    <2>2. Generated(m) \in Secrets
      BY DEF Generated, Secrets, TypeOK
    <2>3. Register!Generate
      BY <2>1, <2>2, NoneAssumption DEF Register!Generate, Register!New, Generated
    <2> QED
      BY <2>1, <2>2, <2>3 DEF TypeOK
  <1>2. CASE cache[m] # None /\ UpdateURL(m) /\ UNCHANGED made
    <2>1. cache[m] \in Secrets /\ secret = cache[m]
      BY <1>2 DEF TypeOK, UpdateURL
    <2>2. secret' = [cache[m] EXCEPT !.legacy = FALSE]
      BY <1>2 DEF UpdateURL
    <2>3. secret' \in Secrets /\ secret'.by = secret.by /\ secret'.n = secret.n
      BY <2>1, <2>2 DEF Secrets
    <2> QED
      BY <1>2, <2>1, <2>3 DEF TypeOK
  <1> QED
    BY <1>1, <1>2 DEF Write

LEMMA WorkerTyped ==
  ASSUME TypeOK, NEW m \in Managers, Worker(m)
  PROVE  TypeOK'
  <1>1. CASE Start(m)
    BY <1>1 DEF Start, TypeOK, ManagersTypeOK, managerVars, workVars, podVars, bounds
  <1>2. CASE EnsureSecret(m)
    <2>1. secret' \in Secrets \cup {None} /\ made' \in Nat
      BY <1>2, Writes DEF EnsureSecret, TypeOK
    <2>2. (\E step \in {"Ensure", "StatefulSet", "Deployment"} : Goto(m, step)) \/ Return(m)
      BY <1>2 DEF EnsureSecret, Ensured
    <2>3. UNCHANGED managerVars /\ pc[m] # "Idle"
      BY <1>2 DEF EnsureSecret
    <2> QED
      BY <1>2, <2>1, <2>2, <2>3, Moves
      DEF EnsureSecret, TypeOK, ManagersTypeOK, managerVars, workVars, podVars, bounds
  <1>3. CASE ApplyStatefulSet(m)
    BY <1>3, Moves
    DEF ApplyStatefulSet, TypeOK, ManagersTypeOK, managerVars, podVars, bounds
  <1>4. CASE ApplyDeployment(m)
    <2>1. Token(m) \in Nat
      BY DEF Token, TypeOK, Secrets
    <2>2. owner' \in [Workloads -> 0 .. MaxUid] /\ sum' \in Nat
      BY <1>4, <2>1 DEF ApplyDeployment, Checksum, TypeOK, workVars
    <2> QED
      BY <1>4, <2>2, Moves
      DEF ApplyDeployment, TypeOK, ManagersTypeOK, managerVars, podVars, bounds
  <1> QED
    BY <1>1, <1>2, <1>3, <1>4 DEF Worker

LEMMA FailuresTyped ==
  ASSUME TypeOK, NEW m \in Managers,
         CallFails(m) \/ ReplyLost(m) \/ Killed(m) \/ Exits(m)
  PROVE  TypeOK'
  <1>1. CASE CallFails(m)
    BY <1>1, Moves
    DEF CallFails, Fault, TypeOK, ManagersTypeOK, managerVars, workVars, podVars
  <1>2. CASE ReplyLost(m)
    BY <1>2, Moves, Writes
    DEF ReplyLost, Fault, TypeOK, ManagersTypeOK, managerVars, workVars, podVars
  <1>3. CASE Killed(m)
    BY <1>3, Moves
    DEF Killed, Stop, Fault, TypeOK, ManagersTypeOK, Modes, workVars, podVars
  <1>4. CASE Exits(m)
    BY <1>4, Moves
    DEF Exits, Retire, TypeOK, ManagersTypeOK, Modes, workVars, podVars, bounds
  <1> QED
    BY <1>1, <1>2, <1>3, <1>4

LEMMA ElectionTyped ==
  ASSUME TypeOK, LeaseLapses \/ ElectionStep
  PROVE  TypeOK'
  <1>1. CASE LeaseLapses
    BY <1>1 DEF LeaseLapses, Lapse, Fault, TypeOK, ManagersTypeOK, workVars,
                podVars, stepVars
  <1>2. CASE ElectionStep
    <2>1. /\ ManagersTypeOK'
          /\ \A m \in Managers : mode[m] = "active" => mode'[m] = "active"
      BY <1>2 DEF ElectionStep, Boot, Acquire, Expire, TypeOK, ManagersTypeOK, Modes
    <2> QED
      BY <1>2, <2>1 DEF ElectionStep, TypeOK, workVars, podVars, stepVars, bounds
  <1> QED
    BY <1>1, <1>2

LEMMA UserTyped ==
  ASSUME TypeOK,
         \/ RecreateCR
         \/ \E fit, legacy \in BOOLEAN : UserWrites(fit, legacy)
         \/ UserDeletes
  PROVE  TypeOK'
  <1>1. CASE RecreateCR
    BY <1>1 DEF RecreateCR, TypeOK, ManagersTypeOK, managerVars, workVars, podVars,
                stepVars, bounds
  <1>2. ASSUME NEW fit \in BOOLEAN, NEW legacy \in BOOLEAN, UserWrites(fit, legacy)
        PROVE  TypeOK'
    <2>1. secret' \in Secrets /\ made' \in Nat
      BY <1>2 DEF UserWrites, TypeOK, Secrets
    <2> QED
      BY <1>2, <2>1 DEF UserWrites, Edit, TypeOK, ManagersTypeOK, managerVars,
                        workVars, podVars, stepVars
  <1>3. CASE UserDeletes
    BY <1>3 DEF UserDeletes, Edit, TypeOK, ManagersTypeOK, managerVars, workVars,
                podVars, stepVars
  <1> QED
    BY <1>1, <1>2, <1>3

\* Whatever containers stop, has keeps its type.
LEMMA StoppedTyped ==
  ASSUME TypeOK, NEW cs
  PROVE  Stopped(cs) \in [AllReaders -> Nat \cup {None}]
  BY DEF Stopped, TypeOK

LEMMA ClusterTyped ==
  ASSUME TypeOK,
         \/ \E m \in Managers : CRSync(m) \/ SecretSync(m)
         \/ Kubelet
         \/ \E c \in AllReaders : ContainerStops(c)
         \/ \E w \in Workloads : PodStops(w)
         \/ Collector
  PROVE  TypeOK'
  <1>1. ASSUME NEW m \in Managers, CRSync(m) \/ SecretSync(m)
        PROVE  TypeOK'
    BY <1>1 DEF CRSync, SecretSync, TypeOK, ManagersTypeOK, managerVars, workVars,
                podVars, stepVars, bounds
  <1>2. CASE RollOut
    BY <1>2, StoppedTyped DEF RollOut, TypeOK, ManagersTypeOK, managerVars, workVars,
                stepVars, bounds
  <1>3. ASSUME NEW c \in AllReaders, StartContainer(c)
        PROVE  TypeOK'
    <2>1. secret.n \in Nat
      BY <1>3 DEF StartContainer, TypeOK, Secrets
    <2> QED
      BY <1>3, <2>1 DEF StartContainer, TypeOK, ManagersTypeOK, managerVars, workVars,
                stepVars, bounds
  <1>4. ASSUME NEW c \in AllReaders, ContainerStops(c)
        PROVE  TypeOK'
    BY <1>4, StoppedTyped DEF ContainerStops, Fault, TypeOK, ManagersTypeOK,
                managerVars, workVars, stepVars
  <1>5. ASSUME NEW w \in Workloads, PodStops(w)
        PROVE  TypeOK'
    BY <1>5, StoppedTyped DEF PodStops, Fault, TypeOK, ManagersTypeOK,
                managerVars, workVars, stepVars
  <1>6. CASE CollectSecret
    BY <1>6 DEF CollectSecret, TypeOK, ManagersTypeOK, managerVars, workVars,
                podVars, stepVars, bounds
  <1>7. ASSUME NEW w \in Workloads, CollectWorkload(w)
        PROVE  TypeOK'
    BY <1>7, StoppedTyped DEF CollectWorkload, TypeOK, ManagersTypeOK, managerVars,
                stepVars, bounds
  <1> QED
    BY <1>1, <1>2, <1>3, <1>4, <1>5, <1>6, <1>7 DEF Kubelet, Collector

\* Every variable of the processes, Secrets and pods keeps its type.
THEOREM TypeCorrect == Spec => []TypeOK
  <1>1. TypeOK /\ [Next]_vars => TypeOK'
    <2> SUFFICES ASSUME TypeOK, [Next]_vars PROVE TypeOK'
      OBVIOUS
    <2>1. CASE Next
      BY <2>1, WorkerTyped, FailuresTyped, ElectionTyped, UserTyped, ClusterTyped
      DEF Next
    <2>2. CASE UNCHANGED vars
      BY <2>2 DEF vars, TypeOK, ManagersTypeOK, managerVars, workVars, podVars,
                  stepVars, bounds
    <2> QED
      BY <2>1, <2>2
  <1> QED
    BY <1>1, InitTyped, PTL DEF Spec

-----------------------------------------------------------------------------
(* Every step is one of the register's, or leaves it alone.                 *)

Value == IF secret = None THEN None ELSE [by |-> secret.by, n |-> secret.n]

RegisterStep == Register!Next \/ UNCHANGED <<Value, made>>

LEMMA InitRegister == Init => Register!Init
  <1> SUFFICES ASSUME Init PROVE Register!Init
    OBVIOUS
  <1>1. secret \in {None, LegacySecret} /\ made = IF secret = None THEN 0 ELSE 1
    BY DEF Init, When
  <1>2. LegacySecret # None
    BY LegacyIsSecret, NoneAssumption
  <1>3. CASE secret = None
    BY <1>1, <1>3 DEF Register!Init
  <1>4. CASE secret = LegacySecret
    <2>1. Value = [by |-> "operator", n |-> 1] /\ made = 1
      BY <1>1, <1>2, <1>4 DEF Value, LegacySecret
    <2> QED
      BY <2>1 DEF Register!Init, Value
  <1> QED
    BY <1>1, <1>3, <1>4

LEMMA KeptValue ==
  ASSUME secret' # None, secret # None, secret'.by = secret.by, secret'.n = secret.n,
         made' = made
  PROVE  UNCHANGED <<Value, made>>
  BY DEF Value

LEMMA WriteIsRegistered ==
  ASSUME TypeOK, NEW m \in Managers, Write(m)
  PROVE  RegisterStep
  BY Writes, KeptValue, NoneAssumption DEF RegisterStep, Register!Next

LEMMA StepIsRegistered ==
  ASSUME TypeOK, [Next]_vars
  PROVE  RegisterStep
  <1>1. CASE UNCHANGED <<secret, made>>
    BY <1>1 DEF RegisterStep, Value
  <1>2. ASSUME NEW m \in Managers, EnsureSecret(m) \/ ReplyLost(m)
        PROVE  RegisterStep
    BY <1>1, <1>2, WriteIsRegistered DEF EnsureSecret, ReplyLost
  <1>3. ASSUME NEW fit \in BOOLEAN, NEW legacy \in BOOLEAN, UserWrites(fit, legacy)
        PROVE  RegisterStep
    <2>1. secret' \in Secrets /\ secret'.by = "user" /\ secret'.n = made + 1
      BY <1>3 DEF UserWrites, TypeOK, Secrets
    <2>2. Register!Replace
      BY <1>3, <2>1, NoneAssumption DEF Register!Replace, Register!New, UserWrites
    <2> QED
      BY <2>2 DEF RegisterStep, Register!Next
  <1>4. CASE UserDeletes \/ CollectSecret
    BY <1>4 DEF UserDeletes, CollectSecret, RegisterStep, Register!Next, Register!Remove
  <1>5. ASSUME NEW m \in Managers,
               \/ Start(m) \/ ApplyStatefulSet(m) \/ ApplyDeployment(m)
               \/ CallFails(m) \/ Killed(m) \/ Exits(m)
               \/ CRSync(m) \/ SecretSync(m)
        PROVE  UNCHANGED <<secret, made>>
    BY <1>5 DEF Start, ApplyStatefulSet, ApplyDeployment, CallFails, Killed, Exits,
                CRSync, SecretSync
  <1>6. ASSUME \/ LeaseLapses \/ ElectionStep \/ RecreateCR \/ Kubelet
               \/ \E c \in AllReaders : ContainerStops(c)
               \/ \E w \in Workloads : PodStops(w)
               \/ \E w \in Workloads : CollectWorkload(w)
               \/ UNCHANGED vars
        PROVE  UNCHANGED <<secret, made>>
    BY <1>6 DEF LeaseLapses, ElectionStep, RecreateCR, Kubelet, RollOut,
                StartContainer, ContainerStops, PodStops, CollectWorkload, vars
  <1> QED
    BY <1>1, <1>2, <1>3, <1>4, <1>5, <1>6 DEF Next, Worker, Collector

\* "once-created": the loop of any number of processes, through lost replies, stale
\* caches and lost leases, implements the write-once register.
THEOREM OnceGenerated == Spec => GeneratedOnce
  <1>1. TypeOK /\ [Next]_vars => [Register!Next]_<<Value, made>>
    BY StepIsRegistered DEF RegisterStep
  <1> QED
    BY <1>1, InitRegister, TypeCorrect, PTL
    DEF Spec, GeneratedOnce, Register!Spec, Value

-----------------------------------------------------------------------------
(* One token, one checksum.                                                 *)

LEMMA CopiesAre ==
  ASSUME NEW v
  PROVE  v \in Copies <=> v # None /\ (v = secret \/ \E m \in Managers : v = cache[m])
  BY DEF Copies

\* Most steps make no value, and nothing of them.
LEMMA TokenStays ==
  ASSUME TokenInv, UNCHANGED <<kind, made, sum>>,
         Copies' \subseteq Copies,
         Passed' => Passed,
         owner'["Deployment"] \in {0, owner["Deployment"]},
         rolled' \in {None, rolled}
  PROVE  TokenInv'
  <1>1. NoToken'
    BY DEF TokenInv, NoToken
  <1>2. OneToken'
    BY DEF TokenInv, OneToken
  <1> QED
    BY <1>1, <1>2 DEF TokenInv

\* A write of an ensure function makes the first token, or the second.
LEMMA TokenWritten ==
  ASSUME TypeOK, TokenInv, NEW m \in Managers, Write(m),
         UNCHANGED <<kind, cache, sum, rolled, owner>>
  PROVE  TokenInv'
  <1>1. NoToken'
    BY DEF TokenInv, NoToken
  <1>2. ASSUME kind = "proxy", made' <= 1
        PROVE  /\ Copies' = {Generated(m)} /\ made' = 1 /\ made = 0
               /\ owner["Deployment"] = 0 /\ rolled \in {None, 1}
    <2>1. made \in Nat /\ (cache[m] # None => cache[m] \in Copies)
      BY CopiesAre DEF TypeOK
    <2>2. ASSUME cache[m] # None, NeedsTLS(m), UNCHANGED made PROVE FALSE
      BY <1>2, <2>1, <2>2 DEF TokenInv, OneToken, NeedsTLS
    <2>3. Create(m)
      BY <2>2 DEF Write
    <2>4. made' = 1 /\ made = 0 /\ secret' = Generated(m)
      BY <1>2, <2>1, <2>3 DEF Create
    <2>5. Copies = {} /\ ~Passed /\ rolled \in {None, 1}
      BY <1>2, <2>4 DEF TokenInv, OneToken
    <2>6. Generated(m) # None
      BY <2>4, Writes, NoneAssumption
    <2>7. Copies' = {Generated(m)}
      BY <2>4, <2>5, <2>6 DEF Copies
    <2> QED
      BY <2>4, <2>5, <2>7 DEF Passed
  <1>3. Generated(m).n = made + 1 /\ ~Generated(m).legacy /\ Generated(m).fit
    BY DEF Generated
  <1>4. OneToken'
    BY <1>2, <1>3 DEF OneToken
  <1> QED
    BY <1>1, <1>4 DEF TokenInv

LEMMA TokenEnsured ==
  ASSUME TypeOK, TokenInv, NEW m \in Managers, EnsureSecret(m)
  PROVE  TokenInv'
  <1> USE DEF workVars, podVars
  <1>1. CASE Write(m)
    BY <1>1, TokenWritten DEF EnsureSecret
  <1>2. ASSUME UNCHANGED <<secret, made>>
        PROVE  UNCHANGED <<kind, made, sum, rolled, owner, cache, Copies>>
    BY <1>2 DEF EnsureSecret, Copies
  <1>3. ASSUME Return(m), UNCHANGED <<secret, made>>
        PROVE  TokenInv'
    <2>1. Passed' => Passed
      BY <1>2, <1>3 DEF Passed, Return, TypeOK
    <2> QED
      BY <1>2, <1>3, <2>1, TokenStays
  <1>4. ASSUME Ensured(m), cache[m] # None, ~NeedsTLS(m), Accepted(m),
               UNCHANGED <<secret, made>>
        PROVE  TokenInv'
    <2>1. ASSUME kind = "proxy", made <= 1
          PROVE  made = 1 /\ \A v \in Copies : v.fit
      <3>1. cache[m] \in Copies /\ cache[m].fit
        BY <1>4, <2>1, CopiesAre DEF Accepted
      <3>2. \A v \in Copies : v.fit = cache[m].fit
        BY <2>1, <3>1 DEF TokenInv, OneToken
      <3>3. made # 0 /\ made \in Nat
        BY <2>1, <3>1 DEF TokenInv, OneToken, TypeOK
      <3>4. \A v \in Copies : v.fit
        BY <3>1, <3>2
      <3> QED
        BY <2>1, <3>3, <3>4
    <2>2. OneToken'
      BY <1>2, <1>4, <2>1 DEF TokenInv, OneToken
    <2>3. NoToken'
      BY <1>2, <1>4 DEF TokenInv, NoToken
    <2> QED
      BY <2>2, <2>3 DEF TokenInv
  <1> QED
    BY <1>1, <1>3, <1>4 DEF EnsureSecret

LEMMA TokenApplied ==
  ASSUME TypeOK, TokenInv, NEW m \in Managers, ApplyDeployment(m)
  PROVE  TokenInv'
  <1> USE DEF workVars, podVars
  <1>1. Passed /\ UNCHANGED <<kind, made, secret, cache, rolled, Copies>>
    BY DEF ApplyDeployment, Passed, Copies
  <1>2. CASE ~TokenRead(m)
    BY <1>1, <1>2, TokenStays DEF ApplyDeployment
  <1>3. CASE TokenRead(m)
    <2>1. sum' = Checksum(m)
      BY <1>3 DEF ApplyDeployment
    <2>2. ASSUME kind = "proxy", made <= 1
          PROVE  sum' = 1
      <3>1. cache[m] \in Copies /\ cache[m] # None
        BY <1>3, <2>2, CopiesAre DEF TokenRead
      <3>2. cache[m].n = 1 /\ cache[m].fit
        BY <1>1, <2>2, <3>1 DEF TokenInv, OneToken
      <3> QED
        BY <2>1, <2>2, <3>1, <3>2 DEF Checksum, Token
    <2>3. OneToken'
      BY <1>1, <2>2 DEF TokenInv, OneToken
    <2>4. NoToken'
      BY <1>1, <2>1 DEF TokenInv, NoToken, Checksum
    <2> QED
      BY <2>3, <2>4 DEF TokenInv
  <1> QED
    BY <1>2, <1>3

LEMMA TokenOfUser ==
  ASSUME TypeOK, TokenInv, NEW fit \in BOOLEAN, NEW legacy \in BOOLEAN,
         UserWrites(fit, legacy)
  PROVE  TokenInv'
  <1> USE DEF workVars, podVars, stepVars
  <1>1. UNCHANGED <<kind, cache, sum, rolled, owner, pc>> /\ made' = made + 1
    BY DEF UserWrites
  <1>2. NoToken'
    BY <1>1 DEF TokenInv, NoToken
  <1>3. ASSUME kind = "proxy", made' <= 1
        PROVE  /\ \A v \in Copies' : v = secret'
               /\ secret'.n = 1 /\ ~secret'.legacy
               /\ ~Passed' /\ made' = 1
               /\ owner["Deployment"] = 0 /\ rolled \in {None, 1}
    <2>1. made = 0
      BY <1>1, <1>3 DEF TypeOK
    <2>2. Copies = {} /\ ~Passed /\ rolled \in {None, 1}
      BY <1>3, <2>1 DEF TokenInv, OneToken
    <2>3. secret'.n = made + 1 /\ secret'.legacy = legacy /\ ~legacy
      BY <1>3 DEF UserWrites
    <2>4. \A v \in Copies' : v = secret'
      BY <1>1, <2>2 DEF Copies
    <2> QED
      BY <1>1, <2>1, <2>2, <2>3, <2>4 DEF Passed
  <1>4. OneToken'
    BY <1>1, <1>3 DEF OneToken
  <1> QED
    BY <1>2, <1>4 DEF TokenInv

LEMMA TokenRolledOut ==
  ASSUME TokenInv, RollOut
  PROVE  TokenInv' /\ ~(made <= 1 /\ rolled # None)
  <1> USE DEF workVars, stepVars
  <1>1. UNCHANGED <<kind, made, secret, cache, owner, sum, pc, Copies, Passed>>
    BY DEF RollOut, Copies, Passed
  <1>2. rolled' = sum /\ owner["Deployment"] # 0 /\ rolled # sum
    BY DEF RollOut
  <1>3. NoToken' /\ (kind # "proxy" => rolled = None)
    BY <1>1, <1>2 DEF TokenInv, NoToken
  <1>4. OneToken' /\ (kind = "proxy" /\ made <= 1 => rolled = None)
    BY <1>1, <1>2 DEF TokenInv, OneToken
  <1> QED
    BY <1>3, <1>4 DEF TokenInv

\* The pod's checksum changes in no other step.
LEMMA TokenNext ==
  ASSUME TypeOK, TokenInv, [Next]_vars
  PROVE  /\ TokenInv'
         /\ (made <= 1 /\ rolled # None) => rolled' \in {rolled, None}
  <1> USE DEF workVars, podVars, stepVars
  <1>1. ASSUME UNCHANGED <<kind, made, secret, cache, sum, owner, rolled>>,
               \A m \in Managers :
                  pc'[m] \in {"StatefulSet", "Deployment"} =>
                      pc[m] \in {"StatefulSet", "Deployment"}
        PROVE  TokenInv'
    <2>1. Copies' = Copies /\ (Passed' => Passed)
      BY <1>1 DEF Copies, Passed
    <2> QED
      BY <1>1, <2>1, TokenStays
  <1>2. ASSUME NEW m \in Managers, EnsureSecret(m) \/ ApplyDeployment(m)
        PROVE  TokenInv' /\ rolled' = rolled
    BY <1>2, TokenEnsured, TokenApplied DEF EnsureSecret, ApplyDeployment
  <1>3. ASSUME NEW m \in Managers, ReplyLost(m)
        PROVE  TokenInv' /\ rolled' = rolled
    BY <1>3, TokenWritten DEF ReplyLost
  <1>4. ASSUME NEW m \in Managers, ApplyStatefulSet(m)
        PROVE  TokenInv' /\ rolled' = rolled
    <2>1. UNCHANGED <<kind, made, sum, Copies, rolled>> /\ Passed
          /\ owner'["Deployment"] = owner["Deployment"]
      BY <1>4 DEF ApplyStatefulSet, Copies, Passed, TypeOK, Workloads
    <2> QED
      BY <2>1, TokenStays
  <1>5. ASSUME NEW m \in Managers,
               Start(m) \/ CallFails(m) \/ Killed(m) \/ Exits(m) \/ CRSync(m)
        PROVE  TokenInv' /\ rolled' = rolled
    BY <1>1, <1>5 DEF Start, CallFails, Killed, Exits, CRSync, Return, TypeOK
  <1>6. ASSUME NEW m \in Managers, SecretSync(m)
        PROVE  TokenInv' /\ rolled' = rolled
    <2>1. UNCHANGED <<kind, made, sum, owner, rolled, Passed>>
          /\ Copies' \subseteq Copies
      BY <1>6 DEF SecretSync, Copies, Passed, TypeOK
    <2> QED
      BY <2>1, TokenStays
  <1>7. CASE UserDeletes \/ CollectSecret
    <2>1. UNCHANGED <<kind, made, sum, owner, rolled, Passed>>
          /\ Copies' \subseteq Copies
      BY <1>7 DEF UserDeletes, CollectSecret, Copies, Passed
    <2> QED
      BY <2>1, TokenStays
  <1>8. ASSUME NEW w \in Workloads, CollectWorkload(w)
        PROVE  TokenInv' /\ rolled' \in {None, rolled}
    <2>1. UNCHANGED <<kind, made, sum, Copies>>
          /\ owner'["Deployment"] \in {0, owner["Deployment"]}
          /\ (Passed' => Passed) /\ rolled' \in {None, rolled}
      BY <1>8 DEF CollectWorkload, Copies, Passed, TypeOK, Workloads
    <2> QED
      BY <2>1, TokenStays
  <1>9. ASSUME NEW fit \in BOOLEAN, NEW legacy \in BOOLEAN, UserWrites(fit, legacy)
        PROVE  TokenInv' /\ rolled' = rolled
    BY <1>9, TokenOfUser DEF UserWrites
  <1>10. CASE RollOut
    BY <1>10, TokenRolledOut DEF TypeOK
  <1>11. ASSUME \/ LeaseLapses \/ ElectionStep \/ RecreateCR
                \/ \E c \in AllReaders : StartContainer(c) \/ ContainerStops(c)
                \/ \E w \in Workloads : PodStops(w)
                \/ UNCHANGED vars
         PROVE  TokenInv' /\ rolled' = rolled
    <2>1. UNCHANGED <<kind, made, secret, cache, sum, owner, rolled, pc>>
      BY <1>11 DEF LeaseLapses, ElectionStep, RecreateCR, StartContainer,
                   ContainerStops, PodStops, vars
    <2> QED
      BY <1>1, <2>1
  <1> QED
    BY <1>2, <1>3, <1>4, <1>5, <1>6, <1>7, <1>8, <1>9, <1>10, <1>11
    DEF Next, Worker, Kubelet, Collector, UserDeletes, CollectSecret

\* While there has been one token, it is what every cache shows and what every
\* checksum is of.
THEOREM OneTokenInductive == Spec => []TokenInv
  <1>1. Init => TokenInv
    <2> SUFFICES ASSUME Init PROVE TokenInv
      OBVIOUS
    <2>1. kind = "proxy" => secret = None
      BY DEF Init, When
    <2>2. kind = "proxy" => Copies = {}
      BY <2>1 DEF Init, Copies
    <2>3. ~Passed
      BY DEF Init, Passed, Workloads
    <2> QED
      BY <2>2, <2>3 DEF Init, TokenInv, OneToken, NoToken, Passed
  <1>2. TypeOK /\ TokenInv /\ [Next]_vars => TokenInv'
    BY TokenNext
  <1> QED
    BY <1>1, <1>2, TypeCorrect, PTL DEF Spec

\* No pod is replaced before there is a second token: neither a cache that lags,
\* nor a second process, nor a reconcile that failed half-way changes the pod
\* template.
THEOREM RollsOutForTokens == Spec => NoIdleRollout
  <1>1. TypeOK /\ TokenInv /\ [Next]_vars
        => [(made <= 1 /\ rolled # None) => rolled' \in {rolled, None}]_vars
    BY TokenNext
  <1> QED
    BY <1>1, OneTokenInductive, TypeCorrect, PTL DEF Spec, NoIdleRollout

-----------------------------------------------------------------------------
(* One leader, who has seen every CR that owns a workload.                  *)

\* One process leads.
OneActive == \A m \in Managers : mode[m] = "active" <=> m = lease

\* No process has seen a CR that is not there yet.
SeenIsPast == \A m \in Managers : my[m] <= crCache[m] /\ crCache[m] <= cr

\* The leader has seen who owns the workloads.
OwnersAreSeen ==
  \A w \in Workloads : owner[w] # 0 =>
      /\ lease # Nobody
      /\ owner[w] <= crCache[lease]
      /\ pc[lease] # "Idle" => owner[w] <= my[lease]

\* With nothing lost, this is what a step does to processes and workloads.
Leading ==
  TypeOK /\ elect /\ OneActive /\ SeenIsPast /\ OwnersAreSeen

LEMMA LeaderInvIs == LeaderInv = (elect /\ faults = 0 => OneActive /\ SeenIsPast /\ OwnersAreSeen)
  BY DEF LeaderInv, OneActive, SeenIsPast, OwnersAreSeen

\* The numbers that are compared.
LEMMA UidsAreNumbers ==
  ASSUME TypeOK
  PROVE  /\ cr \in Nat
         /\ \A m \in Managers : crCache[m] \in Nat /\ my[m] \in Nat
         /\ \A w \in Workloads : owner[w] \in Nat
         /\ faults \in Nat
         /\ Nobody \notin Managers
  BY ManagersAssumption DEF TypeOK

LEMMA LeadingElection ==
  ASSUME Leading, ElectionStep
  PROVE  OneActive' /\ SeenIsPast' /\ OwnersAreSeen'
  <1> USE DEF workVars, stepVars
  <1>1. UNCHANGED <<cr, crCache, owner, pc, my>>
    BY DEF ElectionStep
  <1>2. SeenIsPast'
    BY <1>1 DEF Leading, SeenIsPast
  <1>3. ASSUME NEW m \in Managers, Boot(m)
        PROVE  OneActive' /\ UNCHANGED lease
    BY <1>3 DEF Boot, Leading, OneActive, TypeOK, ManagersTypeOK
  <1>4. ASSUME NEW m \in Managers, Acquire(m)
        PROVE  OneActive' /\ \A w \in Workloads : owner[w] = 0
    BY <1>4, UidsAreNumbers
    DEF Acquire, Leading, OneActive, OwnersAreSeen, TypeOK, ManagersTypeOK
  <1>5. ~Expire
    BY DEF Expire, Leading, OneActive, TypeOK, ManagersTypeOK
  <1>6. OneActive' /\ (UNCHANGED lease \/ \A w \in Workloads : owner[w] = 0)
    BY <1>3, <1>4, <1>5 DEF ElectionStep
  <1>7. OwnersAreSeen'
    BY <1>1, <1>6 DEF Leading, OwnersAreSeen
  <1> QED
    BY <1>2, <1>6, <1>7

\* What the leader applies is of no earlier CR than what it finds.
LEMMA LeaderApplies ==
  ASSUME Leading, NEW m \in Managers, pc[m] # "Idle", NEW w \in Workloads
  PROVE  m = lease /\ owner[w] <= my[m] /\ my[m] <= cr
  <1>1. m = lease
    BY DEF Leading, TypeOK, OneActive
  <1>2. /\ my[m] \in Nat /\ crCache[m] \in Nat /\ cr \in Nat /\ owner[w] \in Nat
    BY UidsAreNumbers DEF Leading
  <1>3. owner[w] # 0 => owner[w] <= my[m]
    BY <1>1 DEF Leading, OwnersAreSeen
  <1> QED
    BY <1>1, <1>2, <1>3 DEF Leading, SeenIsPast

LEMMA LeadingApply ==
  ASSUME Leading, NEW m \in Managers, ApplyStatefulSet(m) \/ ApplyDeployment(m)
  PROVE  /\ OneActive' /\ SeenIsPast' /\ OwnersAreSeen'
         /\ \A w \in Workloads : owner[w] = cr => owner'[w] = cr
  <1> USE DEF managerVars, workVars, podVars
  <1>1. /\ UNCHANGED <<cr, crCache, mode, lease>> /\ pc[m] # "Idle"
        /\ \A w \in Workloads : owner'[w] \in {owner[w], my[m]}
    BY DEF ApplyStatefulSet, ApplyDeployment, Leading, TypeOK
  <1>2. /\ pc' \in [Managers -> {"Idle", "StatefulSet", "Ensure", "Deployment"}]
        /\ my'[m] = my[m] \/ (my'[m] = 0 /\ pc'[m] = "Idle")
        /\ \A p \in Managers \ {m} : my'[p] = my[p] /\ pc'[p] = pc[p]
    <2>1. pc \in [Managers -> {"Idle", "Ensure", "StatefulSet", "Deployment"}]
          /\ my \in [Managers -> 0 .. MaxUid]
      BY DEF Leading, TypeOK
    <2>2. Goto(m, "Deployment") \/ Return(m)
      BY DEF ApplyStatefulSet, ApplyDeployment
    <2> QED
      BY <2>1, <2>2 DEF Goto, Return
  <1>3. OneActive'
    BY <1>1 DEF Leading, OneActive
  <1>4. SeenIsPast'
    BY <1>1, <1>2, UidsAreNumbers DEF Leading, SeenIsPast
  <1>5. m = lease /\ m # Nobody
    BY <1>1, UidsAreNumbers DEF Leading, TypeOK, OneActive
  <1>6. ASSUME NEW w \in Workloads
        PROVE  /\ owner'[w] <= my[m] /\ owner[w] <= my[m] /\ my[m] <= cr
               /\ my[m] <= crCache[m] /\ owner'[w] \in Nat
    BY <1>1, LeaderApplies, UidsAreNumbers DEF Leading, SeenIsPast
  <1>7. OwnersAreSeen'
    <2> SUFFICES ASSUME NEW w \in Workloads
                 PROVE  /\ owner'[w] <= crCache[m]
                        /\ pc'[m] # "Idle" => owner'[w] <= my'[m]
      BY <1>1, <1>5 DEF OwnersAreSeen
    <2>1. owner'[w] <= crCache[m]
      BY <1>6, UidsAreNumbers DEF Leading
    <2> QED
      BY <1>2, <1>6, <2>1
  <1>8. ASSUME NEW w \in Workloads, owner[w] = cr
        PROVE  owner'[w] = cr
    BY <1>1, <1>6, <1>8, UidsAreNumbers DEF Leading
  <1> QED
    BY <1>3, <1>4, <1>7, <1>8

\* The reconciles' other steps, and the informers'.
LEMMA LeadingRead ==
  ASSUME Leading, NEW m \in Managers,
         Start(m) \/ EnsureSecret(m) \/ CRSync(m) \/ SecretSync(m)
  PROVE  OneActive' /\ SeenIsPast' /\ OwnersAreSeen'
  <1> USE DEF managerVars, workVars, podVars, stepVars
  <1>1. UNCHANGED <<cr, mode, lease, owner>>
    BY DEF Start, EnsureSecret, CRSync, SecretSync
  <1>2. OneActive'
    BY <1>1 DEF Leading, OneActive
  <1>3. CASE Start(m)
    <2>1. /\ UNCHANGED crCache
          /\ my'[m] = crCache[m]
          /\ \A p \in Managers \ {m} : my'[p] = my[p] /\ pc'[p] = pc[p]
      BY <1>3 DEF Start, Leading, TypeOK
    <2>2. SeenIsPast'
      BY <1>1, <2>1, UidsAreNumbers DEF Leading, SeenIsPast
    <2>3. m = lease
      BY <1>3 DEF Start, Leading, OneActive
    <2>4. OwnersAreSeen'
      BY <1>1, <2>1, <2>3 DEF Leading, OwnersAreSeen
    <2> QED
      BY <1>2, <2>2, <2>4
  <1>4. CASE EnsureSecret(m)
    <2>1. UNCHANGED crCache /\ pc[m] # "Idle"
      BY <1>4 DEF EnsureSecret
    <2>2. Goto(m, "StatefulSet") \/ Goto(m, "Deployment") \/ Return(m)
      BY <1>4 DEF EnsureSecret, Ensured
    <2>3. /\ my'[m] = my[m] \/ (my'[m] = 0 /\ pc'[m] = "Idle")
          /\ \A p \in Managers \ {m} : my'[p] = my[p] /\ pc'[p] = pc[p]
      BY <2>2 DEF Goto, Return, Leading, TypeOK
    <2>4. SeenIsPast'
      BY <1>1, <2>1, <2>3, UidsAreNumbers DEF Leading, SeenIsPast
    <2>5. m = lease
      BY <2>1 DEF Leading, OneActive, TypeOK
    <2>6. OwnersAreSeen'
      BY <1>1, <2>1, <2>3, <2>5 DEF Leading, OwnersAreSeen
    <2> QED
      BY <1>2, <2>4, <2>6
  <1>5. CASE CRSync(m) \/ SecretSync(m)
    <2>1. /\ UNCHANGED <<pc, my>>
          /\ \A p \in Managers : crCache'[p] \in {crCache[p], cr}
      BY <1>5 DEF CRSync, SecretSync, Leading, TypeOK
    <2>2. \A p \in Managers : crCache[p] <= crCache'[p] /\ crCache'[p] <= cr
      BY <2>1, UidsAreNumbers DEF Leading, SeenIsPast
    <2>3. SeenIsPast'
      BY <1>1, <2>1, <2>2, UidsAreNumbers DEF Leading, SeenIsPast
    <2>4. lease # Nobody => lease \in Managers
      BY DEF Leading, TypeOK, ManagersTypeOK
    <2>5. OwnersAreSeen'
      BY <1>1, <2>1, <2>2, <2>4, UidsAreNumbers DEF Leading, OwnersAreSeen
    <2> QED
      BY <1>2, <2>3, <2>5
  <1> QED
    BY <1>3, <1>4, <1>5

\* What follows from nothing being lost.
LEMMA NothingIsLost ==
  ASSUME TypeOK, Fault
  PROVE  faults' # 0
  BY UidsAreNumbers DEF Fault

LEMMA LeadingNext ==
  ASSUME Leading, [Next]_vars, faults' = 0
  PROVE  /\ OneActive' /\ SeenIsPast' /\ OwnersAreSeen'
         /\ cr' = cr => \A w \in Workloads : owner[w] = cr => owner'[w] = cr
  <1> USE DEF managerVars, workVars, podVars, stepVars
  <1>1. ASSUME UNCHANGED <<cr, crCache, mode, lease, pc, my, owner>>
        PROVE  OneActive' /\ SeenIsPast' /\ OwnersAreSeen'
    BY <1>1 DEF Leading, OneActive, SeenIsPast, OwnersAreSeen
  <1>2. ASSUME NEW m \in Managers,
               Start(m) \/ EnsureSecret(m) \/ CRSync(m) \/ SecretSync(m)
        PROVE  UNCHANGED owner
    BY <1>2 DEF Start, EnsureSecret, CRSync, SecretSync
  <1>3. ASSUME NEW m \in Managers
        PROVE  ~(CallFails(m) \/ ReplyLost(m) \/ Killed(m))
    BY NothingIsLost DEF CallFails, ReplyLost, Killed, Leading
  <1>4. ~LeaseLapses /\ ~(\E c \in AllReaders : ContainerStops(c))
        /\ ~(\E w \in Workloads : PodStops(w))
    BY NothingIsLost DEF LeaseLapses, ContainerStops, PodStops, Leading
  <1>5. ASSUME NEW m \in Managers PROVE ~Exits(m)
    BY DEF Exits, Retire, Leading, OneActive
  <1>6. CASE RecreateCR
    <2>1. cr' = cr + 1 /\ UNCHANGED <<crCache, mode, lease, pc, my, owner>>
      BY <1>6 DEF RecreateCR
    <2>2. SeenIsPast'
      BY <2>1, UidsAreNumbers DEF Leading, SeenIsPast
    <2> QED
      BY <2>1, <2>2, UidsAreNumbers DEF Leading, OneActive, OwnersAreSeen
  <1>7. ASSUME NEW w \in Workloads, CollectWorkload(w)
        PROVE  /\ OneActive' /\ SeenIsPast' /\ OwnersAreSeen'
               /\ \A x \in Workloads : owner[x] = cr => owner'[x] = cr
    <2>1. UNCHANGED <<cr, crCache, mode, lease, pc, my>> /\ owner[w] # cr
          /\ \A x \in Workloads : owner'[x] = IF x = w THEN 0 ELSE owner[x]
      BY <1>7 DEF CollectWorkload, Gone, Leading, TypeOK
    <2> QED
      BY <2>1 DEF Leading, OneActive, SeenIsPast, OwnersAreSeen
  <1>8. ASSUME \/ \E fit, legacy \in BOOLEAN : UserWrites(fit, legacy)
               \/ UserDeletes \/ Kubelet \/ CollectSecret \/ UNCHANGED vars
        PROVE  UNCHANGED <<cr, crCache, mode, lease, pc, my, owner>>
    BY <1>8 DEF UserWrites, UserDeletes, Kubelet, RollOut, StartContainer,
                CollectSecret, vars
  <1>9. CASE ElectionStep
    BY <1>9, LeadingElection DEF ElectionStep
  <1> QED
    BY <1>1, <1>2, <1>3, <1>4, <1>5, <1>6, <1>7, <1>8, <1>9,
       LeadingRead, LeadingApply
    DEF Next, Worker, Collector

\* A step that loses something touches no workload object.
LEMMA LossesApplyNothing ==
  ASSUME [Next]_vars
  PROVE  faults' = faults \/ (Fault /\ UNCHANGED owner)
  BY DEF Next, Worker, Start, EnsureSecret, ApplyStatefulSet, ApplyDeployment,
     CallFails, ReplyLost, Killed, Exits, CRSync, SecretSync, LeaseLapses,
     ElectionStep, RecreateCR, UserWrites, UserDeletes, Edit, Kubelet, RollOut,
     StartContainer, ContainerStops, PodStops, Collector, CollectSecret,
     CollectWorkload, vars, bounds, workVars

LEMMA FlagStays ==
  ASSUME [Next]_vars
  PROVE  elect' = elect
  BY DEF Next, Worker, Start, EnsureSecret, ApplyStatefulSet, ApplyDeployment,
     CallFails, ReplyLost, Killed, Stop, Exits, Retire, CRSync, SecretSync,
     LeaseLapses, Lapse, ElectionStep, Boot, Acquire, Expire, RecreateCR,
     UserWrites, UserDeletes, Kubelet, RollOut, StartContainer, ContainerStops,
     PodStops, Collector, CollectSecret, CollectWorkload, vars, managerVars

LEMMA LeaderNext ==
  ASSUME TypeOK, LeaderInv, [Next]_vars
  PROVE  /\ LeaderInv'
         /\ (elect /\ faults = 0 /\ cr' = cr) =>
               \A w \in Workloads : owner[w] = cr => owner'[w] = cr
  <1>1. ASSUME elect, faults = 0
        PROVE  Leading
    BY <1>1, LeaderInvIs DEF Leading
  <1>2. CASE faults' = faults
    <2>1. LeaderInv'
      BY <1>1, <1>2, LeadingNext, FlagStays
      DEF LeaderInv, OneActive, SeenIsPast, OwnersAreSeen
    <2> QED
      BY <1>1, <1>2, <2>1, LeadingNext
  <1>3. CASE Fault /\ UNCHANGED owner
    BY <1>3, NothingIsLost DEF LeaderInv
  <1> QED
    BY <1>2, <1>3, LossesApplyNothing

\* The lease has one holder, which is the only process that reconciles, and it
\* has seen every CR that owns a workload.
THEOREM LeaderInductive == Spec => []LeaderInv
  <1>1. Init => LeaderInv
    <2> SUFFICES ASSUME Init PROVE LeaderInv
      OBVIOUS
    <2>1. \A m \in Managers : mode[m] = "down" /\ m # lease
                              /\ my[m] = 0 /\ crCache[m] = 1
      BY ManagersAssumption DEF Init, ManagersInit
    <2>2. cr = 1 /\ \A w \in Workloads : owner[w] = 0
      BY DEF Init
    <2> QED
      BY <2>1, <2>2 DEF LeaderInv
  <1>2. TypeOK /\ LeaderInv /\ [Next]_vars => LeaderInv'
    BY LeaderNext
  <1> QED
    BY <1>1, <1>2, TypeCorrect, PTL DEF Spec

\* What leader election is for: with nothing lost, a workload of the present CR
\* is not handed back to a former one, whatever the other processes' caches show.
THEOREM LeadersAdopt == Spec => AdoptedStays
  <1>1. TypeOK /\ LeaderInv /\ [Next]_vars
        => [(elect /\ faults = 0 /\ cr' = cr) =>
              \A w \in Workloads : owner[w] = cr => owner'[w] = cr]_vars
    BY LeaderNext
  <1> QED
    BY <1>1, LeaderInductive, TypeCorrect, PTL DEF Spec, AdoptedStays
=============================================================================
