-------------------------- MODULE DeploymentProofs --------------------------
(***************************************************************************)
(* Theorems about the plugin in its host: for any numbers of activations,  *)
(* deactivations, databases and tokens and any environments, whatever      *)
(* overlaps, fails, is dropped or is cut short by a restart.               *)
(***************************************************************************)
EXTENDS Deployment, TLAPS

-----------------------------------------------------------------------------
(***************************************************************************)
(* The inductive invariant.                                                *)
(***************************************************************************)

\* Steps at which an activation has a configuration that validate accepts.
Writing == {"set_db", "set_config", "set_service", "set_state"}

\* A call is at a step of its own kind.
OwnSteps ==
    /\ \A c \in Activations : pc[c] \in {"idle", "migrate", "configure"} \cup Writing \cup Ends
    /\ \A c \in Deactivations :
           pc[c] \in {"idle", "clear_service", "clear_config", "clear_db", "clear_state"} \cup Ends

\* Activation c has its database, and what it has executed is there.
Migrated(c) == pool[c] \in Pools /\ \A i \in 1..done[c] : Migrations[i] \in schema[pool[c]]

\* What activation c has achieved where it is.
Achieved(c) ==
    /\ pc[c] = "idle" => done[c] = 0
    /\ pc[c] # "idle" => Migrated(c)
    /\ pc[c] = "migrate" => done[c] < Len(Migrations)
    /\ pc[c] \in {"configure"} => done[c] = Len(Migrations)
    /\ pc[c] \in Writing \cup {"ok"} => Ready(c)

Progress == \A c \in Activations : Achieved(c)

\* Service c was made by an activation that had come so far.
Made(c) == c \in Activations /\ pc[c] # "idle" /\ Ready(c)

\* What is published, mounted or has signed a token was made in that way.
Published ==
    /\ auth_service # None => Made(auth_service)
    /\ \A s \in mounted : Made(s)
    /\ \A t \in Tokens : issued[t] # None => Made(issued[t])

\* An activation that is about to write a lock has written those before it, and an
\* active plugin has all of them, unless somebody deactivates.
Ahead ==
    (\A c \in Deactivations : pc[c] = "idle") =>
        /\ state = "Active" => None \notin {db, config, auth_service}
        /\ \A c \in Activations :
               /\ pc[c] \in {"set_config", "set_service", "set_state"} => db # None
               /\ pc[c] \in {"set_service", "set_state"} => config # None
               /\ pc[c] = "set_state" => auth_service # None

\* Call c is the last one and has run alone so far.
Alone(c) == latest = c /\ c \notin overlapped

\* What the locks are when c has come to step p undisturbed.
Written(c, p) ==
    /\ p \in {"set_config", "set_service", "set_state"} => db = pool[c]
    /\ p \in {"set_service", "set_state"} => config = c
    /\ p = "set_state" => auth_service = c
    /\ p \in {"clear_config", "clear_db", "clear_state"} => auth_service = None
    /\ p \in {"clear_db", "clear_state"} => config = None
    /\ p = "clear_state" => db = None
    /\ p = "ok" => AsLeftBy(c)

\* A call that runs alone is the only one under way, and finds what it has written.
Solo == \A c \in Calls : Alone(c) => Busy \subseteq {c} /\ Written(c, pc[c])

\* The histories of the host.
HostTypes == mounted \subseteq Activations /\ issued \in [Tokens -> Activations \cup {None}]

Inv == TypeOK /\ OwnSteps /\ Progress /\ Published /\ HostTypes /\ Ahead /\ Solo

-----------------------------------------------------------------------------
(***************************************************************************)
(* Migrations.                                                             *)
(***************************************************************************)

\* There are migrations, and the schema is what they create.
LEMMA MigrationsAreThere ==
    /\ Len(Migrations) \in Nat /\ Len(Migrations) > 0
    /\ \A i \in 1..Len(Migrations) : Migrations[i] \in Schema
    /\ \A X \in SUBSET Schema : (\A i \in 1..Len(Migrations) : Migrations[i] \in X) => X = Schema
<1>1. Len(Migrations) = 10
  BY DEF Migrations
<1>2. \A i \in 1..Len(Migrations) : Migrations[i] \in Schema
  BY DEF Schema
<1>3. \A X \in SUBSET Schema : (\A i \in 1..Len(Migrations) : Migrations[i] \in X) => X = Schema
  BY DEF Schema
<1>4. QED
  BY <1>1, <1>2, <1>3

-----------------------------------------------------------------------------
(***************************************************************************)
(* Types.                                                                  *)
(***************************************************************************)

\* Every step of a call or of the environment keeps the types.
LEMMA TypesStep ==
    ASSUME TypeOK, OwnSteps, Progress, Next
    PROVE  TypeOK'
<1>1. ASSUME NEW c \in Activations, NEW p \in Pools, Activate(c, p) PROVE TypeOK'
  BY <1>1 DEF TypeOK, Activate, Begin, locks, Calls, Steps, Busy
<1>2. ASSUME NEW c \in Activations, Migrate(c) PROVE TypeOK'
  BY <1>2, MigrationsAreThere DEF TypeOK, Progress, Achieved, Migrated, Migrate, Goto, locks, Calls, Steps, Ends
<1>3. ASSUME NEW c \in Activations, Configure(c) PROVE TypeOK'
  BY <1>3 DEF TypeOK, Configure, Configurations, Goto, locks, Calls, Steps, Ends
<1>4. ASSUME NEW c \in Activations, SetDb(c) PROVE TypeOK'
  BY <1>4 DEF TypeOK, Progress, Achieved, Migrated, SetDb, Goto, Calls, Steps
<1>5. ASSUME NEW c \in Activations, SetConfig(c) PROVE TypeOK'
  BY <1>5 DEF TypeOK, SetConfig, Goto, Calls, Steps
<1>6. ASSUME NEW c \in Activations, SetService(c) PROVE TypeOK'
  BY <1>6 DEF TypeOK, SetService, Goto, Calls, Steps
<1>7. ASSUME NEW c \in Activations, SetState(c) PROVE TypeOK'
  BY <1>7 DEF TypeOK, SetState, Goto, Calls, Steps, Ends
<1>8. ASSUME NEW c \in Activations, Fail(c) PROVE TypeOK'
  BY <1>8 DEF TypeOK, Fail, Goto, locks, Calls, Steps, Ends
<1>9. ASSUME NEW c \in Deactivations, DeactivateStep(c) PROVE TypeOK'
  BY <1>9 DEF TypeOK, DeactivateStep, Deactivate, ClearService, ClearConfig, ClearDb, ClearState,
              Begin, Goto, locks, Calls, Steps, Ends, Busy
<1>10. ASSUME NEW c \in Calls, Drop(c) PROVE TypeOK'
  BY <1>10 DEF TypeOK, Drop, Goto, locks, Calls, Steps, Ends
<1>11. ASSUME NEW e \in Environments, SetEnv(e) PROVE TypeOK'
  BY <1>11 DEF TypeOK, SetEnv, locks
<1>12. QED
  BY <1>1, <1>2, <1>3, <1>4, <1>5, <1>6, <1>7, <1>8, <1>9, <1>10, <1>11 DEF Next, ActivateStep

-----------------------------------------------------------------------------
(***************************************************************************)
(* Each call goes its own way.                                             *)
(***************************************************************************)

\* Every step of a call or of the environment leads to a step of the same kind.
LEMMA OwnStepsStep ==
    ASSUME TypeOK, OwnSteps, Next
    PROVE  OwnSteps'
<1> USE LifecycleAssumption
<1>1. ASSUME NEW c \in Activations, ActivateStep(c) PROVE OwnSteps'
  BY <1>1 DEF TypeOK, OwnSteps, ActivateStep, Activate, Migrate, Configure, SetDb, SetConfig, SetService,
              SetState, Fail, Begin, Goto, Writing, Ends, Calls
<1>2. ASSUME NEW c \in Deactivations, DeactivateStep(c) PROVE OwnSteps'
  BY <1>2 DEF TypeOK, OwnSteps, DeactivateStep, Deactivate, ClearService, ClearConfig, ClearDb, ClearState,
              Begin, Goto, Writing, Ends, Calls
<1>3. ASSUME NEW c \in Calls, Drop(c) PROVE OwnSteps'
  BY <1>3 DEF TypeOK, OwnSteps, Drop, Goto, Writing, Ends, Calls
<1>4. ASSUME NEW e \in Environments, SetEnv(e) PROVE OwnSteps'
  BY <1>4 DEF OwnSteps, SetEnv
<1>5. QED
  BY <1>1, <1>2, <1>3, <1>4 DEF Next

-----------------------------------------------------------------------------
(***************************************************************************)
(* Migrations are complete before a configuration is loaded, and stay.     *)
(***************************************************************************)

\* A migration statement executes, or the call ends.
LEMMA MigrateEffect ==
    ASSUME NEW c \in Activations, Migrate(c)
    PROVE  /\ pc[c] = "migrate" /\ UNCHANGED <<env, locks, pool, loaded, latest, overlapped>>
           /\ \/ /\ pc' = [pc EXCEPT ![c] = "Database"]
                 /\ UNCHANGED <<schema, done>>
              \/ /\ pc' = [pc EXCEPT ![c] =
                              IF done[c] + 1 = Len(Migrations) THEN "configure" ELSE "migrate"]
                 /\ schema' = [schema EXCEPT ![pool[c]] = @ \cup {Migrations[done[c] + 1]}]
                 /\ done' = [done EXCEPT ![c] = @ + 1]
<1>1. CASE Needs(Migrations[done[c] + 1]) \subseteq schema[pool[c]]
  BY <1>1 DEF Migrate, Goto
<1>2. CASE ~(Needs(Migrations[done[c] + 1]) \subseteq schema[pool[c]])
  BY <1>2 DEF Migrate, Goto
<1>3. QED
  BY <1>1, <1>2

\* Schemas only grow, and a call that has begun keeps its database.
LEMMA SchemaGrows ==
    ASSUME TypeOK, Next
    PROVE  /\ \A p \in Pools : schema[p] \subseteq schema'[p]
           /\ \A c \in Activations : pc[c] # "idle" => pc'[c] # "idle" /\ pool'[c] = pool[c]
<1> USE LifecycleAssumption
<1>1. ASSUME NEW c \in Activations, ActivateStep(c)
      PROVE  /\ \A p \in Pools : schema[p] \subseteq schema'[p]
             /\ \A d \in Activations : pc[d] # "idle" => pc'[d] # "idle" /\ pool'[d] = pool[d]
  <2>1. CASE Migrate(c)
    BY <2>1, MigrateEffect DEF TypeOK, Calls
  <2>2. CASE ~Migrate(c)
    BY <1>1, <2>2 DEF TypeOK, ActivateStep, Activate, Configure, SetDb, SetConfig, SetService, SetState,
                      Fail, Begin, Goto, Calls
  <2>3. QED
    BY <2>1, <2>2
<1>2. ASSUME NEW c \in Deactivations, DeactivateStep(c)
      PROVE  /\ \A p \in Pools : schema[p] \subseteq schema'[p]
             /\ \A d \in Activations : pc[d] # "idle" => pc'[d] # "idle" /\ pool'[d] = pool[d]
  BY <1>2 DEF TypeOK, DeactivateStep, Deactivate, ClearService, ClearConfig, ClearDb, ClearState,
              Begin, Goto, Calls
<1>3. ASSUME NEW c \in Calls, Drop(c)
      PROVE  /\ \A p \in Pools : schema[p] \subseteq schema'[p]
             /\ \A d \in Activations : pc[d] # "idle" => pc'[d] # "idle" /\ pool'[d] = pool[d]
  <2>1. UNCHANGED <<schema, pool>>
    BY <1>3 DEF Drop
  <2>2. \A d \in Calls : pc[d] # "idle" => pc'[d] # "idle"
    BY <1>3 DEF TypeOK, Drop, Goto
  <2>3. QED
    BY <2>1, <2>2 DEF Calls
<1>4. ASSUME NEW e \in Environments, SetEnv(e)
      PROVE  /\ \A p \in Pools : schema[p] \subseteq schema'[p]
             /\ \A d \in Activations : pc[d] # "idle" => pc'[d] # "idle" /\ pool'[d] = pool[d]
  BY <1>4 DEF SetEnv
<1>5. QED
  BY <1>1, <1>2, <1>3, <1>4 DEF Next

\* A valid configuration is replaced by a valid one at most.
LEMMA ConfigurationStaysValid ==
    ASSUME TypeOK, Next, NEW c \in Activations, Valid(loaded[c])
    PROVE  Valid(loaded'[c])
<1>1. ASSUME NEW d \in Activations, Configure(d) PROVE Valid(loaded'[c])
  BY <1>1 DEF Configure, TypeOK
<1>2. ASSUME NEW d \in Activations, ActivateStep(d), ~Configure(d) PROVE loaded' = loaded
  BY <1>2 DEF ActivateStep, Activate, Migrate, SetDb, SetConfig, SetService, SetState, Fail
<1>3. ASSUME NEW d \in Deactivations, DeactivateStep(d) PROVE loaded' = loaded
  BY <1>3 DEF DeactivateStep, Deactivate, ClearService, ClearConfig, ClearDb, ClearState
<1>4. ASSUME NEW d \in Calls, Drop(d) PROVE loaded' = loaded
  BY <1>4 DEF Drop
<1>5. ASSUME NEW e \in Environments, SetEnv(e) PROVE loaded' = loaded
  BY <1>5 DEF SetEnv
<1>6. QED
  BY <1>1, <1>2, <1>3, <1>4, <1>5 DEF Next

\* A service that has been made stays as good as it was.
LEMMA MadeForGood ==
    ASSUME TypeOK, OwnSteps, Progress, Next, NEW c, Made(c)
    PROVE  Made(c)'
<1>1. c \in Activations /\ pool[c] \in Pools
  BY DEF Made, Progress, Achieved, Migrated
<1>2. pc'[c] # "idle" /\ pool'[c] = pool[c] /\ Schema \subseteq schema'[pool[c]]
  BY <1>1, SchemaGrows DEF Made, Ready
<1>3. schema'[pool[c]] \subseteq Schema
  BY <1>1, TypesStep DEF TypeOK
<1>4. Valid(loaded'[c])
  BY <1>1, ConfigurationStaysValid DEF Made, Ready
<1>5. QED
  BY <1>1, <1>2, <1>3, <1>4 DEF Made, Ready

\* What an activation has achieved remains, as long as it stays where it is or gives up.
LEMMA AchievedRemains ==
    ASSUME TypeOK, OwnSteps, Progress, Next, NEW c \in Activations,
           pc'[c] = pc[c] \/ (pc[c] # "idle" /\ pc'[c] \in Ends \ {"ok"}), done'[c] = done[c]
    PROVE  Achieved(c)'
<1>1. Achieved(c)
  BY DEF Progress
<1>2. pc[c] = "idle" => Achieved(c)'
  BY <1>1 DEF Achieved, Writing
<1>3. ASSUME pc[c] # "idle" PROVE Migrated(c)'
  <2>1. pool'[c] = pool[c] /\ pool[c] \in Pools /\ schema[pool[c]] \subseteq schema'[pool[c]]
    BY <1>1, <1>3, SchemaGrows DEF Achieved, Migrated
  <2>2. QED
    BY <1>1, <1>3, <2>1 DEF Achieved, Migrated
<1>4. ASSUME pc[c] # "idle", Ready(c) PROVE Ready(c)'
  BY <1>4, MadeForGood DEF Made
<1>5. QED
  BY <1>1, <1>2, <1>3, <1>4 DEF Achieved, Writing, Ends

\* An activation makes its way through the migrations and the configuration.
LEMMA ProgressStep ==
    ASSUME TypeOK, OwnSteps, Progress, Next
    PROVE  Progress'
<1> USE LifecycleAssumption
<1>1. ASSUME NEW c \in Activations, ActivateStep(c), Achieved(c)' PROVE Progress'
  <2>1. \A d \in Activations \ {c} : pc'[d] = pc[d] /\ done'[d] = done[d]
    BY <1>1 DEF TypeOK, ActivateStep, Activate, Migrate, Configure, SetDb, SetConfig, SetService,
                SetState, Fail, Begin, Goto, Calls
  <2>2. QED
    BY <1>1, <2>1, AchievedRemains DEF Progress
<1>2. ASSUME NEW c \in Activations, NEW p \in Pools, Activate(c, p) PROVE Achieved(c)'
  BY <1>2, MigrationsAreThere
     DEF TypeOK, Activate, Begin, Achieved, Migrated, Writing, Progress, Calls
<1>3. ASSUME NEW c \in Activations, Migrate(c) PROVE Achieved(c)'
  <2>1. /\ pc[c] = "migrate" /\ pool[c] \in Pools /\ done[c] \in Nat /\ done[c] < Len(Migrations)
        /\ \A i \in 1..done[c] : Migrations[i] \in schema[pool[c]]
    BY <1>3, MigrateEffect DEF TypeOK, Achieved, Migrated, Progress
  <2>2. CASE pc' = [pc EXCEPT ![c] = "Database"] /\ UNCHANGED <<schema, done, pool>>
    BY <2>1, <2>2 DEF TypeOK, Achieved, Migrated, Writing, Calls
  <2>3. CASE /\ pc' = [pc EXCEPT ![c] =
                           IF done[c] + 1 = Len(Migrations) THEN "configure" ELSE "migrate"]
             /\ schema' = [schema EXCEPT ![pool[c]] = @ \cup {Migrations[done[c] + 1]}]
             /\ done' = [done EXCEPT ![c] = @ + 1]
             /\ pool' = pool
    <3>1. done'[c] = done[c] + 1 /\ schema'[pool[c]] = schema[pool[c]] \cup {Migrations[done[c] + 1]}
      BY <2>1, <2>3 DEF TypeOK
    <3>2. \A i \in 1..done'[c] : Migrations[i] \in schema'[pool[c]]
      BY <2>1, <3>1
    <3>3. \/ (pc'[c] = "configure" /\ done'[c] = Len(Migrations))
          \/ (pc'[c] = "migrate" /\ done'[c] < Len(Migrations))
      <4>1. pc'[c] = IF done[c] + 1 = Len(Migrations) THEN "configure" ELSE "migrate"
        BY <2>3 DEF TypeOK, Calls
      <4>2. done[c] + 1 = Len(Migrations) \/ done[c] + 1 < Len(Migrations)
        BY <2>1, MigrationsAreThere
      <4>3. QED
        BY <3>1, <4>1, <4>2, MigrationsAreThere
    <3>4. QED
      BY <2>1, <2>3, <3>2, <3>3 DEF Achieved, Migrated, Writing
  <2>4. QED
    BY <1>3, <2>2, <2>3, MigrateEffect
<1>4. ASSUME NEW c \in Activations, Configure(c) PROVE Achieved(c)'
  <2>1. /\ pc[c] = "configure" /\ pool[c] \in Pools /\ done[c] = Len(Migrations)
        /\ \A i \in 1..done[c] : Migrations[i] \in schema[pool[c]]
    BY <1>4 DEF Configure, Goto, Achieved, Migrated, Progress
  <2>2. schema[pool[c]] = Schema
    <3>1. schema[pool[c]] \in SUBSET Schema
      BY <2>1 DEF TypeOK
    <3>2. \A i \in 1..Len(Migrations) : Migrations[i] \in schema[pool[c]]
      BY <2>1
    <3>3. QED
      BY <3>1, <3>2, MigrationsAreThere
  <2>3. UNCHANGED <<schema, pool, done>>
    BY <1>4 DEF Configure
  <2>4. pc'[c] \in {"panic", "Config"} \/ (pc'[c] = "set_db" /\ Valid(loaded'[c]))
    BY <1>4 DEF Configure, Goto, TypeOK, Calls
  <2>5. QED
    BY <2>1, <2>2, <2>3, <2>4 DEF Achieved, Migrated, Ready, Writing
<1>5. ASSUME NEW c \in Activations, SetDb(c) \/ SetConfig(c) \/ SetService(c) \/ SetState(c)
      PROVE  Achieved(c)'
  BY <1>5 DEF TypeOK, SetDb, SetConfig, SetService, SetState, Goto, Achieved, Migrated, Ready, Writing,
              Progress, Calls
<1>6. ASSUME NEW c \in Activations, Fail(c) PROVE Achieved(c)'
  BY <1>6 DEF TypeOK, Fail, Goto, Achieved, Migrated, Ready, Writing, Progress, Calls
<1>7. ASSUME NEW d \in Deactivations, DeactivateStep(d) PROVE Progress'
  <2>1. \A c \in Activations : pc'[c] = pc[c] /\ done'[c] = done[c]
    BY <1>7 DEF TypeOK, DeactivateStep, Deactivate, ClearService, ClearConfig, ClearDb, ClearState,
                Begin, Goto, Calls
  <2>2. QED
    BY <2>1, AchievedRemains DEF Progress
<1>8. ASSUME NEW d \in Calls, Drop(d) PROVE Progress'
  <2>1. done' = done
    BY <1>8 DEF Drop
  <2>2. \A c \in Activations :
            pc'[c] = pc[c] \/ (pc[c] # "idle" /\ pc'[c] \in Ends \ {"ok"})
    BY <1>8 DEF TypeOK, Drop, Goto, Ends, Steps, Calls
  <2>3. QED
    BY <2>1, <2>2, AchievedRemains DEF Progress
<1>9. ASSUME NEW e \in Environments, SetEnv(e) PROVE Progress'
  <2>1. UNCHANGED <<pc, done>>
    BY <1>9 DEF SetEnv
  <2>2. QED
    BY <2>1, AchievedRemains DEF Progress
<1>10. QED
  BY <1>1, <1>2, <1>3, <1>4, <1>5, <1>6, <1>7, <1>8, <1>9 DEF Next, ActivateStep

-----------------------------------------------------------------------------
(***************************************************************************)
(* What is published was made.                                             *)
(***************************************************************************)

\* Only an activation that has got that far publishes a service.
LEMMA PublishedStep ==
    ASSUME TypeOK, OwnSteps, Progress, Published, HostTypes, Next, UNCHANGED <<mounted, issued>>
    PROVE  Published'
<1> USE LifecycleAssumption
<1>1. \A c \in Activations : Made(c) => Made(c)'
  BY MadeForGood
<1>2. auth_service' \in {auth_service, None} \/
          \E c \in Activations : auth_service' = c /\ Made(c)
  <2>1. ASSUME NEW c \in Activations, SetService(c) PROVE auth_service' = c /\ Made(c)
    BY <2>1 DEF SetService, Goto, Made, Progress, Achieved, Writing
  <2>2. ASSUME NEW c \in Activations, ActivateStep(c), ~SetService(c)
        PROVE  auth_service' = auth_service
    BY <2>2 DEF ActivateStep, Activate, Migrate, Configure, SetDb, SetConfig, SetState, Fail, locks
  <2>3. ASSUME NEW c \in Deactivations, DeactivateStep(c)
        PROVE  auth_service' \in {auth_service, None}
    BY <2>3 DEF DeactivateStep, Deactivate, ClearService, ClearConfig, ClearDb, ClearState, locks
  <2>4. ASSUME NEW c \in Calls, Drop(c) PROVE auth_service' = auth_service
    BY <2>4 DEF Drop, locks
  <2>5. ASSUME NEW e \in Environments, SetEnv(e) PROVE auth_service' = auth_service
    BY <2>5 DEF SetEnv, locks
  <2>6. QED
    BY <2>1, <2>2, <2>3, <2>4, <2>5 DEF Next
<1>3. \A s \in mounted : Made(s)'
  BY <1>1 DEF Published, HostTypes
<1>4. \A t \in Tokens : issued[t] # None => Made(issued[t])'
  BY <1>1 DEF Published, HostTypes
<1>5. auth_service' # None => Made(auth_service)'
  BY <1>1, <1>2 DEF Published, TypeOK
<1>6. QED
  BY <1>3, <1>4, <1>5 DEF Published, Made, Ready

-----------------------------------------------------------------------------
(***************************************************************************)
(* Without a deactivation, locks are filled in order and never emptied.    *)
(***************************************************************************)

\* An activation leaves no gap behind it.
LEMMA AheadStep ==
    ASSUME TypeOK, OwnSteps, Progress, Ahead, Next
    PROVE  Ahead'
<1> USE LifecycleAssumption DEF Calls
<1>1. ASSUME NEW c \in Activations, SetDb(c) PROVE Ahead'
  <2>1. pool[c] # None
    BY <1>1 DEF SetDb, Goto, Progress, Achieved, Migrated
  <2>2. QED
    BY <1>1, <2>1 DEF TypeOK, Ahead, SetDb, Goto
<1>2. ASSUME NEW c \in Activations, SetConfig(c) PROVE Ahead'
  BY <1>2 DEF TypeOK, Ahead, SetConfig, Goto
<1>3. ASSUME NEW c \in Activations, SetService(c) PROVE Ahead'
  BY <1>3 DEF TypeOK, Ahead, SetService, Goto
<1>4. ASSUME NEW c \in Activations, SetState(c) PROVE Ahead'
  BY <1>4 DEF TypeOK, Ahead, SetState, Goto
<1>5. ASSUME NEW c \in Activations, Migrate(c) PROVE Ahead'
  BY <1>5, MigrateEffect DEF TypeOK, Ahead, locks
<1>6. ASSUME NEW c \in Activations, Configure(c) \/ Fail(c) \/ \E p \in Pools : Activate(c, p)
      PROVE  Ahead'
  BY <1>6 DEF TypeOK, Ahead, Configure, Fail, Activate, Begin, Goto, locks
<1>7. ASSUME NEW d \in Deactivations, DeactivateStep(d) PROVE Ahead'
  <2>1. pc'[d] # "idle"
    BY <1>7 DEF TypeOK, DeactivateStep, Deactivate, ClearService, ClearConfig, ClearDb, ClearState,
                Begin, Goto
  <2>2. QED
    BY <2>1 DEF Ahead
<1>8. ASSUME NEW d \in Calls, Drop(d) PROVE Ahead'
  BY <1>8 DEF TypeOK, Ahead, Drop, Goto, Steps, locks
<1>9. ASSUME NEW e \in Environments, SetEnv(e) PROVE Ahead'
  BY <1>9 DEF Ahead, SetEnv, locks
<1>10. QED
  BY <1>1, <1>2, <1>3, <1>4, <1>5, <1>6, <1>7, <1>8, <1>9 DEF Next, ActivateStep

-----------------------------------------------------------------------------
(***************************************************************************)
(* A call that runs alone.                                                 *)
(***************************************************************************)

\* A call that begins is the last one, and alone if nothing else is under way.
LEMMA SoloBegins ==
    ASSUME TypeOK, NEW c \in Calls, NEW first \in {"migrate", "clear_service"}, Begin(c, first)
    PROVE  Solo'
<1>1. SUFFICES ASSUME NEW d \in Calls, Alone(d)' PROVE Busy' \subseteq {d} /\ Written(d, pc[d])'
  BY DEF Solo
<1>2. d = c /\ Busy = {}
  BY <1>1 DEF Begin, Alone
<1>3. Busy' \subseteq {c}
  BY <1>2 DEF Begin, Busy, TypeOK
<1>4. pc'[c] = first
  BY DEF Begin, TypeOK
<1>5. QED
  BY <1>2, <1>3, <1>4 DEF Written

\* A call goes on: what runs alone is nothing but that call.
LEMMA SoloGoesOn ==
    ASSUME TypeOK, Solo, NEW c \in Calls, NEW here \in Steps, NEW next, Goto(c, here, next),
           Alone(c) => Written(c, next)'
    PROVE  Solo'
<1>1. SUFFICES ASSUME NEW d \in Calls, Alone(d) PROVE Busy' \subseteq {d} /\ Written(d, pc[d])'
  BY DEF Solo, Goto, Alone
<1>2. d = c /\ Busy \subseteq {c}
  BY <1>1 DEF Solo, Busy, Goto
<1>3. Busy' \subseteq {c}
  BY <1>2 DEF Busy, Goto, TypeOK
<1>4. pc'[c] = next
  BY DEF Goto, TypeOK
<1>5. QED
  BY <1>1, <1>2, <1>3, <1>4 DEF Written

\* Every step of a call or of the environment.
LEMMA SoloStep ==
    ASSUME TypeOK, OwnSteps, Solo, Next
    PROVE  Solo'
<1> USE LifecycleAssumption DEF Calls
<1>1. ASSUME NEW c \in Activations, NEW p \in Pools, Activate(c, p) PROVE Solo'
  BY <1>1, SoloBegins DEF Activate
<1>2. ASSUME NEW c \in Activations, Migrate(c) PROVE Solo'
  <2>1. \E next \in {"migrate", "configure", "Database"} : Goto(c, "migrate", next)
    BY <1>2, MigrateEffect DEF Goto
  <2>2. \A next \in {"migrate", "configure", "Database"} : Written(c, next)'
    BY DEF Written
  <2>3. QED
    BY <2>1, <2>2, SoloGoesOn DEF Steps
<1>3. ASSUME NEW c \in Activations, Configure(c) PROVE Solo'
  <2>1. \E next \in {"panic", "set_db", "Config"} : Goto(c, "configure", next)
    BY <1>3 DEF Configure, Goto
  <2>2. \A next \in {"panic", "set_db", "Config"} : Written(c, next)'
    BY DEF Written
  <2>3. QED
    BY <2>1, <2>2, SoloGoesOn DEF Steps
<1>4. ASSUME NEW c \in Activations, SetDb(c) PROVE Solo'
  <2>1. Goto(c, "set_db", "set_config") /\ Written(c, "set_config")'
    BY <1>4 DEF SetDb, Written
  <2>2. QED
    BY <2>1, SoloGoesOn DEF Steps
<1>5. ASSUME NEW c \in Activations, SetConfig(c) PROVE Solo'
  <2>1. Alone(c) => db = pool[c]
    BY <1>5 DEF SetConfig, Goto, Solo, Written
  <2>2. Goto(c, "set_config", "set_service") /\ (Alone(c) => Written(c, "set_service")')
    BY <1>5, <2>1 DEF SetConfig, Written
  <2>3. QED
    BY <2>2, SoloGoesOn DEF Steps
<1>6. ASSUME NEW c \in Activations, SetService(c) PROVE Solo'
  <2>1. Alone(c) => db = pool[c] /\ config = c
    BY <1>6 DEF SetService, Goto, Solo, Written
  <2>2. Goto(c, "set_service", "set_state") /\ (Alone(c) => Written(c, "set_state")')
    BY <1>6, <2>1 DEF SetService, Written
  <2>3. QED
    BY <2>2, SoloGoesOn DEF Steps
<1>7. ASSUME NEW c \in Activations, SetState(c) PROVE Solo'
  <2>1. Alone(c) => db = pool[c] /\ config = c /\ auth_service = c
    BY <1>7 DEF SetState, Goto, Solo, Written
  <2>2. Goto(c, "set_state", "ok") /\ (Alone(c) => Written(c, "ok")')
    BY <1>7, <2>1 DEF SetState, Written, AsLeftBy
  <2>3. QED
    BY <2>2, SoloGoesOn DEF Steps
<1>8. ASSUME NEW c \in Activations, Fail(c) PROVE Solo'
  <2>1. Goto(c, "migrate", "Database") /\ Written(c, "Database")'
    BY <1>8 DEF Fail, Written
  <2>2. QED
    BY <2>1, SoloGoesOn DEF Steps
<1>9. ASSUME NEW c \in Deactivations, DeactivateStep(c) PROVE Solo'
  <2>1. CASE Deactivate(c)
    BY <2>1, SoloBegins DEF Deactivate
  <2>2. CASE ClearService(c)
    <3>1. Goto(c, "clear_service", "clear_config") /\ Written(c, "clear_config")'
      BY <2>2 DEF ClearService, Written
    <3>2. QED
      BY <3>1, SoloGoesOn DEF Steps
  <2>3. CASE ClearConfig(c)
    <3>1. Alone(c) => auth_service = None
      BY <2>3 DEF ClearConfig, Goto, Solo, Written
    <3>2. Goto(c, "clear_config", "clear_db") /\ (Alone(c) => Written(c, "clear_db")')
      BY <2>3, <3>1 DEF ClearConfig, Written
    <3>3. QED
      BY <3>2, SoloGoesOn DEF Steps
  <2>4. CASE ClearDb(c)
    <3>1. Alone(c) => auth_service = None /\ config = None
      BY <2>4 DEF ClearDb, Goto, Solo, Written
    <3>2. Goto(c, "clear_db", "clear_state") /\ (Alone(c) => Written(c, "clear_state")')
      BY <2>4, <3>1 DEF ClearDb, Written
    <3>3. QED
      BY <3>2, SoloGoesOn DEF Steps
  <2>5. CASE ClearState(c)
    <3>1. Alone(c) => auth_service = None /\ config = None /\ db = None
      BY <2>5 DEF ClearState, Goto, Solo, Written
    <3>2. Goto(c, "clear_state", "ok") /\ (Alone(c) => Written(c, "ok")')
      BY <2>5, <3>1 DEF ClearState, Written, AsLeftBy
    <3>3. QED
      BY <3>2, SoloGoesOn DEF Steps
  <2>6. QED
    BY <1>9, <2>1, <2>2, <2>3, <2>4, <2>5 DEF DeactivateStep
<1>10. ASSUME NEW c \in Calls, Drop(c) PROVE Solo'
  <2>1. PICK here \in Steps : Goto(c, here, "dropped")
    BY <1>10 DEF Drop
  <2>2. Written(c, "dropped")'
    BY DEF Written
  <2>3. QED
    BY <2>1, <2>2, SoloGoesOn
<1>11. ASSUME NEW e \in Environments, SetEnv(e) PROVE Solo'
  <2>1. UNCHANGED <<db, config, auth_service, state, pc, pool, latest, overlapped>>
    BY <1>11 DEF SetEnv, locks
  <2>2. QED
    BY <2>1 DEF Solo, Alone, Busy, Written, AsLeftBy
<1>12. QED
  BY <1>1, <1>2, <1>3, <1>4, <1>5, <1>6, <1>7, <1>8, <1>9, <1>10, <1>11 DEF Next, ActivateStep

-----------------------------------------------------------------------------
(***************************************************************************)
(* Routers, tokens and restarts.                                           *)
(***************************************************************************)

\* Routers are made of the published service and sign with it.
LEMMA HostStep ==
    ASSUME Inv, Mount \/ \E t \in Tokens, s \in Activations : Issue(t, s)
    PROVE  Inv'
<1>1. UNCHANGED vars
  BY DEF Mount, Issue
<1>2. HostTypes' /\ (\A s \in mounted' : Made(s)) /\ (\A t \in Tokens : issued'[t] # None => Made(issued'[t]))
  BY DEF Mount, Issue, Inv, HostTypes, Published, TypeOK
<1>3. Published'
  BY <1>1, <1>2 DEF Inv, Published, Made, Ready, vars, locks
<1>4. (TypeOK /\ OwnSteps /\ Progress /\ Ahead)'
  BY <1>1 DEF Inv, TypeOK, OwnSteps, Progress, Achieved, Migrated, Ready, Ahead, vars, locks
<1>5. Solo'
  BY <1>1 DEF Inv, Solo, Alone, Busy, Written, AsLeftBy, vars, locks
<1>6. QED
  BY <1>2, <1>3, <1>4, <1>5 DEF Inv

\* A restart empties the locks, ends every call and keeps the databases.
LEMMA RestartStep ==
    ASSUME Inv, Restart
    PROVE  Inv'
<1> USE LifecycleAssumption
<1>1. TypeOK' /\ HostTypes'
  BY DEF Inv, TypeOK, HostTypes, Restart, Calls, Ends
<1>2. \A c \in Calls : pc'[c] = pc[c] \/ (pc[c] \in Steps /\ pc'[c] = "dropped")
  BY DEF Restart, Busy
<1>3. OwnSteps'
  BY <1>2 DEF Inv, OwnSteps, Calls, Ends
<1>4. \A c \in Activations : Made(c) => Made(c)'
  BY <1>2 DEF Restart, Made, Ready, Calls
<1>5. Progress'
  BY <1>2 DEF Inv, Progress, Achieved, Migrated, Ready, Restart, Calls, Steps, Writing
<1>6. Published'
  BY <1>4 DEF Inv, HostTypes, Published, Restart
<1>7. Ahead'
  BY <1>2 DEF Restart, Ahead, Calls, Busy, Steps
<1>8. Solo'
  BY DEF Restart, Solo, Alone
<1>9. QED
  BY <1>1, <1>3, <1>5, <1>6, <1>7, <1>8 DEF Inv

-----------------------------------------------------------------------------
(***************************************************************************)
(* The invariant holds.                                                    *)
(***************************************************************************)

\* It holds of a process that has just started on empty databases.
LEMMA InvInit == DeploymentInit => Inv
<1> SUFFICES ASSUME DeploymentInit PROVE Inv
  OBVIOUS
<1> USE LifecycleAssumption DEF DeploymentInit, Init
<1>1. TypeOK /\ HostTypes
  BY MigrationsAreThere DEF TypeOK, HostTypes, Calls
<1>2. OwnSteps /\ Published /\ Ahead
  BY DEF OwnSteps, Published, Ahead, Calls
<1>3. Progress
  BY DEF Progress, Achieved, Writing, Calls
<1>4. Solo
  BY DEF Solo, Alone
<1>5. QED
  BY <1>1, <1>2, <1>3, <1>4 DEF Inv

\* Every step keeps it.
LEMMA InvNext == Inv /\ [DeploymentNext]_deployment => Inv'
<1> SUFFICES ASSUME Inv, [DeploymentNext]_deployment PROVE Inv'
  OBVIOUS
<1>1. CASE Next /\ UNCHANGED <<mounted, issued>>
  <2>1. HostTypes'
    BY <1>1 DEF Inv, HostTypes
  <2>2. QED
    BY <1>1, <2>1, TypesStep, OwnStepsStep, ProgressStep, PublishedStep, AheadStep, SoloStep DEF Inv
<1>2. CASE Mount \/ \E t \in Tokens, s \in Activations : Issue(t, s)
  BY <1>2, HostStep
<1>3. CASE Restart
  BY <1>3, RestartStep
<1>4. CASE UNCHANGED deployment
  <2>1. UNCHANGED <<vars, mounted, issued>>
    BY <1>4 DEF deployment
  <2>2. (TypeOK /\ OwnSteps /\ Progress /\ Published /\ HostTypes)'
    BY <2>1 DEF Inv, TypeOK, OwnSteps, Progress, Achieved, Migrated, Published, Made, Ready, HostTypes,
                vars, locks
  <2>3. (Ahead /\ Solo)'
    BY <2>1 DEF Inv, Ahead, Solo, Alone, Busy, Written, AsLeftBy, vars, locks
  <2>4. QED
    BY <2>2, <2>3 DEF Inv
<1>5. QED
  BY <1>1, <1>2, <1>3, <1>4 DEF DeploymentNext

\* It always holds.
LEMMA InvHolds == DeploymentSpec => []Inv
BY InvInit, InvNext, PTL DEF DeploymentSpec

-----------------------------------------------------------------------------
(***************************************************************************)
(* Theorems.                                                               *)
(***************************************************************************)

\* Every reachable state of the plugin in its host has the declared types.
THEOREM PluginTypes == DeploymentSpec => []TypeOK
<1>1. Inv => TypeOK
  BY DEF Inv
<1>2. QED
  BY <1>1, InvHolds, PTL

\* The service that auth_service() hands out has a complete database and a valid
\* configuration: activate writes it last but one, and whoever is cut short before has
\* published nothing.
THEOREM PublishedHolds == DeploymentSpec => []PublishedServiceIsReady
<1>1. Inv => PublishedServiceIsReady
  BY DEF Inv, Published, Made, PublishedServiceIsReady
<1>2. QED
  BY <1>1, InvHolds, PTL

\* As long as nobody deactivates, an active plugin has all three locks filled, however
\* many activations overlap or are cut short.
THEOREM ActiveHolds == DeploymentSpec => []ActiveMeansPublished
<1>1. Inv => ActiveMeansPublished
  BY DEF Inv, Ahead, ActiveMeansPublished
<1>2. QED
  BY <1>1, InvHolds, PTL

\* An activation or deactivation that runs alone leaves the four locks as it should,
\* whatever disarray it finds them in.
THEOREM LastCallHolds == DeploymentSpec => []LastCallSettles
<1>1. Inv => LastCallSettles
  BY DEF Inv, Solo, Alone, Written, LastCallSettles
<1>2. QED
  BY <1>1, InvHolds, PTL

\* Service, middleware and extractor judge a token in the same way when the environment
\* is what the service was configured with.
LEMMA SameJudgement ==
    ASSUME NEW s, NEW t, Made(s), loaded[s] = FromEnv(env)
    PROVE  /\ ValidateToken(t) = IF ServiceAccepts(s, t) THEN "pass" ELSE "401"
           /\ ExtractUser(t) = ValidateToken(t)
<1>1. env.JWT_SECRET # Unset
  BY LifecycleAssumption DEF Made, Ready, Valid, FromEnv
<1>2. /\ loaded[s].jwt_secret = env.JWT_SECRET
      /\ loaded[s].jwt_issuer = Default(env.JWT_ISSUER, "rustpress")
      /\ loaded[s].jwt_audience = Default(env.JWT_AUDIENCE, "rustpress-api")
  BY DEF FromEnv
<1>3. QED
  BY <1>1, <1>2 DEF ValidateToken, ExtractUser, ServiceAccepts

\* A router and the guards in front of it agree on every token ever given out.
THEOREM ValidatorsHold == DeploymentSpec => []ValidatorsAgree
<1>1. Inv => ValidatorsAgree
  BY SameJudgement DEF Inv, Published, ValidatorsAgree
<1>2. QED
  BY <1>1, InvHolds, PTL

\* After an activation that ran alone, service and guards agree on every token there is,
\* those from before a deactivation or a restart included.
THEOREM ReactivationHolds == DeploymentSpec => []ReactivationFollowsEnvironment
<1>1. Inv => ReactivationFollowsEnvironment
  <2> SUFFICES ASSUME Inv, NEW c \in Activations, pc[c] = "ok", latest = c, c \notin overlapped,
                      loaded[c] = FromEnv(env), NEW t \in Issued
               PROVE  ValidateToken(t) = "pass" <=> ServiceAccepts(auth_service, t)
    BY DEF ReactivationFollowsEnvironment
  <2>1. auth_service = c
    BY DEF Inv, Solo, Alone, Written, AsLeftBy, Calls
  <2>2. Made(c)
    BY DEF Inv, Progress, Achieved, Made
  <2>3. QED
    BY <2>1, <2>2, SameJudgement
<1>2. QED
  BY <1>1, InvHolds, PTL

\* And on every refresh token of the database the plugin is in: a session lives on or ends
\* as a whole, a change of the audience alone left aside.
THEOREM SessionsSurviveHolds == DeploymentSpec => []SessionsSurviveReactivation
<1>1. Inv => SessionsSurviveReactivation
  <2> SUFFICES ASSUME Inv, NEW c \in Activations, pc[c] = "ok", latest = c, c \notin overlapped,
                      loaded[c] = FromEnv(env), NEW t \in Issued, pool[issued[t]] = db,
                      Signed(t).aud = loaded[c].jwt_audience
               PROVE  FindsRefreshToken(auth_service, t) <=> ValidateToken(t) = "pass"
    BY DEF SessionsSurviveReactivation
  <2>1. auth_service = c /\ db = pool[c]
    BY DEF Inv, Solo, Alone, Written, AsLeftBy, Calls
  <2>2. Made(c)
    BY DEF Inv, Progress, Achieved, Made
  <2>3. ValidateToken(t) = "pass" <=> ServiceAccepts(c, t)
    BY <2>2, SameJudgement
  <2>4. ServiceAccepts(c, t) <=> /\ loaded[c].jwt_secret = Signed(t).key
                                /\ loaded[c].jwt_issuer = Signed(t).iss
    BY DEF ServiceAccepts, Decodes, Signed
  <2>5. FindsRefreshToken(c, t) <=> /\ loaded[c].jwt_secret = Signed(t).key
                                   /\ loaded[c].jwt_issuer = Signed(t).iss
    BY <2>1 DEF FindsRefreshToken, HashToken, Signed
  <2>6. QED
    BY <2>1, <2>3, <2>4, <2>5
<1>2. QED
  BY <1>1, InvHolds, PTL
=============================================================================
