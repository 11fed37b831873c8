--------------------------- MODULE MCParts_proofs ---------------------------
(***************************************************************************)
(* Proofs about the parts that MCParts puts together, each for any values  *)
(* of its constants.                                                       *)
(***************************************************************************)
EXTENDS MCParts, FiniteSetTheorems, WellFoundedInduction, TLAPS

----------------------------------------------------------------------------
(* The life of the process.                                                *)

\* What run has made and closed by the time it gets to a place.
ConnectionsInv ==
    /\ pc \in {"load", "open"} => db = "none" /\ redis = "none"
    /\ pc \in {"pingDb", "schema", "client"} => db = "open" /\ redis = "none"
    /\ pc \in {"ping", "ably", "serve", "notify", "select", "shutdown", "closeRedis"} =>
            db = "open" /\ redis = "open"
    /\ pc = "closeDb" => db = "open" /\ redis \in {"none", "closed"}
    /\ pc = "exit" /\ ~killed => db # "open" /\ redis # "open"

\* No request is running when the connections are closed, unless it has outlived the
\* 10 s or the listener failed.
ServedInv ==
    /\ listener = "none" => \A w \in Requests : work[w] # "running"
    /\ pc \in {"load", "open", "pingDb", "schema", "client", "ping", "ably", "serve"} => listener = "none"
    /\ pc = "shutdown" => listener = "down"
    /\ pc \in {"closeRedis", "closeDb"} =>
            \/ errCh \/ late
            \/ listener \in {"none", "down"} /\ \A w \in Requests : work[w] # "running"
    /\ Process!ServedWhole

ProcessInv ==
    /\ pc \in Process!Startup \union {"select", "shutdown", "closeRedis", "closeDb", "exit"}
    /\ work \in [Requests \union Tasks -> {"new", "running", "over"}]
    /\ ConnectionsInv /\ ServedInv

\* No step of the process leaves a connection open or closes one early.
LEMMA ProcessStep == ProcessInv /\ [Process!Next]_serverVars => ProcessInv'
<1> SUFFICES ASSUME ProcessInv, [Process!Next]_serverVars PROVE ProcessInv'
  OBVIOUS
<1> USE DEF ProcessInv, ConnectionsInv, ServedInv, Process!ServedWhole, Process!Startup,
            Process!connVars, Process!netVars, Process!workVars
<1>1. CASE Process!Load \/ Process!OpenDb \/ Process!PingDb \/ Process!InitSchema
           \/ Process!NewClient \/ Process!Ping \/ Process!NewService
  BY <1>1 DEF Process!Load, Process!OpenDb, Process!PingDb, Process!InitSchema, Process!NewClient,
              Process!Ping, Process!NewService, Process!Starts
<1>2. CASE Process!FailsEarly \/ Process!OpenFails \/ Process!CachesFail \/ Process!ServiceFails
  BY <1>2 DEF Process!FailsEarly, Process!OpenFails, Process!CachesFail, Process!ServiceFails
<1>3. CASE Process!Serve \/ Process!Notify
  BY <1>3 DEF Process!Serve, Process!Notify, Process!Starts
<1>4. CASE Process!Signal
  BY <1>4 DEF Process!Signal
<1>5. CASE Process!Listens \/ Process!ListenFails
  BY <1>5 DEF Process!Listens, Process!ListenFails
<1>6. CASE Process!Deadline
  BY <1>6 DEF Process!Deadline
<1>7. CASE Process!SelectErr \/ Process!SelectStop
  BY <1>7 DEF Process!SelectErr, Process!SelectStop
<1>8. CASE Process!Shutdown
  BY <1>8 DEF Process!Shutdown, Process!Running
<1>9. CASE Process!CloseRedis \/ Process!CloseDb
  BY <1>9 DEF Process!CloseRedis, Process!CloseDb, Process!Starts
<1>10. ASSUME NEW w \in Requests \union Tasks, Process!WorkBegins(w) PROVE ProcessInv'
  BY <1>10 DEF Process!WorkBegins
<1>11. ASSUME NEW w \in Requests \union Tasks, Process!WorkUses(w) PROVE ProcessInv'
  <2>1. CASE "closed" \notin {db, redis}
    BY <1>11, <2>1 DEF Process!WorkUses
  <2>2. CASE "closed" \in {db, redis}
    <3>1. pc = "closeDb" /\ work[w] = "running"
      BY <1>11, <2>2 DEF Process!WorkUses
    <3>2. w \in Requests => errCh \/ late
      BY <3>1
    <3> QED
      BY <1>11, <3>1, <3>2 DEF Process!WorkUses
  <2> QED
    BY <2>1, <2>2
<1>12. ASSUME NEW w \in Requests \union Tasks, Process!WorkEnds(w) PROVE ProcessInv'
  BY <1>12 DEF Process!WorkEnds
<1>13. CASE Process!Exited \/ UNCHANGED serverVars
  BY <1>13 DEF Process!Exited, Process!vars, serverVars
<1> QED
  BY <1>1, <1>2, <1>3, <1>4, <1>5, <1>6, <1>7, <1>8, <1>9, <1>10, <1>11, <1>12, <1>13
     DEF Process!Next, Process!Run

\* Whichever way run returns, the connections it made are closed, and no request meets
\* a closed one, however many there are, unless it outlives Shutdown's 10 s or the
\* listener failed.
THEOREM ConnectionsCloseInOrder == MCSpec => []ClosesInOrder
<1>1. MCInit => ProcessInv
  BY DEF MCInit, Process!Init, ProcessInv, ConnectionsInv, ServedInv, Process!ServedWhole,
         Process!Startup
<1>2. [MCNext]_mcvars => [Process!Next]_serverVars
  BY DEF MCNext, mcvars
<1>3. ProcessInv => ClosesInOrder
  BY DEF ProcessInv, ConnectionsInv, ServedInv, ClosesInOrder, Process!ClosesInOrder,
         Process!ReturnsClosed
<1> QED
  BY <1>1, <1>2, <1>3, ProcessStep, PTL DEF MCSpec
----------------------------------------------------------------------------
(* Configuration.                                                          *)

Texts == Int \union {Blank, Bad}
Counts == Load!ChatInts \union Load!CodeInts

\* What the sources give, and what the setting of s is before normalize.
LastGiven(s) ==
    LET e == Load!EnvValue(s)
    IN  IF e \in Numbers THEN e ELSE IF file[s] \in Numbers THEN file[s] ELSE Load!DefaultInts[s]

\* A number is always a number: what does not parse is refused or passed over.
ConfigInv ==
    /\ loading \in {"file", "env", "normalize", "accepted", "refused"}
    /\ cfg \in [Load!Settings -> Texts]
    /\ \A s \in Load!Settings : file[s] \in Texts \union {Absent}
    /\ \A s \in Load!Ints : file[s] \in Numbers \union {Absent, Bad}
    /\ \A s \in Load!Settings : Load!EnvValue(s) \in Numbers \union {Blank, Bad}
    /\ \A s \in Load!Ints : cfg[s] \in Int
    /\ \A s \in Counts :
        /\ loading = "file" => cfg[s] = Load!DefaultInts[s]
        /\ loading = "env" => cfg[s] = IF file[s] \in Numbers THEN file[s] ELSE Load!DefaultInts[s]
        /\ loading = "normalize" => cfg[s] = LastGiven(s)
        /\ loading = "accepted" => cfg[s] = IF LastGiven(s) > 0 THEN LastGiven(s) ELSE Load!DefaultInts[s]
    /\ Load!AcceptedInRange

\* The kinds of setting are apart.
LEMMA SettingKinds ==
  /\ Counts \subseteq Load!Ints /\ Load!Ints \subseteq Load!Settings
  /\ Load!Ints = Counts \union {"chat_ably_publish_retry"} /\ "chat_ably_publish_retry" \notin Counts
  /\ Load!AblyTTLs \subseteq Load!Settings /\ Load!Durations \subseteq Load!Settings
  /\ (Load!AblyTTLs \union Load!Durations) \cap Load!Ints = {}
  /\ Load!ChatSettings \subseteq Load!Ints \union Load!Durations
  /\ Load!ChatInts \subseteq Counts
  /\ Load!ChatSettings \subseteq Load!ChatInts \union {"chat_ably_publish_retry", "chat_ably_publish_timeout"}
  /\ "chat_ably_publish_timeout" \in Load!Durations
BY DEF Counts, Load!Ints, Load!Settings, Load!ChatInts, Load!CodeInts, Load!AblyTTLs, Load!Durations,
       Load!ChatSettings, Load!Backends, Load!Lifetimes, Load!Repaired, Load!Free

\* The three copies of the numbers agree, and are positive.
LEMMA StandardInts ==
  /\ \A s \in Load!Ints : Load!DefaultInts[s] \in Nat \ {0}
  /\ \A s \in Counts : Load!RepairInts[s] = Load!DefaultInts[s]
  /\ \A s \in Load!ChatInts : Load!ChatLimitInts[s] = Load!RepairInts[s]
BY DEF Load!DefaultInts, Load!RepairInts, Load!ChatLimitInts, Load!Ints, Load!ChatInts, Load!CodeInts, Counts

\* A text that parses is a number.
LEMMA TextIsNumber == \A v \in Texts : Load!Parses(v) => v \in Int
BY PartsAssumption DEF Load!ConfigAssumption, Load!Parses, Texts

\* The first variable that is set holds what a variable can hold.
LEMMA EnvValueIsText ==
  ASSUME NEW s, env[s] \in Load!EnvValues(s)
  PROVE  Load!EnvValue(s) \in Numbers \union {Blank, Bad}
<1> DEFINE set == {i \in 1..Load!Variables(s) : env[s][i] # Blank}
<1>1. Load!Variables(s) \in 1..3
  BY DEF Load!Variables
<1>2. CASE set = {}
  BY <1>2 DEF Load!EnvValue
<1>3. CASE set # {}
  <2>1. set \subseteq {1, 2, 3} /\ \A i \in set : i \in 1..Load!Variables(s)
    BY <1>1
  <2> HIDE DEF set
  <2>2. \E i \in set : \A j \in set : i <= j
    <3>0. \A j \in set : j = 1 \/ j = 2 \/ j = 3
      BY <2>1
    <3>1. CASE 1 \in set
      <4>1. \A j \in set : 1 <= j
        BY <3>0
      <4> QED
        BY <3>1, <4>1
    <3>2. CASE 1 \notin set /\ 2 \in set
      <4>1. \A j \in set : 2 <= j
        BY <3>0, <3>2
      <4> QED
        BY <3>2, <4>1
    <3>3. CASE 1 \notin set /\ 2 \notin set
      <4>1. 3 \in set /\ \A j \in set : 3 <= j
        BY <1>3, <3>0, <3>3
      <4> QED
        BY <4>1
    <3> QED
      BY <3>1, <3>2, <3>3
  <2> DEFINE leading == CHOOSE i \in set : \A j \in set : i <= j
  <2>3. leading \in set
    BY <2>2
  <2>4. Load!EnvValue(s) = env[s][leading]
    BY <1>3 DEF Load!EnvValue, set
  <2> HIDE DEF leading
  <2>5. leading \in 1..Load!Variables(s)
    BY <2>1, <2>3
  <2> QED
    BY <2>4, <2>5 DEF Load!EnvValues
<1> QED
  BY <1>2, <1>3

\* Load begins with the values of Default and sources that can be read.
LEMMA ConfigInit == Load!Init => ConfigInv
<1> SUFFICES ASSUME Load!Init PROVE ConfigInv
  OBVIOUS
<1> USE PartsAssumption DEF Load!ConfigAssumption
<1>1. PICK given \in {Load!AblyTTLs} \union {{s} : s \in Load!Settings} :
        \E f \in [given -> UNION {Load!FileValues(s) : s \in given}],
           e \in [given -> UNION {Load!EnvValues(s) : s \in given}] :
            /\ \A s \in given : f[s] \in Load!FileValues(s) /\ e[s] \in Load!EnvValues(s)
            /\ file = [s \in Load!Settings |-> IF s \in given THEN f[s] ELSE Absent]
            /\ env = [s \in Load!Settings |-> IF s \in given THEN e[s]
                                              ELSE [i \in 1..Load!Variables(s) |-> Blank]]
  BY DEF Load!Init
<1>2. \A s \in Load!Settings : file[s] \in Load!FileValues(s) \union {Absent}
  BY <1>1
<1>3. \A s \in Load!Settings : env[s] \in Load!EnvValues(s)
  <2>1. \A s \in Load!Settings : [i \in 1..Load!Variables(s) |-> Blank] \in Load!EnvValues(s)
    BY DEF Load!EnvValues
  <2> QED
    BY <1>1, <2>1
<1>4. \A s \in Load!Settings : Load!EnvValue(s) \in Numbers \union {Blank, Bad}
  BY <1>3, EnvValueIsText
<1>5. loading = "file" /\ cfg = Load!Default
  BY DEF Load!Init
<1>6. /\ \A s \in Load!Settings : file[s] \in Texts \union {Absent}
      /\ \A s \in Load!Ints : file[s] \in Numbers \union {Absent, Bad}
  BY <1>2, SettingKinds DEF Load!FileValues, Texts
<1>7. \A s \in Load!Ints : s \notin {"redis_url", "ably_root_key", "ably_jwt_ttl"}
  BY DEF Load!Ints, Load!ChatInts, Load!CodeInts
<1>8. cfg \in [Load!Settings -> Texts] /\ \A s \in Load!Ints : cfg[s] = Load!DefaultInts[s]
  BY <1>5, <1>7, StandardInts, SettingKinds DEF Load!Default, Texts
<1> QED
  BY <1>4, <1>5, <1>6, <1>8, StandardInts, SettingKinds DEF ConfigInv, Load!AcceptedInRange

\* Every step of Load keeps ConfigInv.
LEMMA ConfigStep == ConfigInv /\ [Load!Next]_configVars => ConfigInv'
<1> SUFFICES ASSUME ConfigInv, [Load!Next]_configVars PROVE ConfigInv'
  OBVIOUS
<1> USE PartsAssumption DEF Load!ConfigAssumption
<1>0. Standard \in Int /\ Standard > 0 /\ Numbers \subseteq Int
      /\ Blank \notin Int /\ Bad \notin Int /\ Absent \notin Int
  OBVIOUS
<1>1. CASE UNCHANGED <<file, env>> /\ cfg' \in [Load!Settings -> Texts]
      /\ (\A s \in Load!Ints : cfg'[s] \in Int)
      /\ loading' \in {"env", "normalize", "accepted", "refused"}
      /\ (\A s \in Counts :
            /\ loading' = "env" => cfg'[s] = IF file[s] \in Numbers THEN file[s] ELSE Load!DefaultInts[s]
            /\ loading' = "normalize" => cfg'[s] = LastGiven(s)
            /\ loading' = "accepted" => cfg'[s] = IF LastGiven(s) > 0 THEN LastGiven(s) ELSE Load!DefaultInts[s])
      /\ Load!AcceptedInRange'
  <2>1. \A s : Load!EnvValue(s)' = Load!EnvValue(s) /\ LastGiven(s)' = LastGiven(s)
    BY <1>1 DEF Load!EnvValue, LastGiven
  <2> QED
    BY <1>1, <2>1 DEF ConfigInv
<1>2. CASE Load!loadFile
  <2>1. CASE \E s \in Load!Ints : file[s] = Bad
    <3>1. loading' = "refused" /\ UNCHANGED <<cfg, file, env>>
      BY <1>2, <2>1 DEF Load!loadFile
    <3> QED
      BY <1>1, <3>1 DEF ConfigInv, Load!AcceptedInRange
  <2>2. CASE ~\E s \in Load!Ints : file[s] = Bad
    <3>1. /\ loading = "file" /\ loading' = "env" /\ UNCHANGED <<file, env>>
          /\ cfg' = [s \in Load!Settings |-> IF file[s] = Absent THEN cfg[s] ELSE file[s]]
      BY <1>2, <2>2 DEF Load!loadFile
    <3>2. cfg' \in [Load!Settings -> Texts]
      BY <3>1 DEF ConfigInv
    <3>3. \A s \in Load!Ints : cfg'[s] = IF file[s] \in Numbers THEN file[s] ELSE cfg[s]
      BY <1>0, <2>2, <3>1, SettingKinds DEF ConfigInv
    <3>4. \A s \in Counts : cfg'[s] = IF file[s] \in Numbers THEN file[s] ELSE Load!DefaultInts[s]
      BY <3>1, <3>3, SettingKinds DEF ConfigInv
    <3>5. \A s \in Load!Ints : cfg'[s] \in Int
      BY <1>0, <3>3 DEF ConfigInv
    <3> QED
      BY <1>1, <3>1, <3>2, <3>4, <3>5 DEF Load!AcceptedInRange
  <2> QED
    BY <2>1, <2>2
<1>3. CASE Load!applyEnv
  <2>1. /\ loading = "env" /\ loading' = "normalize" /\ UNCHANGED <<file, env>>
        /\ cfg' = [s \in Load!Settings |->
              IF Load!EnvValue(s) = Blank \/ (Load!EnvValue(s) = Bad /\ s \in Load!Ints)
              THEN cfg[s] ELSE Load!EnvValue(s)]
    BY <1>3 DEF Load!applyEnv
  <2>2. cfg' \in [Load!Settings -> Texts]
    BY <2>1 DEF ConfigInv, Texts
  <2>3. \A s \in Load!Ints :
          cfg'[s] = IF Load!EnvValue(s) \in Numbers THEN Load!EnvValue(s) ELSE cfg[s]
    BY <1>0, <2>1, SettingKinds DEF ConfigInv
  <2>4. \A s \in Counts : cfg'[s] = LastGiven(s)
    BY <2>1, <2>3, SettingKinds DEF ConfigInv, LastGiven
  <2>5. \A s \in Load!Ints : cfg'[s] \in Int
    BY <1>0, <2>3 DEF ConfigInv
  <2> QED
    BY <1>1, <2>1, <2>2, <2>4, <2>5 DEF Load!AcceptedInRange
<1>4. CASE Load!normalize
  <2>1. CASE Load!Refuses(cfg)
    <3>1. loading' = "refused" /\ UNCHANGED <<cfg, file, env>>
      BY <1>4, <2>1 DEF Load!normalize
    <3> QED
      BY <1>1, <3>1 DEF ConfigInv, Load!AcceptedInRange
  <2>2. CASE ~Load!Refuses(cfg)
    <3>1. /\ loading = "normalize" /\ loading' = "accepted" /\ UNCHANGED <<file, env>>
          /\ cfg' = Load!Normal(cfg)
      BY <1>4, <2>2 DEF Load!normalize
    <3>2. /\ \A s \in Counts : cfg'[s] = IF cfg[s] <= 0 THEN Load!DefaultInts[s] ELSE cfg[s]
          /\ cfg'["chat_ably_publish_retry"]
                = IF cfg["chat_ably_publish_retry"] < 0 THEN 0 ELSE cfg["chat_ably_publish_retry"]
          /\ \A s \in Load!Settings \ Load!Ints : cfg'[s] = Load!Filled(cfg, s)
      BY <3>1, StandardInts, SettingKinds DEF Load!Normal, Counts
    <3>3. \A s \in Load!Settings : Load!Filled(cfg, s) \in Texts
      BY SettingKinds DEF Load!Filled, ConfigInv, Texts, Load!AblyTTLs
    <3>4. \A s \in Load!AblyTTLs \union Load!Durations :
            LET v == Load!Filled(cfg, s)
            IN  v \in Int /\ v > 0 /\ (s \in Load!AblyTTLs => v <= Day)
      <4> SUFFICES ASSUME NEW s \in Load!AblyTTLs \union Load!Durations
                   PROVE  LET v == Load!Filled(cfg, s)
                          IN  v \in Int /\ v > 0 /\ (s \in Load!AblyTTLs => v <= Day)
        OBVIOUS
      <4> DEFINE v == Load!Filled(cfg, s)
      <4>1. Load!Parses(v) /\ ~(v <= 0) /\ ~(s \in Load!AblyTTLs /\ v > Day)
        BY <2>2 DEF Load!Refuses
      <4>2. v \in Texts
        BY <3>3, SettingKinds
      <4> HIDE DEF v
      <4>3. v \in Int
        BY <4>1, <4>2, TextIsNumber
      <4>4. Day \in Int
        OBVIOUS
      <4>5. v > 0 /\ (s \in Load!AblyTTLs => v <= Day)
        BY <4>1, <4>3, <4>4
      <4> QED
        BY <4>3, <4>5 DEF v
    <3>5. \A s \in Load!AblyTTLs \union Load!Durations : cfg'[s] = Load!Filled(cfg, s)
      BY <3>2, SettingKinds
    <3>6. \A s \in Load!Ints : cfg'[s] \in Int
      BY <1>0, <3>2, StandardInts, SettingKinds DEF ConfigInv
    <3>7. \A s \in Counts :
            cfg'[s] > 0 /\ cfg'[s] = IF LastGiven(s) > 0 THEN LastGiven(s) ELSE Load!DefaultInts[s]
      BY <1>0, <3>1, <3>2, StandardInts, SettingKinds DEF ConfigInv, LastGiven
    <3>8. cfg'["chat_ably_publish_retry"] >= 0
      BY <1>0, <3>2, SettingKinds DEF ConfigInv
    <3>9. Load!AcceptedInRange'
      BY <3>4, <3>5, <3>7, <3>8 DEF Load!AcceptedInRange, Counts
    <3>10. cfg' \in [Load!Settings -> Texts]
      <4> DEFINE c == Load!Normal(cfg)
      <4>1. c = [s \in Load!Settings |-> c[s]] /\ DOMAIN c = Load!Settings
        BY DEF Load!Normal
      <4>2. \A s \in Counts : c[s] \in Texts
        BY <3>1, <3>2, StandardInts, SettingKinds DEF ConfigInv, Texts
      <4>3. \A s \in Load!Settings \ Load!Ints : c[s] \in Texts
        BY <3>1, <3>2, <3>3
      <4>4. c["chat_ably_publish_retry"] \in Texts
        BY <3>1, <3>2, StandardInts, SettingKinds DEF ConfigInv, Texts
      <4> QED
        BY <3>1, <4>1, <4>2, <4>3, <4>4, SettingKinds
    <3> QED
      BY <1>1, <3>1, <3>6, <3>7, <3>9, <3>10
  <2> QED
    BY <2>1, <2>2
<1>5. CASE Load!Loaded \/ UNCHANGED configVars
  <2>1. UNCHANGED <<loading, cfg, file, env>>
    BY <1>5 DEF Load!Loaded, Load!vars, configVars
  <2>2. \A s : Load!EnvValue(s)' = Load!EnvValue(s) /\ LastGiven(s)' = LastGiven(s)
    BY <2>1 DEF Load!EnvValue, LastGiven
  <2>3. Load!AcceptedInRange'
    BY <2>1 DEF ConfigInv, Load!AcceptedInRange
  <2> QED
    BY <2>1, <2>2, <2>3 DEF ConfigInv
<1> QED
  BY <1>2, <1>3, <1>4, <1>5 DEF Load!Next

\* In range and as given: what an accepted configuration is, from ConfigInv.
LEMMA ConfigInvImplies == ConfigInv => Load!ConfigSound
<1> SUFFICES ASSUME ConfigInv PROVE Load!ConfigSound
  OBVIOUS
<1>0. Standard \in Int /\ Standard > 0 /\ Numbers \subseteq Int
      /\ Blank \notin Int /\ Bad \notin Int /\ Absent \notin Int
  BY PartsAssumption DEF Load!ConfigAssumption
<1>1. Load!AcceptedInRange
  BY DEF ConfigInv
<1>2. Load!LastSourceWins
  BY SettingKinds DEF ConfigInv, Load!LastSourceWins, LastGiven
<1>3. Load!LimitsAgree
  <2> SUFFICES ASSUME Load!Parses(cfg["chat_ably_publish_timeout"]),
                      cfg["chat_ably_publish_timeout"] > 0,
                      NEW s \in Load!ChatSettings
               PROVE  Load!ChatLimitsFromConfig(cfg)[s] = Load!Normal(cfg)[s]
    BY DEF Load!LimitsAgree
  <2>1. CASE s \in Load!ChatInts
    BY <2>1, StandardInts, SettingKinds DEF Load!ChatLimitsFromConfig, Load!Normal, Load!nonzero
  <2>2. CASE s = "chat_ably_publish_retry"
    BY <2>2, SettingKinds DEF Load!ChatLimitsFromConfig, Load!Normal, Counts
  <2>3. CASE s = "chat_ably_publish_timeout"
    <3>1. /\ Load!ChatLimitsFromConfig(cfg)[s] = IF cfg[s] <= 0 THEN Standard ELSE cfg[s]
          /\ Load!Normal(cfg)[s] = Load!Filled(cfg, s)
      BY <2>3, SettingKinds DEF Load!ChatLimitsFromConfig, Load!Normal, Counts
    <3>2. cfg[s] \in Texts /\ Load!Parses(cfg[s])
      BY <2>3, SettingKinds DEF ConfigInv
    <3>3. cfg[s] \in Int
      BY <3>2, TextIsNumber
    <3> QED
      BY <2>3, <3>1, <3>3 DEF Load!Filled, Load!Parses
  <2> QED
    BY <2>1, <2>2, <2>3, SettingKinds
<1> QED
  BY <1>1, <1>2, <1>3 DEF Load!ConfigSound

\* What Load accepts is in range and is what the last readable source gives, whatever
\* numbers the sources hold, and the two places that repair the limits of the chat agree.
THEOREM ConfigIsSound == MCSpec => []ConfigSound
<1> DEFINE Inv == part = "load" => ConfigInv
<1>1. MCInit => Inv
  BY ConfigInit DEF MCInit
<1>2. Inv /\ [MCNext]_mcvars => Inv'
  <2> SUFFICES ASSUME Inv, [MCNext]_mcvars, part' = "load" PROVE ConfigInv'
    OBVIOUS
  <2>1. part = "load" /\ [Load!Next]_configVars
    BY DEF MCNext, mcvars
  <2> QED
    BY <2>1, ConfigStep
<1>3. Inv => ConfigSound
  BY ConfigInvImplies DEF ConfigSound
<1> QED
  BY <1>1, <1>2, <1>3, PTL DEF MCSpec

----------------------------------------------------------------------------
(* Presence keys that expire.                                              *)

Labels == {"hlen", "srem", "del", "sadd", "exec", "clear"}

\* The commands of a request after its first, done or failed.
GoesOn(q) ==
    Presence!CStep(q) \/ Presence!CFails(q) \/ Presence!CDelete(q) \/ Presence!CClear(q)

\* A request between two commands names a room.
LEMMA BusyHasRoom ==
  ASSUME Presence!TypeOK, NEW q \in Reqs, GoesOn(q)
  PROVE  req[q] \in [pc : Labels, room : Rooms, seen : SUBSET Users]
<1>1. req[q] # Presence!Idle
  BY DEF GoesOn, Presence!CStep, Presence!RemoveStep, Presence!RemoveCount,
         Presence!RemoveDeactivate, Presence!RemoveKey, Presence!RemoveMark, Presence!CFails,
         Presence!CommandFails, Presence!CDelete, Presence!DeleteExec, Presence!CClear, Presence!Idle
<1> QED
  BY <1>1 DEF Presence!TypeOK, Labels

\* The script changes the new room, and the old one, whose members do not grow.
LEMMA JoinChanges ==
  ASSUME Presence!TypeOK, NEW r \in Rooms, NEW u \in Users, Presence!JoinRoom(r, u)
  PROVE  /\ Presence!TypeOK' /\ req' = req
         /\ joined' = joined \union {r} /\ r \in active' /\ active' \subseteq active \union {r}
         /\ userRoom' = [userRoom EXCEPT ![u] = r]
         /\ \A s \in Rooms \ {r} :
              /\ members'[s] = IF s = userRoom[u] /\ s # NoRoom THEN members[s] \ {u} ELSE members[s]
              /\ s \in active \ active' => members'[s] = {}
              /\ s \in active \union pending => s \in active' \union pending'
<1> DEFINE old   == userRoom[u]
           moves == old # NoRoom /\ old # r
           left  == IF moves THEN [members EXCEPT ![old] = @ \ {u}] ELSE members
           gone  == IF moves /\ left[old] = {} THEN {old} ELSE {}
<1>1. /\ members' = [left EXCEPT ![r] = @ \union {u}]
      /\ userRoom' = [userRoom EXCEPT ![u] = r]
      /\ active' = (active \ gone) \union {r}
      /\ pending' = (pending \union gone) \ {r}
      /\ joined' = joined \union {r} /\ req' = req
  BY DEF Presence!JoinRoom
<1>2. left \in [Rooms -> SUBSET Users] /\ gone \subseteq Rooms
  BY DEF Presence!TypeOK
<1>3. \A s \in Rooms \ {r} :
        /\ left[s] = IF s = old /\ s # NoRoom THEN members[s] \ {u} ELSE members[s]
        /\ s \in gone => left[s] = {}
  BY DEF Presence!TypeOK
<1> HIDE DEF left, gone
<1>4. Presence!TypeOK'
  BY <1>1, <1>2 DEF Presence!TypeOK
<1>5. \A s \in Rooms \ {r} : members'[s] = left[s]
  BY <1>1, <1>2
<1> QED
  BY <1>1, <1>3, <1>4, <1>5

\* The first command of a leave, of a deletion and of a cleanup's visit.
LEMMA StartChanges ==
  ASSUME Presence!TypeOK, NEW q \in Reqs, NEW r \in Rooms,
         \/ \E u \in Users : Presence!CRemove(q, r, u)
         \/ Presence!CDeleteRead(q, r) \/ Presence!CCount(q, r)
  PROVE  /\ Presence!TypeOK' /\ UNCHANGED <<active, pending, joined, missed>>
         /\ req[q].pc = "idle" /\ \A p \in Reqs : p # q => req'[p] = req[p]
         /\ \A s \in Rooms : members'[s] \subseteq members[s]
<1> USE DEF Presence!CRemove, Presence!CDeleteRead, Presence!CCount
<1>1. ASSUME NEW u \in Users, Presence!RemoveMember(q, r, u) PROVE Presence!TypeOK'
  BY <1>1 DEF Presence!TypeOK, Presence!RemoveMember, Presence!At
<1>2. ASSUME Presence!DeleteRead(q, r) \/ Presence!CountMembers(q, r) PROVE Presence!TypeOK'
  BY <1>2 DEF Presence!TypeOK, Presence!DeleteRead, Presence!CountMembers, Presence!At,
              Presence!keys
<1>3. UNCHANGED <<active, pending, joined, missed>>
  BY DEF Presence!RemoveMember, Presence!DeleteRead, Presence!CountMembers, Presence!keys
<1>4. req[q].pc = "idle" /\ \A p \in Reqs : p # q => req'[p] = req[p]
  BY DEF Presence!RemoveMember, Presence!DeleteRead, Presence!CountMembers, Presence!Idle,
         Presence!TypeOK
<1>5. \A s \in Rooms : members'[s] \subseteq members[s]
  BY DEF Presence!RemoveMember, Presence!DeleteRead, Presence!CountMembers, Presence!keys,
         Presence!TypeOK
<1>6. Presence!TypeOK'
  BY <1>1, <1>2
<1> QED
  BY <1>3, <1>4, <1>5, <1>6

\* Every later command stays with the room of its request, whose members do not grow.
LEMMA CommandChanges ==
  ASSUME Presence!TypeOK, NEW q \in Reqs, GoesOn(q)
  PROVE  /\ Presence!TypeOK'
         /\ req[q].room \in Rooms
         /\ \A p \in Reqs : p # q => req'[p] = req[p]
         /\ \A s \in Rooms : members'[s] \subseteq members[s]
         /\ active' \subseteq active
         /\ \A s \in Rooms \ {req[q].room} :
              (s \in active <=> s \in active') /\ (s \in pending <=> s \in pending')
              /\ (s \in joined <=> s \in joined') /\ (s \in missed <=> s \in missed')
<1>1. req[q] \in [pc : Labels, room : Rooms, seen : SUBSET Users]
  BY BusyHasRoom
<1>2. CASE Presence!CStep(q)
  <2>0. missed' = missed
    BY <1>2 DEF Presence!CStep
  <2>1. CASE Presence!RemoveCount(q)
    BY <1>1, <2>0, <2>1 DEF Presence!TypeOK, Presence!RemoveCount, Presence!Goto, Presence!Done,
                            Presence!keys, Labels
  <2>2. CASE Presence!RemoveDeactivate(q)
    BY <1>1, <2>0, <2>2 DEF Presence!TypeOK, Presence!RemoveDeactivate, Presence!Goto, Labels
  <2>3. CASE Presence!RemoveKey(q)
    BY <1>1, <2>0, <2>3 DEF Presence!TypeOK, Presence!RemoveKey, Presence!Goto, Labels
  <2>4. CASE Presence!RemoveMark(q)
    BY <1>1, <2>0, <2>4 DEF Presence!TypeOK, Presence!RemoveMark, Presence!Done, Labels
  <2> QED
    BY <1>2, <2>1, <2>2, <2>3, <2>4 DEF Presence!CStep, Presence!RemoveStep
<1>3. CASE Presence!CFails(q)
  <2>1. Presence!Goto(q, "del") \/ Presence!Goto(q, "sadd") \/ Presence!Done(q)
    BY <1>3 DEF Presence!CFails, Presence!CommandFails
  <2>2. req' \in [Reqs -> {Presence!Idle} \union [pc : Labels, room : Rooms, seen : SUBSET Users]]
        /\ \A p \in Reqs : p # q => req'[p] = req[p]
    BY <1>1, <2>1 DEF Presence!TypeOK, Presence!Goto, Presence!Done, Labels
  <2>3. UNCHANGED <<members, userRoom, active, pending, joined>>
        /\ \A s \in Rooms \ {req[q].room} : s \in missed <=> s \in missed'
    BY <1>3 DEF Presence!CFails, Presence!CommandFails, Presence!keys
  <2> QED
    BY <1>1, <2>2, <2>3 DEF Presence!TypeOK, Labels
<1>4. CASE Presence!CDelete(q)
  <2>1. /\ Presence!DeleteExec(q) /\ missed' = missed \ {req[q].room}
        /\ Presence!Done(q) \/ req' = [req EXCEPT ![q] = Presence!At("clear", req[q].room, {})]
    BY <1>4 DEF Presence!CDelete
  <2>2. req' \in [Reqs -> {Presence!Idle} \union [pc : Labels, room : Rooms, seen : SUBSET Users]]
        /\ \A p \in Reqs : p # q => req'[p] = req[p]
    BY <1>1, <2>1 DEF Presence!TypeOK, Presence!Done, Presence!At, Labels
  <2> QED
    BY <1>1, <2>1, <2>2 DEF Presence!TypeOK, Presence!DeleteExec, Labels
<1>5. CASE Presence!CClear(q)
  BY <1>1, <1>5 DEF Presence!TypeOK, Presence!CClear, Presence!ClearPendingEmpty, Presence!Done
<1> QED
  BY <1>2, <1>3, <1>4, <1>5 DEF GoesOn

\* A room's members expire with or before room:active, if that lists the room: every
\* join that renews the first renews the second.
TTLInv ==
    /\ roomTTL \in [Rooms -> 0..MemberTTL] /\ activeTTL \in 0..MemberTTL
    /\ \A r \in Rooms : members[r] # {} => roomTTL[r] > 0
    /\ \A r \in active : roomTTL[r] <= activeTTL

ExpiryInv == Presence!TypeOK /\ TTLInv /\ Presence!CandidatesKept

\* A step that is no join and no tick shortens no list's life below its room's.
LEMMA TTLsKept ==
  ASSUME ExpiryInv, Presence!TypeOK', Presence!KeepTTLs, active' \subseteq active,
         \A s \in Rooms : members'[s] \subseteq members[s]
  PROVE  TTLInv'
<1>1. MemberTTL \in Nat
  BY PartsAssumption DEF Presence!ExpiryAssumption
<1>2. /\ roomTTL' = [r \in Rooms |-> IF members'[r] = {} THEN 0 ELSE roomTTL[r]]
      /\ activeTTL' = IF active' = {} THEN 0 ELSE activeTTL
  BY DEF Presence!KeepTTLs
<1>3. roomTTL' \in [Rooms -> 0..MemberTTL] /\ activeTTL' \in 0..MemberTTL
  BY <1>1, <1>2 DEF ExpiryInv, TTLInv
<1>4. \A r \in Rooms : members'[r] # {} => roomTTL'[r] > 0
  BY <1>2 DEF ExpiryInv, TTLInv
<1>5. ASSUME NEW r \in active' PROVE roomTTL'[r] <= activeTTL'
  <2>1. r \in Rooms /\ r \in active /\ active' # {}
    BY <1>5 DEF Presence!TypeOK
  <2>2. roomTTL[r] \in 0..MemberTTL /\ activeTTL \in 0..MemberTTL /\ roomTTL[r] <= activeTTL
    BY <2>1 DEF ExpiryInv, TTLInv
  <2> QED
    BY <1>1, <1>2, <2>1, <2>2
<1> QED
  BY <1>3, <1>4, <1>5 DEF TTLInv

\* Joins.
LEMMA ExpiryJoin ==
  ASSUME ExpiryInv, NEW r \in Rooms, NEW u \in Users, Presence!EJoin(r, u)
  PROVE  ExpiryInv'
<1>1. Presence!TypeOK /\ Presence!JoinRoom(r, u) /\ missed' = missed \ {r}
  BY DEF ExpiryInv, Presence!EJoin, Presence!CJoin
<1>2. /\ Presence!TypeOK' /\ req' = req
      /\ joined' = joined \union {r} /\ r \in active' /\ active' \subseteq active \union {r}
      /\ \A s \in Rooms \ {r} :
            /\ members'[s] \subseteq members[s]
            /\ s \in active \ active' => members'[s] = {}
            /\ s \in active \union pending => s \in active' \union pending'
  <2>1. /\ Presence!TypeOK' /\ req' = req
        /\ joined' = joined \union {r} /\ r \in active' /\ active' \subseteq active \union {r}
        /\ \A s \in Rooms \ {r} :
              /\ members'[s] = IF s = userRoom[u] /\ s # NoRoom THEN members[s] \ {u} ELSE members[s]
              /\ s \in active \ active' => members'[s] = {}
              /\ s \in active \union pending => s \in active' \union pending'
    BY <1>1, JoinChanges
  <2> QED
    BY <2>1
<1>3. MemberTTL \in Nat \ {0}
  BY PartsAssumption DEF Presence!ExpiryAssumption
<1>4. /\ roomTTL' = [s \in Rooms |->
              IF s = r THEN MemberTTL ELSE IF members'[s] = {} THEN 0 ELSE roomTTL[s]]
      /\ activeTTL' = MemberTTL
      /\ forgotten' = forgotten \ (active' \union pending')
  BY DEF Presence!EJoin
<1>5. roomTTL' \in [Rooms -> 0..MemberTTL] /\ activeTTL' \in 0..MemberTTL
  BY <1>3, <1>4 DEF ExpiryInv, TTLInv
<1>6. TTLInv'
  <2>1. \A s \in Rooms : members'[s] # {} => roomTTL'[s] > 0
    BY <1>2, <1>3, <1>4 DEF ExpiryInv, TTLInv
  <2>2. \A s \in active' : roomTTL'[s] <= activeTTL'
    BY <1>2, <1>3, <1>4, <1>5 DEF Presence!TypeOK
  <2> QED
    BY <1>5, <2>1, <2>2 DEF TTLInv
<1>7. \A s \in Rooms, L \in SUBSET {"del", "sadd"} :
        Presence!InFlight(s, L)' <=> Presence!InFlight(s, L)
  BY <1>2 DEF Presence!InFlight
<1>8. Presence!OccupiedIsActive'
  BY <1>1, <1>2, <1>7 DEF ExpiryInv, Presence!CandidatesKept, Presence!OccupiedIsActive
<1>9. Presence!CandidateUnlessForgotten'
  BY <1>1, <1>2, <1>4, <1>7
     DEF ExpiryInv, Presence!CandidatesKept, Presence!CandidateUnlessForgotten, Presence!TypeOK
<1> QED
  BY <1>2, <1>6, <1>8, <1>9 DEF ExpiryInv, Presence!CandidatesKept

\* The start of a leave or a deletion gives no room up.
LEMMA ExpiryStart ==
  ASSUME ExpiryInv, NEW q \in Reqs, NEW r \in Rooms, Presence!KeepTTLs,
         \/ \E u \in Users : Presence!CRemove(q, r, u)
         \/ Presence!CDeleteRead(q, r) \/ Presence!CCount(q, r)
  PROVE  ExpiryInv'
<1>1. /\ Presence!TypeOK' /\ UNCHANGED <<active, pending, joined, missed>>
      /\ req[q].pc = "idle" /\ \A p \in Reqs : p # q => req'[p] = req[p]
      /\ \A s \in Rooms : members'[s] \subseteq members[s]
  BY StartChanges DEF ExpiryInv
<1>2. TTLInv'
  BY <1>1, TTLsKept
<1>3. \A s \in Rooms, L \in SUBSET {"del", "sadd"} :
        Presence!InFlight(s, L) => Presence!InFlight(s, L)'
  BY <1>1 DEF Presence!InFlight
<1>4. forgotten' = forgotten \ (active' \union pending')
  BY DEF Presence!KeepTTLs
<1>5. Presence!OccupiedIsActive'
  BY <1>1, <1>3 DEF ExpiryInv, Presence!CandidatesKept, Presence!OccupiedIsActive
<1>6. Presence!CandidateUnlessForgotten'
  BY <1>1, <1>3, <1>4
     DEF ExpiryInv, Presence!CandidatesKept, Presence!CandidateUnlessForgotten, Presence!TypeOK
<1> QED
  BY <1>1, <1>2, <1>5, <1>6 DEF ExpiryInv, Presence!CandidatesKept

\* The later commands of a leave pass the room from room:active to room:pending_empty;
\* where one fails, or a mark is cleared that was set after the count, the room is
\* recorded as missed.
LEMMA ExpiryCommand ==
  ASSUME ExpiryInv, NEW q \in Reqs, Presence!KeepTTLs, GoesOn(q)
  PROVE  ExpiryInv'
<1>0. PICK r \in Rooms : r = req[q].room /\ req[q].pc \in Labels
  BY BusyHasRoom DEF ExpiryInv
<1>1. /\ Presence!TypeOK'
      /\ \A p \in Reqs : p # q => req'[p] = req[p]
      /\ \A s \in Rooms : members'[s] \subseteq members[s]
      /\ active' \subseteq active
      /\ \A s \in Rooms \ {r} :
            (s \in active <=> s \in active') /\ (s \in pending <=> s \in pending')
            /\ (s \in joined <=> s \in joined') /\ (s \in missed <=> s \in missed')
  BY <1>0, CommandChanges DEF ExpiryInv
<1>2. TTLInv'
  BY <1>1, TTLsKept
<1>3. \A s \in Rooms, L \in SUBSET {"del", "sadd"} :
        (s # r \/ req[q].pc \notin L) /\ Presence!InFlight(s, L) => Presence!InFlight(s, L)'
  BY <1>0, <1>1 DEF Presence!InFlight
<1>4. forgotten' = forgotten \ (active' \union pending')
  BY DEF Presence!KeepTTLs
<1>5. \A s \in Rooms \ {r} :
        members'[s] # {} => s \in active' \union missed' \/ Presence!InFlight(s, {"del"})'
  BY <1>1, <1>3 DEF ExpiryInv, Presence!CandidatesKept, Presence!OccupiedIsActive
<1>6. \A s \in joined' \ {r} : s \in active' \union pending' \union missed' \union forgotten'
                                \/ Presence!InFlight(s, {"del", "sadd"})'
  BY <1>1, <1>3, <1>4
     DEF ExpiryInv, Presence!CandidatesKept, Presence!CandidateUnlessForgotten, Presence!TypeOK
<1>7. /\ members'[r] # {} => r \in active' \union missed' \/ Presence!InFlight(r, {"del"})'
      /\ r \in joined' => r \in active' \union pending' \union missed' \union forgotten'
                          \/ Presence!InFlight(r, {"del", "sadd"})'
  <2>0. /\ members[r] # {} => r \in active \union missed \/ Presence!InFlight(r, {"del"})
        /\ r \in joined => r \in active \union pending \union missed \union forgotten
                           \/ Presence!InFlight(r, {"del", "sadd"})
        /\ Presence!TypeOK
    BY DEF ExpiryInv, Presence!CandidatesKept, Presence!OccupiedIsActive,
           Presence!CandidateUnlessForgotten
  <2>1. CASE Presence!CStep(q)
    <3>0. missed' = missed /\ Presence!RemoveStep(q)
      BY <2>1 DEF Presence!CStep
    <3>1. CASE Presence!RemoveCount(q)
      <4>1. \A L \in SUBSET {"del", "sadd"} : Presence!InFlight(r, L) => Presence!InFlight(r, L)'
        BY <1>1, <3>1 DEF Presence!InFlight, Presence!RemoveCount
      <4> QED
        BY <1>1, <1>4, <2>0, <3>0, <3>1, <4>1 DEF Presence!RemoveCount, Presence!keys
    <3>2. CASE Presence!RemoveDeactivate(q)
      <4>1. req'[q].room = r /\ req'[q].pc = "del"
        BY <1>0, <2>0, <3>2 DEF Presence!RemoveDeactivate, Presence!Goto, Presence!TypeOK
      <4> QED
        BY <4>1 DEF Presence!InFlight
    <3>3. CASE Presence!RemoveKey(q)
      <4>1. req'[q].room = r /\ req'[q].pc = "sadd" /\ members'[r] = {}
        BY <1>0, <2>0, <3>3 DEF Presence!RemoveKey, Presence!Goto, Presence!TypeOK
      <4> QED
        BY <4>1 DEF Presence!InFlight
    <3>4. CASE Presence!RemoveMark(q)
      <4>1. Presence!InFlight(r, {"del"}) => Presence!InFlight(r, {"del"})'
        BY <1>1, <3>4 DEF Presence!InFlight, Presence!RemoveMark
      <4> QED
        BY <1>0, <1>1, <2>0, <3>0, <3>4, <4>1 DEF Presence!RemoveMark
    <3> QED
      BY <3>0, <3>1, <3>2, <3>3, <3>4 DEF Presence!RemoveStep
  <2>2. CASE Presence!CFails(q)
    <3>0. UNCHANGED <<members, active, pending, joined>> /\ missed \subseteq missed'
      BY <2>2 DEF Presence!CFails, Presence!CommandFails, Presence!keys
    <3>1. ASSUME members[r] # {}, r \notin active
          PROVE  r \in missed' \/ Presence!InFlight(r, {"del"})'
      <4>1. CASE req[q].pc = "del"
        BY <1>0, <2>2, <3>1, <4>1 DEF Presence!CFails
      <4>2. CASE req[q].pc # "del"
        BY <1>3, <2>0, <3>0, <3>1, <4>2
      <4> QED
        BY <4>1, <4>2
    <3>2. ASSUME r \in joined, r \notin active \union pending
          PROVE  r \in missed' \union forgotten' \/ Presence!InFlight(r, {"del", "sadd"})'
      <4>1. CASE req[q].pc = "sadd"
        BY <1>0, <2>2, <3>2, <4>1 DEF Presence!CFails
      <4>2. CASE req[q].pc = "del"
        <5>1. req'[q].room = r /\ req'[q].pc = "sadd"
          BY <1>0, <2>0, <2>2, <4>2 DEF Presence!CFails, Presence!CommandFails, Presence!Goto,
             Presence!TypeOK
        <5> QED
          BY <5>1 DEF Presence!InFlight
      <4>3. CASE req[q].pc \notin {"del", "sadd"}
        BY <1>3, <1>4, <2>0, <3>0, <3>2, <4>3
      <4> QED
        BY <4>1, <4>2, <4>3
    <3> QED
      BY <3>0, <3>1, <3>2
  <2>3. CASE Presence!CDelete(q)
    <3>1. members'[r] = {} /\ r \notin joined'
      BY <1>0, <2>0, <2>3 DEF Presence!CDelete, Presence!DeleteExec, Presence!TypeOK
    <3> QED
      BY <3>1
  <2>4. CASE Presence!CClear(q)
    <3>0. /\ UNCHANGED <<members, active, joined>> /\ pending' = pending \ {r}
          /\ missed \subseteq missed' /\ req[q].pc = "clear"
      BY <1>0, <2>4 DEF Presence!CClear, Presence!ClearPendingEmpty
    <3>1. \A L \in SUBSET {"del", "sadd"} : Presence!InFlight(r, L) => Presence!InFlight(r, L)'
      BY <1>3, <3>0
    <3>2. members'[r] # {} => r \in active' \union missed' \/ Presence!InFlight(r, {"del"})'
      BY <2>0, <3>0, <3>1
    <3>3. CASE members[r] # {} /\ r \notin active \union missed
      <4>1. Presence!InFlight(r, {"del", "sadd"})
        BY <2>0, <3>3 DEF Presence!InFlight
      <4> QED
        BY <3>1, <3>2, <4>1
    <3>4. CASE members[r] = {} /\ r \in pending \ active
      <4>1. r \in missed'
        BY <1>0, <2>4, <3>4 DEF Presence!CClear
      <4> QED
        BY <3>2, <4>1
    <3>5. CASE r \notin pending \/ r \in active \union missed
      BY <1>4, <2>0, <3>0, <3>1, <3>2, <3>5
    <3> QED
      BY <3>3, <3>4, <3>5
  <2> QED
    BY <2>1, <2>2, <2>3, <2>4 DEF GoesOn
<1>8. Presence!OccupiedIsActive'
  BY <1>5, <1>7 DEF Presence!OccupiedIsActive
<1>9. Presence!CandidateUnlessForgotten'
  BY <1>6, <1>7 DEF Presence!CandidateUnlessForgotten
<1> QED
  BY <1>1, <1>2, <1>8, <1>9 DEF ExpiryInv, Presence!CandidatesKept

\* What a day leaves keeps its type.
LEMMA TickTypes ==
  ASSUME Presence!TypeOK, Presence!Tick
  PROVE  Presence!TypeOK' /\ UNCHANGED <<req, joined, missed>>
BY DEF Presence!TypeOK, Presence!Tick

\* When room:active expires, so have the members of every room it lists.
LEMMA ExpiryTick == ASSUME ExpiryInv, Presence!Tick PROVE ExpiryInv'
<1>1. Presence!TypeOK' /\ UNCHANGED <<req, joined, missed>>
  BY TickTypes DEF ExpiryInv
<1>2. MemberTTL \in Nat
  BY PartsAssumption DEF Presence!ExpiryAssumption
<1>3. /\ members' = [r \in Rooms |-> IF roomTTL[r] = 1 THEN {} ELSE members[r]]
      /\ active' = IF activeTTL = 1 THEN {} ELSE active
      /\ pending' = IF pendingTTL = 1 THEN {} ELSE pending
      /\ roomTTL' = [r \in Rooms |-> IF roomTTL[r] > 0 THEN roomTTL[r] - 1 ELSE 0]
      /\ activeTTL' = IF activeTTL > 0 THEN activeTTL - 1 ELSE 0
      /\ \A r \in active \union pending :
            r \in active' \union pending' \union forgotten'
      /\ forgotten \subseteq forgotten'
  BY DEF Presence!Tick, Presence!Expires, Presence!Left
<1>4. activeTTL \in Nat /\ \A r \in Rooms : roomTTL[r] \in Nat
  BY <1>2 DEF ExpiryInv, TTLInv
<1>5. TTLInv'
  <2>1. roomTTL' \in [Rooms -> 0..MemberTTL] /\ activeTTL' \in 0..MemberTTL
    BY <1>2, <1>3 DEF ExpiryInv, TTLInv
  <2>2. \A r \in Rooms : members'[r] # {} => roomTTL'[r] > 0
    BY <1>3, <1>4 DEF ExpiryInv, TTLInv
  <2>3. ASSUME NEW r \in active' PROVE roomTTL'[r] <= activeTTL'
    <3>1. r \in active /\ r \in Rooms
      BY <1>3, <2>3 DEF ExpiryInv, Presence!TypeOK
    <3>2. roomTTL[r] <= activeTTL /\ roomTTL[r] \in Nat
      BY <1>4, <3>1 DEF ExpiryInv, TTLInv
    <3> QED
      BY <1>3, <1>4, <3>1, <3>2
  <2> QED
    BY <2>1, <2>2, <2>3 DEF TTLInv
<1>6. \A s \in Rooms, L \in SUBSET {"del", "sadd"} :
        Presence!InFlight(s, L)' <=> Presence!InFlight(s, L)
  BY <1>1 DEF Presence!InFlight
<1>7. Presence!OccupiedIsActive'
  <2> SUFFICES ASSUME NEW r \in Rooms, members'[r] # {}
               PROVE  r \in active' \union missed \/ Presence!InFlight(r, {"del"})'
    BY <1>1 DEF Presence!OccupiedIsActive
  <2>1. members[r] # {} /\ roomTTL[r] # 1 /\ roomTTL[r] > 0
    BY <1>3 DEF ExpiryInv, TTLInv
  <2>2. CASE r \in active
    <3>1. roomTTL[r] <= activeTTL /\ activeTTL # 1
      BY <1>4, <2>1, <2>2 DEF ExpiryInv, TTLInv
    <3> QED
      BY <1>3, <2>2, <3>1
  <2>3. CASE r \in missed \/ Presence!InFlight(r, {"del"})
    BY <1>6, <2>3
  <2> QED
    BY <2>1, <2>2, <2>3 DEF ExpiryInv, Presence!CandidatesKept, Presence!OccupiedIsActive
<1>8. Presence!CandidateUnlessForgotten'
  BY <1>1, <1>3, <1>6
     DEF ExpiryInv, Presence!CandidatesKept, Presence!CandidateUnlessForgotten, Presence!TypeOK
<1> QED
  BY <1>1, <1>5, <1>7, <1>8 DEF ExpiryInv, Presence!CandidatesKept

\* Every step of the store keeps ExpiryInv, the days that pass included.
LEMMA ExpiryStep == ExpiryInv /\ [Presence!ENext]_presenceVars => ExpiryInv'
<1> SUFFICES ASSUME ExpiryInv, [Presence!ENext]_presenceVars PROVE ExpiryInv'
  OBVIOUS
<1>1. CASE Presence!Tick
  BY <1>1, ExpiryTick
<1>2. ASSUME NEW r \in Rooms, NEW u \in Users, Presence!EJoin(r, u) PROVE ExpiryInv'
  BY <1>2, ExpiryJoin
<1>3. ASSUME NEW q \in Reqs, NEW r \in Rooms, NEW u \in Users,
             Presence!EStep(Presence!CRemove(q, r, u))
      PROVE  ExpiryInv'
  BY <1>3, ExpiryStart DEF Presence!EStep
<1>4. ASSUME NEW q \in Reqs, NEW r \in Rooms,
             Presence!EStep(Presence!CDeleteRead(q, r)) \/ Presence!EStep(Presence!CCount(q, r))
      PROVE  ExpiryInv'
  BY <1>4, ExpiryStart DEF Presence!EStep
<1>5. ASSUME NEW q \in Reqs,
             \/ Presence!ERemoveStep(q) \/ Presence!EStep(Presence!CFails(q))
             \/ Presence!EStep(Presence!CDelete(q)) \/ Presence!EStep(Presence!CClear(q))
      PROVE  ExpiryInv'
  BY <1>5, ExpiryCommand DEF Presence!EStep, Presence!ERemoveStep, GoesOn
<1>6. CASE UNCHANGED presenceVars
  BY <1>6 DEF presenceVars, ExpiryInv, TTLInv, Presence!TypeOK, Presence!CandidatesKept,
              Presence!OccupiedIsActive, Presence!CandidateUnlessForgotten, Presence!InFlight
<1> QED
  BY <1>1, <1>2, <1>3, <1>4, <1>5, <1>6 DEF Presence!ENext

\* The keys are empty at first.
LEMMA PresenceInit ==
  Presence!EInit => /\ Presence!TypeOK /\ TTLInv /\ Presence!CandidatesKept
                    /\ \A r \in Rooms : members[r] = {}
<1>1. MemberTTL \in Nat
  BY PartsAssumption DEF Presence!ExpiryAssumption
<1> QED
  BY <1>1 DEF Presence!EInit, Presence!CInit, Presence!Init, Presence!TypeOK, TTLInv, Presence!CandidatesKept,
         Presence!OccupiedIsActive, Presence!CandidateUnlessForgotten

\* The cleanup's candidates under expiry, for any TTLs: no expiring key of a room's own
\* takes it out of both sets, and room:active never expires before the members it
\* lists.
THEOREM CandidatesAreKept == MCSpec => []CandidatesKept
<1> DEFINE Inv == part = "expiry" => ExpiryInv
<1>1. MCInit => Inv
  BY PresenceInit DEF MCInit, ExpiryInv
<1>2. Inv /\ [MCNext]_mcvars => Inv'
  <2> SUFFICES ASSUME Inv, [MCNext]_mcvars, part' = "expiry" PROVE ExpiryInv'
    OBVIOUS
  <2>1. part = "expiry" /\ [Presence!ENext]_presenceVars
    BY DEF MCNext, mcvars
  <2> QED
    BY <2>1, ExpiryStep
<1>3. Inv => CandidatesKept
  BY DEF CandidatesKept, ExpiryInv
<1> QED
  BY <1>1, <1>2, <1>3, PTL DEF MCSpec

\* The index entry of a user who has not lapsed names every room that lists him.
IndexInv ==
    /\ Presence!TypeOK
    /\ \A r \in Rooms, u \in Users : u \in members[r] => userRoom[u] = r \/ u \in lapsed

\* Where users leave only the room they are in, every step keeps it so.
LEMMA IndexStep == IndexInv /\ [Presence!EOwnNext]_presenceVars => IndexInv'
<1> SUFFICES ASSUME IndexInv, [Presence!EOwnNext]_presenceVars PROVE IndexInv'
  OBVIOUS
<1>0. NoRoom \notin Rooms
  BY PartsAssumption
<1>1. CASE Presence!Tick
  <2>1. Presence!TypeOK'
    BY <1>1, TickTypes DEF IndexInv
  <2>2. ASSUME NEW r \in Rooms, NEW u \in Users, u \in members'[r]
        PROVE  userRoom'[u] = r \/ u \in lapsed'
    <3>1. u \in members[r] /\ lapsed \subseteq lapsed'
      BY <1>1, <2>2 DEF Presence!Tick
    <3>2. CASE Presence!Expires(userTTL[u])
      BY <1>1, <2>2, <3>2 DEF Presence!Tick
    <3>3. CASE ~Presence!Expires(userTTL[u])
      <4>1. userRoom'[u] = userRoom[u]
        BY <1>1, <3>3 DEF Presence!Tick
      <4> QED
        BY <3>1, <4>1 DEF IndexInv
    <3> QED
      BY <3>2, <3>3
  <2> QED
    BY <2>1, <2>2 DEF IndexInv
<1>2. ASSUME NEW r \in Rooms, NEW u \in Users, Presence!EJoin(r, u) PROVE IndexInv'
  <2>1. Presence!TypeOK /\ Presence!JoinRoom(r, u) /\ lapsed' = lapsed
    BY <1>2 DEF IndexInv, Presence!EJoin, Presence!CJoin
  <2>2. /\ Presence!TypeOK' /\ userRoom' = [userRoom EXCEPT ![u] = r]
        /\ \A s \in Rooms \ {r} :
              members'[s] = IF s = userRoom[u] /\ s # NoRoom THEN members[s] \ {u} ELSE members[s]
    BY <2>1, JoinChanges
  <2>3. \A v \in Users \ {u} : v \in members'[r] => v \in members[r]
    BY <2>1 DEF Presence!JoinRoom, Presence!TypeOK
  <2>4. ASSUME NEW s \in Rooms, NEW v \in Users, v \in members'[s]
        PROVE  userRoom'[v] = s \/ v \in lapsed'
    <3>1. userRoom'[u] = r /\ \A w \in Users \ {u} : userRoom'[w] = userRoom[w]
      BY <2>1, <2>2 DEF Presence!TypeOK
    <3>2. CASE s = r
      BY <2>1, <2>3, <2>4, <3>1, <3>2 DEF IndexInv
    <3>3. CASE s # r
      BY <1>0, <2>1, <2>2, <2>4, <3>1, <3>3 DEF IndexInv
    <3> QED
      BY <3>2, <3>3
  <2> QED
    BY <2>2, <2>4 DEF IndexInv
<1>3. ASSUME NEW q \in Reqs, NEW r \in Rooms, NEW u \in Users, userRoom[u] = r,
             Presence!EStep(Presence!CRemove(q, r, u))
      PROVE  IndexInv'
  <2>1. Presence!CRemove(q, r, u) /\ lapsed' = lapsed
    BY <1>3 DEF Presence!EStep, Presence!KeepTTLs
  <2>2. Presence!TypeOK'
    BY <2>1, StartChanges DEF IndexInv
  <2> QED
    BY <1>3, <2>1, <2>2 DEF IndexInv, Presence!CRemove, Presence!RemoveMember, Presence!TypeOK
<1>4. ASSUME NEW q \in Reqs, NEW r \in Rooms, Presence!EStep(Presence!CCount(q, r))
      PROVE  IndexInv'
  <2>1. Presence!CCount(q, r) /\ lapsed' = lapsed
    BY <1>4 DEF Presence!EStep, Presence!KeepTTLs
  <2>2. Presence!TypeOK'
    BY <2>1, StartChanges DEF IndexInv
  <2> QED
    BY <2>1, <2>2 DEF IndexInv, Presence!CCount, Presence!CountMembers, Presence!keys
<1>5. ASSUME NEW q \in Reqs,
             \/ Presence!ERemoveStep(q) \/ Presence!EStep(Presence!CFails(q))
             \/ Presence!EStep(Presence!CClear(q))
      PROVE  IndexInv'
  <2>1. (Presence!CStep(q) \/ Presence!CFails(q) \/ Presence!CClear(q)) /\ lapsed' = lapsed
    BY <1>5 DEF Presence!EStep, Presence!ERemoveStep, Presence!KeepTTLs
  <2>2. GoesOn(q) /\ userRoom' = userRoom
    BY <2>1 DEF GoesOn, Presence!CStep, Presence!RemoveStep, Presence!RemoveCount,
                Presence!RemoveDeactivate, Presence!RemoveKey, Presence!RemoveMark,
                Presence!CFails, Presence!CommandFails, Presence!CClear,
                Presence!ClearPendingEmpty, Presence!keys
  <2> QED
    BY <2>1, <2>2, CommandChanges DEF IndexInv
<1>6. CASE UNCHANGED presenceVars
  BY <1>6 DEF presenceVars, IndexInv, Presence!TypeOK
<1> QED
  BY <1>1, <1>2, <1>3, <1>4, <1>5, <1>6 DEF Presence!EOwnNext

\* With own-room leaves a user is in two rooms only if the index entry expired before
\* the room that lists the user did, for any TTLs.
THEOREM OneRoomStaysUnlessLapsed == MCSpec => []OneRoomUnlessLapsed
<1> DEFINE Inv == part = "own_expiry" => IndexInv
<1>1. MCInit => Inv
  BY PresenceInit DEF MCInit, IndexInv
<1>2. Inv /\ [MCNext]_mcvars => Inv'
  <2> SUFFICES ASSUME Inv, [MCNext]_mcvars, part' = "own_expiry" PROVE IndexInv'
    OBVIOUS
  <2>1. part = "own_expiry" /\ [Presence!EOwnNext]_presenceVars
    BY DEF MCNext, mcvars
  <2> QED
    BY <2>1, IndexStep
<1>3. Inv => OneRoomUnlessLapsed
  BY DEF OneRoomUnlessLapsed, Presence!OneRoomUnlessLapsed, IndexInv
<1> QED
  BY <1>1, <1>2, <1>3, PTL DEF MCSpec

----------------------------------------------------------------------------
(* The rate limit of the chat.                                             *)

\* The messages allowed under the key there is, which are the last ones; the first of
\* them made the key.
Used == IF count < PerSecond THEN count ELSE PerSecond
Made == sent[Len(sent) - Used + 1]

RateTypes ==
    /\ now \in Nat \ {0} /\ count \in Nat /\ expiry \in Nat
    /\ call \in [Calls -> Nat]
    /\ sent \in Seq(Nat) /\ Used <= Len(sent)
    /\ \A i \in 1..Len(sent) : sent[i] <= now
    /\ \A i, j \in 1..Len(sent) : i <= j => sent[i] <= sent[j]

\* A key lives for at least a second, so that whoever is a window behind the one
\* before is a second behind.
SpacedInv ==
    /\ expiry # 0 => count > 0 /\ now < expiry /\ Made + Second <= expiry
    /\ \A i \in 1..Len(sent) : i + PerSecond <= Len(sent) - Used =>
            sent[i] + Second <= IF count = 0 THEN now ELSE Made
    /\ \A i \in 1..Len(sent) : i + 2 * PerSecond <= Len(sent) =>
            sent[i] + Second <= sent[i + 2 * PerSecond]

\* And unless an EXPIRE is lost or on its way it lives no longer than that and a wait.
ExpiresInv ==
    /\ \A c \in Calls : call[c] # 0 =>
            /\ call[c] <= now /\ now <= call[c] + MaxWait
            /\ count > 0 => call[c] <= Made
    /\ expiry # 0 => expiry <= Made + MaxWait + Second
    /\ count > 0 => expiry # 0 \/ lost \/ \E c \in Calls : call[c] # 0

RateInv == RateTypes /\ SpacedInv /\ ExpiresInv

LEMMA RateConstants == PerSecond \in Nat \ {0} /\ Second \in Nat \ {0} /\ MaxWait \in Nat
BY PartsAssumption DEF Rate!RateAssumption

\* Until the first message there is nothing to limit.
LEMMA RateInit == Rate!Init => RateInv
<1> SUFFICES ASSUME Rate!Init PROVE RateInv
  OBVIOUS
<1>1. now = 1 /\ count = 0 /\ expiry = 0 /\ lost = FALSE /\ sent = <<>> /\ call = [c \in Calls |-> 0]
  BY DEF Rate!Init
<1>2. Used = 0 /\ Len(sent) = 0 /\ sent \in Seq(Nat)
  BY <1>1, RateConstants DEF Used
<1>3. RateTypes
  BY <1>1, <1>2 DEF RateTypes
<1>4. SpacedInv /\ ExpiresInv
  BY <1>1, <1>2, RateConstants DEF SpacedInv, ExpiresInv
<1> QED
  BY <1>3, <1>4 DEF RateInv

\* INCR: the messages of the window before are a second away from the new one.
LEMMA RateIncr ==
  ASSUME RateInv, NEW c \in Calls, Rate!Incr(c)
  PROVE  RateInv'
<1> USE RateConstants
<1> DEFINE n == Len(sent)
<1>1. /\ call[c] = 0 /\ count' = count + 1 /\ now' = now /\ expiry' = expiry /\ lost' = lost
      /\ call' = [call EXCEPT ![c] = IF count = 0 THEN now ELSE 0]
      /\ sent' = IF count < PerSecond THEN Append(sent, now) ELSE sent
  BY DEF Rate!Incr
<1>2. /\ now \in Nat \ {0} /\ count \in Nat /\ expiry \in Nat /\ sent \in Seq(Nat) /\ n \in Nat
      /\ call \in [Calls -> Nat]
  BY DEF RateInv, RateTypes
<1>3. CASE count >= PerSecond
  <2>1. sent' = sent /\ Used' = Used /\ Made' = Made
    BY <1>1, <1>2, <1>3 DEF Used, Made
  <2>2. call' = call
    BY <1>1, <1>2, <1>3
  <2> QED
    BY <1>1, <1>2, <1>3, <2>1, <2>2 DEF RateInv, RateTypes, SpacedInv, ExpiresInv
<1>4. CASE count < PerSecond
  <2>1. /\ sent' = Append(sent, now) /\ sent' \in Seq(Nat) /\ Len(sent') = n + 1
        /\ sent'[n + 1] = now /\ \A i \in 1..n : sent'[i] = sent[i]
    BY <1>1, <1>2, <1>4
  <2>2. Used = count /\ Used' = count + 1
    BY <1>1, <1>2, <1>4 DEF Used
  <2>3. Made' = sent'[n - count + 1] /\ Made = sent[n - count + 1]
    <3>1. Len(sent') - Used' + 1 = n - count + 1
      BY <1>2, <2>1, <2>2
    <3> QED
      BY <2>2, <3>1 DEF Made
  <2>4. count <= n
    BY <2>2 DEF RateInv, RateTypes
  <2>5. Made' = IF count = 0 THEN now ELSE Made
    BY <1>2, <2>1, <2>3, <2>4
  <2>6. Made' <= now /\ Made' \in Nat
    BY <1>2, <2>1, <2>3, <2>4 DEF RateInv, RateTypes
  <2>7. RateTypes'
    <3>1. \A i \in 1..(n + 1) : sent'[i] <= now'
      BY <1>1, <1>2, <2>1 DEF RateInv, RateTypes
    <3>2. \A i, j \in 1..(n + 1) : i <= j => sent'[i] <= sent'[j]
      BY <1>1, <1>2, <2>1, <3>1 DEF RateInv, RateTypes
    <3>3. call' \in [Calls -> Nat]
      BY <1>1, <1>2 DEF RateInv, RateTypes
    <3> QED
      BY <1>1, <1>2, <2>1, <2>2, <2>4, <3>1, <3>2, <3>3 DEF RateTypes
  <2>8. SpacedInv'
    <3>1. expiry' # 0 => count' > 0 /\ now' < expiry' /\ Made' + Second <= expiry'
      BY <1>1, <1>2, <2>5 DEF RateInv, SpacedInv
    <3>2. \A i \in 1..n : i + PerSecond <= n - count =>
            sent[i] + Second <= IF count = 0 THEN now ELSE Made
      BY <2>2 DEF RateInv, SpacedInv
    <3>3. ASSUME NEW i \in 1..(n + 1), i + PerSecond <= (n + 1) - (count + 1)
          PROVE  sent'[i] + Second <= Made'
      BY <1>2, <2>1, <2>5, <3>2, <3>3
    <3>4. ASSUME NEW i \in 1..(n + 1), i + 2 * PerSecond <= n + 1
          PROVE  sent'[i] + Second <= sent'[i + 2 * PerSecond]
      <4>1. CASE i + 2 * PerSecond <= n
        BY <1>2, <2>1, <3>4, <4>1 DEF RateInv, SpacedInv
      <4>2. CASE i + 2 * PerSecond = n + 1
        <5>1. i \in 1..n /\ i + PerSecond <= n - count /\ sent'[i] = sent[i] /\ sent[i] \in Nat
          BY <1>2, <1>4, <2>1, <3>4, <4>2
        <5>2. sent[i] + Second <= Made'
          BY <2>5, <3>2, <5>1
        <5> QED
          BY <1>2, <2>1, <2>6, <4>2, <5>1, <5>2, SMTT(20)
      <4> QED
        BY <1>2, <3>4, <4>1, <4>2
    <3> QED
      BY <1>1, <1>2, <2>1, <2>2, <3>1, <3>3, <3>4, SMTT(20) DEF SpacedInv
  <2>9. ExpiresInv'
    <3>1. ASSUME NEW d \in Calls, call'[d] # 0
          PROVE  call'[d] <= now' /\ now' <= call'[d] + MaxWait /\ call'[d] <= Made'
      <4>1. \A e \in Calls : call[e] # 0 => /\ call[e] <= now /\ now <= call[e] + MaxWait
                                            /\ count > 0 => call[e] <= Made
        BY DEF RateInv, ExpiresInv
      <4>2. \A e \in Calls : call[e] # 0 => call[e] \in Nat
        BY <1>2
      <4>3. call'[d] = call[d] \/ (call'[d] = now /\ count = 0)
        BY <1>1, <1>2, <3>1
      <4> QED
        BY <1>1, <1>2, <2>5, <3>1, <4>1, <4>2, <4>3
    <3>2. expiry' # 0 => expiry' <= Made' + MaxWait + Second
      BY <1>1, <1>2, <2>5 DEF RateInv, SpacedInv, ExpiresInv
    <3>3. expiry' # 0 \/ lost' \/ \E d \in Calls : call'[d] # 0
      <4>1. CASE count = 0
        BY <1>1, <1>2, <4>1
      <4>2. CASE count # 0
        <5>1. expiry # 0 \/ lost \/ \E d \in Calls : call[d] # 0
          BY <1>2, <4>2 DEF RateInv, ExpiresInv
        <5> QED
          BY <1>1, <1>2, <4>2, <5>1
      <4> QED
        BY <4>1, <4>2
    <3> QED
      BY <3>1, <3>2, <3>3 DEF ExpiresInv
  <2> QED
    BY <2>7, <2>8, <2>9 DEF RateInv
<1> QED
  BY <1>2, <1>3, <1>4

\* EXPIRE, in time or not at all; a late one meets a key that a later INCR made.
LEMMA RateExpire ==
  ASSUME RateInv, NEW c \in Calls, Rate!Expire(c) \/ Rate!ExpireFails(c)
  PROVE  RateInv'
<1> USE RateConstants
<1>1. /\ call[c] # 0 /\ call' = [call EXCEPT ![c] = 0]
      /\ now' = now /\ count' = count /\ sent' = sent
      /\ \/ expiry' = expiry /\ lost'
         \/ expiry' = (IF count = 0 THEN 0 ELSE now + Second) /\ lost' = lost
  BY DEF Rate!Expire, Rate!ExpireFails
<1>2. Used' = Used /\ Made' = Made
  BY <1>1 DEF Used, Made
<1>3. now \in Nat \ {0} /\ count \in Nat /\ expiry \in Nat /\ call \in [Calls -> Nat]
  BY DEF RateInv, RateTypes
<1>4. count > 0 => Made \in Nat /\ Made <= now
  <2>1. Used <= Len(sent) /\ sent \in Seq(Nat) /\ (count > 0 => Used > 0 /\ Used \in Nat)
    BY <1>3 DEF RateInv, RateTypes, Used
  <2>2. count > 0 => Len(sent) - Used + 1 \in 1..Len(sent)
    BY <2>1
  <2> QED
    BY <2>1, <2>2 DEF RateInv, RateTypes, Made
<1>5. RateTypes'
  BY <1>1, <1>2, <1>3 DEF RateInv, RateTypes
<1>6. \A d \in Calls : call'[d] # 0 => call'[d] = call[d]
  BY <1>1, <1>3
<1>7. now <= call[c] + MaxWait /\ (count > 0 => call[c] <= Made) /\ call[c] \in Nat
  BY <1>1, <1>3 DEF RateInv, ExpiresInv
<1>8. SpacedInv'
  <2>1. expiry' # 0 => count' > 0 /\ now' < expiry' /\ Made' + Second <= expiry'
    BY <1>1, <1>2, <1>3, <1>4 DEF RateInv, SpacedInv
  <2> QED
    BY <1>1, <1>2, <2>1 DEF RateInv, SpacedInv
<1>9. ExpiresInv'
  <2>1. expiry' # 0 => expiry' <= Made' + MaxWait + Second
    BY <1>1, <1>2, <1>3, <1>4, <1>7 DEF RateInv, ExpiresInv
  <2>2. count' > 0 => expiry' # 0 \/ lost'
    BY <1>1, <1>3
  <2> QED
    BY <1>1, <1>2, <1>6, <2>1, <2>2 DEF RateInv, ExpiresInv
<1> QED
  BY <1>5, <1>8, <1>9 DEF RateInv

\* The clock: a key that goes was made a second ago.
LEMMA RateTick == ASSUME RateInv, Rate!Tick PROVE RateInv'
<1> USE RateConstants
<1> DEFINE gone == expiry # 0 /\ now + 1 >= expiry
           n == Len(sent)
<1>1. /\ now' = now + 1 /\ call' = call /\ sent' = sent /\ lost' = lost
      /\ count' = (IF gone THEN 0 ELSE count) /\ expiry' = (IF gone THEN 0 ELSE expiry)
      /\ \A c \in Calls : call[c] # 0 => now < call[c] + MaxWait
  BY DEF Rate!Tick
<1>2. /\ now \in Nat \ {0} /\ count \in Nat /\ expiry \in Nat /\ call \in [Calls -> Nat]
      /\ sent \in Seq(Nat) /\ n \in Nat /\ Used <= n /\ Used \in 0..PerSecond
  BY DEF RateInv, RateTypes, Used
<1>3. CASE gone
  <2>1. count' = 0 /\ expiry' = 0 /\ Used' = 0
    BY <1>1, <1>3 DEF Used
  <2>2. Used > 0 /\ Made + Second <= now + 1
    <3>1. count > 0 /\ Made + Second <= expiry
      BY <1>3 DEF RateInv, SpacedInv
    <3>2. n - Used + 1 \in 1..n
      BY <1>2, <3>1 DEF Used
    <3>3. Made \in Nat
      BY <1>2, <3>2 DEF Made
    <3> QED
      BY <1>2, <1>3, <3>1, <3>3 DEF Used
  <2>3. RateTypes'
    BY <1>1, <1>2, <2>1 DEF RateInv, RateTypes
  <2>4. ASSUME NEW i \in 1..n, i + PerSecond <= n
        PROVE  sent[i] + Second <= now + 1
    <3>1. n - Used + 1 \in 1..n /\ i <= n - Used + 1
      BY <1>2, <2>2, <2>4
    <3>2. sent[i] <= Made /\ sent[i] \in Nat /\ Made \in Nat
      BY <1>2, <3>1 DEF RateInv, RateTypes, Made
    <3> QED
      BY <1>2, <2>2, <3>2
  <2>5. SpacedInv'
    BY <1>1, <1>2, <2>1, <2>4 DEF RateInv, SpacedInv
  <2>6. ExpiresInv'
    BY <1>1, <1>2, <2>1 DEF RateInv, ExpiresInv
  <2> QED
    BY <2>3, <2>5, <2>6 DEF RateInv
<1>4. CASE ~gone
  <2>1. count' = count /\ expiry' = expiry /\ Used' = Used /\ Made' = Made
    BY <1>1, <1>4 DEF Used, Made
  <2>2. RateTypes'
    BY <1>1, <1>2, <2>1 DEF RateInv, RateTypes
  <2>3. SpacedInv'
    <3>1. ASSUME NEW i \in 1..n, i + PerSecond <= n - Used
          PROVE  sent[i] + Second <= IF count = 0 THEN now' ELSE Made
      BY <1>1, <1>2, <3>1 DEF RateInv, SpacedInv
    <3>2. expiry # 0 => now' < expiry
      BY <1>1, <1>2, <1>4
    <3> QED
      BY <1>1, <1>2, <2>1, <3>1, <3>2 DEF RateInv, SpacedInv
  <2>4. ExpiresInv'
    BY <1>1, <1>2, <2>1 DEF RateInv, ExpiresInv
  <2> QED
    BY <2>2, <2>3, <2>4 DEF RateInv
<1> QED
  BY <1>3, <1>4

\* A set of natural numbers that is not empty has a smallest member.
LEMMA SmallestExists ==
  ASSUME NEW S \in SUBSET Nat, S # {}
  PROVE  \E i \in S : \A j \in S : i <= j
<1>1. IsWellFoundedOn(OpToRel(<, Nat), Nat)
  BY NatLessThanWellFounded
<1> DEFINE Less == OpToRel(<, Nat)
<1>2. \A i, j \in Nat : <<j, i>> \in Less <=> j < i
  BY DEF OpToRel
<1> HIDE DEF Less
<1>3. PICK i \in S : \A j \in S : ~(<<j, i>> \in Less)
  BY <1>1, WFMin DEF Less
<1>4. ASSUME NEW j \in S PROVE i <= j
  <2>1. i \in Nat /\ j \in Nat /\ ~(j < i)
    BY <1>2, <1>3
  <2> QED
    BY <2>1
<1> QED
  BY <1>4

\* ChatRate counts as FiniteSets does.
LEMMA RateCardinality == \A S : Rate!Cardinality(S) = Cardinality(S)
BY DEF Rate!Cardinality, Cardinality

\* A second holds two windows' worth of messages at most, and one without any message
\* ends with a fresh window.
LEMMA RateInvImplies == RateInv => Rate!RateKept
<1> SUFFICES ASSUME RateInv PROVE Rate!RateKept
  OBVIOUS
<1> USE RateConstants
<1>1. sent \in Seq(Nat) /\ Len(sent) \in Nat /\ DOMAIN sent = 1..Len(sent)
      /\ \A i \in 1..Len(sent) : sent[i] \in Nat
  BY DEF RateInv, RateTypes
<1>2. ASSUME NEW k \in DOMAIN sent
      PROVE  Cardinality(Rate!SentWithin(sent[k], sent[k] + Second)) <= 2 * PerSecond
  <2> DEFINE S == Rate!SentWithin(sent[k], sent[k] + Second)
  <2>1. S \subseteq 1..Len(sent) /\ k \in S
    BY <1>1, <1>2 DEF Rate!SentWithin
  <2>2. PICK a \in S : \A j \in S : a <= j
    <3>1. S \in SUBSET Nat /\ S # {}
      BY <1>1, <2>1
    <3> HIDE DEF S
    <3> QED
      BY <3>1, SmallestExists
  <2>3. \A j \in S : j < a + 2 * PerSecond
    <3> SUFFICES ASSUME NEW j \in S, j >= a + 2 * PerSecond PROVE FALSE
      BY <1>1, <2>1
    <3>1. a \in 1..Len(sent) /\ j \in 1..Len(sent) /\ a + 2 * PerSecond \in 1..Len(sent)
      BY <1>1, <2>1
    <3>2. sent[a] + Second <= sent[a + 2 * PerSecond]
      BY <3>1 DEF RateInv, SpacedInv
    <3>3. sent[a + 2 * PerSecond] <= sent[j]
      BY <3>1 DEF RateInv, RateTypes
    <3>4. sent[k] <= sent[a] /\ sent[j] < sent[k] + Second
      BY DEF Rate!SentWithin
    <3>5. sent[k] \in Nat /\ sent[a] \in Nat /\ sent[j] \in Nat /\ sent[a + 2 * PerSecond] \in Nat
      BY <1>1, <1>2, <3>1
    <3> QED
      BY <3>2, <3>3, <3>4, <3>5
  <2>4. a \in Nat /\ S \subseteq a..(a + 2 * PerSecond - 1)
    BY <1>1, <2>1, <2>2, <2>3
  <2> HIDE DEF S
  <2>5. IsFiniteSet(a..(a + 2 * PerSecond - 1)) /\ Cardinality(a..(a + 2 * PerSecond - 1)) = 2 * PerSecond
    BY <2>4, FS_Interval
  <2>6. Cardinality(S) <= 2 * PerSecond
    BY <2>4, <2>5, FS_Subset
  <2> QED
    BY <2>6 DEF S
<1>3. Rate!BurstBound
  BY <1>2, RateCardinality DEF Rate!BurstBound
<1>4. Rate!RefusalPasses
  <2> SUFFICES ASSUME Rate!Idle, count # 0, ~lost PROVE FALSE
    BY DEF Rate!RefusalPasses
  <2>1. count \in Nat /\ now \in Nat /\ count > 0 /\ expiry \in Nat
    BY DEF RateInv, RateTypes
  <2>2. expiry # 0
    BY <2>1 DEF RateInv, ExpiresInv, Rate!Idle
  <2>3. now < expiry /\ expiry <= Made + MaxWait + Second
    BY <2>2 DEF RateInv, SpacedInv, ExpiresInv
  <2>4. Len(sent) - Used + 1 \in DOMAIN sent
    BY <1>1, <2>1 DEF RateInv, RateTypes, Used
  <2>5. Made \in Nat /\ Made <= now
    BY <1>1, <2>4 DEF RateInv, RateTypes, Made
  <2>6. now - Second - MaxWait <= Made /\ Made < now + 1
    BY <2>1, <2>3, <2>5
  <2>7. Len(sent) - Used + 1 \in Rate!SentWithin(now - Second - MaxWait, now + 1)
    BY <2>4, <2>6 DEF Rate!SentWithin, Made
  <2> QED
    BY <2>7 DEF Rate!Idle
<1> QED
  BY <1>3, <1>4 DEF Rate!RateKept

\* AllowChatSend allows neither too many messages nor, once the second is over, too few,
\* for any limit, any number of servers and any delay between INCR and EXPIRE.
THEOREM RateIsKept == MCSpec => []RateKept
<1>1. MCInit => RateInv
  BY RateInit DEF MCInit
<1>2. RateInv /\ [MCNext]_mcvars => RateInv'
  <2> SUFFICES ASSUME RateInv, [MCNext]_mcvars PROVE RateInv'
    OBVIOUS
  <2>1. Rate!Next \/ UNCHANGED rateVars
    BY DEF MCNext, mcvars
  <2>2. CASE Rate!Next
    BY <2>2, RateIncr, RateExpire, RateTick DEF Rate!Next
  <2>3. CASE UNCHANGED rateVars
    BY <2>3 DEF rateVars, RateInv, RateTypes, SpacedInv, ExpiresInv, Used, Made
  <2> QED
    BY <2>1, <2>2, <2>3
<1>3. RateInv => RateKept
  BY RateInvImplies DEF RateKept
<1> QED
  BY <1>1, <1>2, <1>3, PTL DEF MCSpec

----------------------------------------------------------------------------
(* The limits of send-code.                                                *)

Window == Win - MaxWait

LimitTypes ==
    /\ limitNow \in Nat /\ limitNow >= Interval /\ lastHit \in Nat
    /\ limitReq \in [Calls -> {Sends!Idle} \union [pc : {"lock", "fake"}, at : Nat]]
    /\ passed \in Seq(Nat) /\ \A i \in 1..Len(passed) : passed[i] <= limitNow
    /\ answered \in Seq(Nat) /\ \A i \in 1..Len(answered) : answered[i] <= limitNow
    /\ \A r \in Calls : limitReq[r].pc = "lock" =>
            limitReq[r].at <= limitNow /\ limitNow <= limitReq[r].at + MaxWait

\* Whoever was let through within the window less a wait is remembered, with a stamp
\* that is at most a wait old; who is remembered was let through.
KeptInv ==
    /\ \A i \in DOMAIN hits : i \in 1..Len(passed) /\ hits[i] \in Nat /\ hits[i] <= passed[i]
    /\ \A i \in 1..Len(passed) : passed[i] + Window > limitNow =>
            i \in DOMAIN hits /\ passed[i] <= hits[i] + MaxWait

\* regLastHit is the time of the last answer, and answers are an interval apart.
SpacingInv ==
    /\ answered = <<>> => lastHit = 0
    /\ answered # <<>> => lastHit = answered[Len(answered)]
    /\ \A i, j \in 1..Len(answered) : i < j => answered[i] + Interval <= answered[j]

PassedInv ==
    \A i \in 1..Len(passed) :
        Cardinality(Sends!Within(passed, passed[i], passed[i] + Win - MaxWait)) <= Limit

LimitInv == LimitTypes /\ KeptInv /\ SpacingInv /\ PassedInv

\* SendLimit counts as FiniteSets does.
LEMMA SendsCardinality == \A S : Sends!Cardinality(S) = Cardinality(S)
BY DEF Sends!Cardinality, Cardinality

LEMMA LimitConstants ==
  Limit \in Nat \ {0} /\ Win \in Nat \ {0} /\ Interval \in Nat \ {0} /\ MaxWait \in Nat
BY PartsAssumption DEF Sends!LimitAssumption

\* Nothing is remembered at first.
LEMMA LimitInit == Sends!Init => LimitInv
<1> SUFFICES ASSUME Sends!Init PROVE LimitInv
  OBVIOUS
<1>1. /\ limitNow = Interval /\ hits = <<>> /\ lastHit = 0 /\ limitReq = [r \in Calls |-> Sends!Idle]
      /\ passed = <<>> /\ answered = <<>>
  BY DEF Sends!Init
<1>2. Len(passed) = 0 /\ Len(answered) = 0 /\ DOMAIN hits = {} /\ passed \in Seq(Nat) /\ answered \in Seq(Nat)
  BY <1>1
<1>3. LimitTypes
  BY <1>1, <1>2, LimitConstants DEF LimitTypes, Sends!Idle
<1> QED
  BY <1>1, <1>2, <1>3 DEF LimitInv, KeptInv, SpacingInv, PassedInv

\* A call reads the clock, or the clock moves.
LEMMA LimitTime ==
  ASSUME LimitInv, Sends!Tick \/ \E r \in Calls : Sends!allowStamp(r)
  PROVE  LimitInv'
<1> USE LimitConstants
<1>1. UNCHANGED <<hits, lastHit, passed, answered>>
  BY DEF Sends!Tick, Sends!allowStamp
<1>2. CASE Sends!Tick
  <2>1. /\ limitNow' = limitNow + 1 /\ limitReq' = limitReq
        /\ \A r \in Calls : limitReq[r].pc = "lock" => limitNow < limitReq[r].at + MaxWait
    BY <1>2 DEF Sends!Tick
  <2>2. \A r \in Calls : limitReq[r].pc = "lock" => limitReq[r].at \in Nat
    BY DEF LimitInv, LimitTypes, Sends!Idle
  <2>3. LimitTypes'
    BY <1>1, <2>1, <2>2 DEF LimitInv, LimitTypes
  <2>4. KeptInv'
    BY <1>1, <2>1 DEF LimitInv, LimitTypes, KeptInv, Window
  <2> QED
    BY <1>1, <2>3, <2>4 DEF LimitInv, SpacingInv, PassedInv, Sends!Within
<1>3. ASSUME NEW r \in Calls, Sends!allowStamp(r) PROVE LimitInv'
  <2>1. limitNow' = limitNow /\ limitReq' = [limitReq EXCEPT ![r] = [pc |-> "lock", at |-> limitNow]]
    BY <1>3 DEF Sends!allowStamp
  <2>2. LimitTypes'
    BY <1>1, <2>1 DEF LimitInv, LimitTypes
  <2> QED
    BY <1>1, <2>1, <2>2 DEF LimitInv, KeptInv, SpacingInv, PassedInv, Sends!Within
<1> QED
  BY <1>2, <1>3

\* The calls within a stretch of a history are finitely many.
LEMMA WithinFinite ==
  ASSUME NEW h \in Seq(Nat), NEW a, NEW b
  PROVE  IsFiniteSet(Sends!Within(h, a, b)) /\ Sends!Within(h, a, b) \subseteq 1..Len(h)
<1>1. IsFiniteSet(1..Len(h))
  BY FS_Interval
<1>2. Sends!Within(h, a, b) \subseteq 1..Len(h)
  BY DEF Sends!Within
<1> QED
  BY <1>1, <1>2, FS_Subset

\* allow lets a call through: with the calls kept it is at most Limit calls, and those
\* kept are all that were let through in the window less a wait.
LEMMA LimitPass ==
  ASSUME LimitInv, NEW r \in Calls, Sends!allow(r), passed' # passed
  PROVE  LimitInv'
<1> USE LimitConstants
<1> DEFINE t == limitReq[r].at
           k == Sends!kept(t)
           n == Len(passed) + 1
<1>1. /\ limitReq[r].pc = "lock" /\ ~(Cardinality(k) >= Limit)
      /\ hits' = [i \in k \union {n} |-> IF i = n THEN t ELSE hits[i]]
      /\ passed' = Append(passed, limitNow)
      /\ limitReq' = [limitReq EXCEPT ![r] = [pc |-> "fake", at |-> 0]]
      /\ UNCHANGED <<limitNow, lastHit, answered>>
  BY SendsCardinality DEF Sends!allow
<1>2. /\ t \in Nat /\ t <= limitNow /\ limitNow <= t + MaxWait /\ limitNow \in Nat
      /\ passed \in Seq(Nat) /\ n \in Nat /\ Len(passed) \in Nat
  BY <1>1 DEF LimitInv, LimitTypes, Sends!Idle
<1>3. k \subseteq DOMAIN hits /\ k \subseteq 1..Len(passed) /\ \A i \in DOMAIN hits : i \in k <=> hits[i] > t - Win
  BY DEF Sends!kept, LimitInv, KeptInv
<1> HIDE DEF k
<1>4. IsFiniteSet(k) /\ Cardinality(k) \in Nat
  <2>1. IsFiniteSet(1..Len(passed))
    BY <1>2, FS_Interval
  <2> QED
    BY <1>3, <2>1, FS_Subset, FS_CardinalityType
<1>5. IsFiniteSet(k \union {n}) /\ Cardinality(k \union {n}) <= Limit
  <2>1. n \notin k
    BY <1>2, <1>3
  <2>2. IsFiniteSet(k \union {n}) /\ Cardinality(k \union {n}) = Cardinality(k) + 1
    BY <1>4, <2>1, FS_AddElement
  <2> QED
    BY <1>1, <1>4, <2>2
<1>6. /\ passed' \in Seq(Nat) /\ Len(passed') = n /\ passed'[n] = limitNow
      /\ \A i \in 1..Len(passed) : passed'[i] = passed[i] /\ passed[i] \in Nat
  BY <1>1, <1>2
<1>7. LimitTypes'
  BY <1>1, <1>2, <1>6 DEF LimitInv, LimitTypes
<1>8. KeptInv'
  <2>1. DOMAIN hits' = k \union {n} /\ hits'[n] = t /\ \A i \in k : hits'[i] = hits[i]
    BY <1>1, <1>2, <1>3
  <2>2. \A i \in DOMAIN hits' : i \in 1..n /\ hits'[i] \in Nat /\ hits'[i] <= passed'[i]
    <3>1. ASSUME NEW i \in k PROVE i \in 1..n /\ hits'[i] \in Nat /\ hits'[i] <= passed'[i]
      <4>1. i \in 1..Len(passed) /\ hits[i] \in Nat /\ hits[i] <= passed[i]
        BY <1>3 DEF LimitInv, KeptInv
      <4> QED
        BY <1>2, <1>6, <2>1, <4>1
    <3>2. n \in 1..n /\ hits'[n] \in Nat /\ hits'[n] <= passed'[n]
      BY <1>2, <1>6, <2>1
    <3> QED
      BY <2>1, <3>1, <3>2
  <2>3. ASSUME NEW i \in 1..n, passed'[i] + Window > limitNow
        PROVE  i \in DOMAIN hits' /\ passed'[i] <= hits'[i] + MaxWait
    <3>1. CASE i = n
      BY <1>2, <1>6, <2>1, <3>1
    <3>2. CASE i # n
      <4>1. i \in 1..Len(passed) /\ passed'[i] = passed[i] /\ passed[i] \in Nat
        BY <1>2, <1>6, <3>2
      <4>2. i \in DOMAIN hits /\ passed[i] <= hits[i] + MaxWait /\ hits[i] \in Nat
        BY <2>3, <4>1 DEF LimitInv, KeptInv
      <4>3. hits[i] > t - Win
        <5>1. passed[i] + (Win - MaxWait) > limitNow
          BY <2>3, <4>1 DEF Window
        <5> HIDE DEF t
        <5> QED
          BY <1>2, <4>1, <4>2, <5>1
      <4> QED
        BY <1>3, <2>1, <4>1, <4>2, <4>3
    <3> QED
      BY <3>1, <3>2
  <2> QED
    BY <1>1, <1>6, <2>2, <2>3 DEF KeptInv
<1>9. PassedInv'
  <2> SUFFICES ASSUME NEW i \in 1..n
               PROVE  Cardinality(Sends!Within(passed', passed'[i], passed'[i] + Win - MaxWait)) <= Limit
    BY <1>6 DEF PassedInv, Sends!Within
  <2> DEFINE S == Sends!Within(passed', passed'[i], passed'[i] + Win - MaxWait)
  <2>0. passed'[i] \in Nat
    BY <1>2, <1>6
  <2>1. CASE passed'[i] + Window > limitNow
    <3>1. ASSUME NEW j \in S PROVE j \in k \union {n}
      <4>1. j \in 1..n /\ passed'[i] <= passed'[j] /\ passed'[j] \in Nat
        BY <1>6, <3>1 DEF Sends!Within
      <4>2. passed'[j] + Window > limitNow
        BY <1>2, <2>0, <2>1, <4>1 DEF Window
      <4>3. j \in DOMAIN hits'
        BY <1>1, <1>6, <1>8, <4>1, <4>2 DEF KeptInv
      <4> QED
        BY <1>1, <4>3
    <3>2. S \subseteq k \union {n}
      BY <3>1
    <3> HIDE DEF S
    <3>3. Cardinality(S) <= Cardinality(k \union {n}) /\ Cardinality(S) \in Nat
      BY <1>5, <3>2, FS_Subset, FS_CardinalityType
    <3>4. Cardinality(k \union {n}) \in Nat
      BY <1>5, FS_CardinalityType
    <3>5. Cardinality(S) <= Limit
      BY <1>5, <3>3, <3>4
    <3> QED
      BY <3>5 DEF S
  <2>2. CASE ~(passed'[i] + Window > limitNow)
    <3>1. n \notin S
      BY <1>2, <1>6, <2>0, <2>2 DEF Sends!Within, Window
    <3>2. CASE i = n
      <4>1. S = {}
        BY <1>2, <1>6, <2>0, <2>2, <3>2 DEF Sends!Within, Window
      <4>2. Cardinality({}) <= Limit
        BY FS_EmptySet
      <4> QED
        BY <4>1, <4>2
    <3>3. CASE i # n
      <4>1. i \in 1..Len(passed) /\ passed'[i] = passed[i]
        BY <1>2, <1>6, <3>3
      <4>2. S = Sends!Within(passed, passed[i], passed[i] + Win - MaxWait)
        <5>1. DOMAIN passed' = 1..n /\ DOMAIN passed = 1..Len(passed)
          BY <1>2, <1>6
        <5>2. \A j : j \in 1..n <=> j \in 1..Len(passed) \/ j = n
          BY <1>2
        <5> QED
          BY <1>6, <3>1, <4>1, <5>1, <5>2 DEF Sends!Within
      <4> QED
        BY <4>1, <4>2 DEF LimitInv, PassedInv
    <3> QED
      BY <3>2, <3>3
  <2> QED
    BY <2>1, <2>2
<1>10. SpacingInv'
  BY <1>1 DEF LimitInv, SpacingInv
<1> QED
  BY <1>7, <1>8, <1>9, <1>10 DEF LimitInv

\* allow refuses a call: Limit calls were let through within a window and a wait.
LEMMA LimitRefuse ==
  ASSUME LimitInv, NEW r \in Calls, Sends!allow(r), passed' = passed
  PROVE  LimitInv' /\ Sends!Excused
<1> USE LimitConstants
<1> DEFINE t == limitReq[r].at
           k == Sends!kept(t)
           S == Sends!Within(passed, limitNow - Win - MaxWait + 1, limitNow + 1)
<1>1. passed \in Seq(Nat) /\ limitNow \in Nat /\ Len(passed) \in Nat
  BY DEF LimitInv, LimitTypes
<1>2. passed # Append(passed, limitNow)
  <2>1. Len(Append(passed, limitNow)) = Len(passed) + 1
    BY <1>1
  <2> QED
    BY <1>1, <2>1
<1>3. /\ limitReq[r].pc = "lock" /\ Cardinality(k) >= Limit
      /\ limitReq' = [limitReq EXCEPT ![r] = Sends!Idle]
      /\ UNCHANGED <<hits, passed, limitNow, lastHit, answered>>
  BY <1>2, SendsCardinality DEF Sends!allow
<1>4. LimitTypes'
  BY <1>3 DEF LimitInv, LimitTypes, Sends!Idle
<1>5. LimitInv'
  BY <1>3, <1>4 DEF LimitInv, KeptInv, SpacingInv, PassedInv, Sends!Within
<1>6. t \in Nat /\ t <= limitNow /\ limitNow <= t + MaxWait
  BY <1>3 DEF LimitInv, LimitTypes, Sends!Idle
<1>7. ASSUME NEW i \in k PROVE i \in S
  <2>1. i \in 1..Len(passed) /\ hits[i] \in Nat /\ hits[i] <= passed[i] /\ hits[i] > t - Win
    BY <1>7 DEF Sends!kept, LimitInv, KeptInv
  <2>2. passed[i] \in Nat /\ passed[i] <= limitNow
    BY <1>1, <2>1 DEF LimitInv, LimitTypes
  <2> HIDE DEF t
  <2>3. limitNow - Win - MaxWait + 1 <= passed[i] /\ passed[i] < limitNow + 1
    BY <1>1, <1>6, <2>1, <2>2
  <2> QED
    BY <1>1, <2>1, <2>3 DEF Sends!Within
<1>8. Cardinality(S) >= Limit
  <2>1. IsFiniteSet(S)
    BY <1>1, WithinFinite
  <2>2. k \subseteq S
    BY <1>7
  <2> HIDE DEF S, k
  <2>3. IsFiniteSet(k) /\ Cardinality(k) <= Cardinality(S) /\ Cardinality(k) \in Nat /\ Cardinality(S) \in Nat
    BY <2>1, <2>2, FS_Subset, FS_CardinalityType
  <2> QED
    BY <1>3, <2>3
<1>9. \A q \in Calls : q # r => limitReq'[q] = limitReq[q]
  BY <1>3 DEF LimitInv, LimitTypes
<1>10. Sends!Excused
  BY <1>3, <1>8, <1>9, SendsCardinality DEF Sends!Excused
<1> QED
  BY <1>5, <1>10

\* fakeRegisterCodeOK answers an interval after the last answer, or refuses because of it.
LEMMA LimitFake ==
  ASSUME LimitInv, NEW r \in Calls, Sends!fakeRegisterCodeOK(r)
  PROVE  LimitInv' /\ Sends!Excused
<1> USE LimitConstants
<1> DEFINE n == Len(answered)
<1>1. /\ limitReq[r].pc = "fake" /\ limitReq' = [limitReq EXCEPT ![r] = Sends!Idle]
      /\ UNCHANGED <<limitNow, hits, passed>>
  BY DEF Sends!fakeRegisterCodeOK
<1>2. /\ answered \in Seq(Nat) /\ n \in Nat /\ DOMAIN answered = 1..n /\ limitNow \in Nat /\ lastHit \in Nat
      /\ limitNow >= Interval /\ (answered = <<>> <=> n = 0)
      /\ \A i \in 1..n : answered[i] \in Nat /\ answered[i] <= limitNow
  BY DEF LimitInv, LimitTypes
<1>3. \A q \in Calls : q # r => limitReq'[q] = limitReq[q]
  BY <1>1 DEF LimitInv, LimitTypes
<1>4. KeptInv' /\ PassedInv'
  BY <1>1 DEF LimitInv, KeptInv, PassedInv, Sends!Within
<1>5. CASE limitNow - lastHit < Interval
  <2>1. UNCHANGED <<lastHit, answered>>
    BY <1>5 DEF Sends!fakeRegisterCodeOK
  <2>2. LimitTypes' /\ SpacingInv'
    BY <1>1, <2>1 DEF LimitInv, LimitTypes, SpacingInv, Sends!Idle
  <2>3. n > 0 /\ lastHit = answered[n]
    BY <1>2, <1>5 DEF LimitInv, SpacingInv
  <2>4. n \in Sends!Within(answered, limitNow - Interval + 1, limitNow + 1)
    <3>1. limitNow - Interval + 1 <= answered[n] /\ answered[n] < limitNow + 1 /\ n \in 1..n
      BY <1>2, <1>5, <2>3
    <3> QED
      BY <1>2, <3>1 DEF Sends!Within
  <2>5. Sends!Excused
    BY <1>1, <1>3, <2>4 DEF Sends!Excused
  <2> QED
    BY <1>4, <2>2, <2>5 DEF LimitInv
<1>6. CASE ~(limitNow - lastHit < Interval)
  <2>1. lastHit' = limitNow /\ answered' = Append(answered, limitNow)
    BY <1>6 DEF Sends!fakeRegisterCodeOK
  <2>2. /\ answered' \in Seq(Nat) /\ Len(answered') = n + 1 /\ answered'[n + 1] = limitNow
        /\ \A i \in 1..n : answered'[i] = answered[i]
        /\ answered' # <<>>
    BY <1>2, <2>1, SMTT(20)
  <2>3. \A i \in 1..(n + 1) : answered'[i] <= limitNow
    BY <1>2, <2>2, SMTT(20)
  <2>4. LimitTypes'
    BY <1>1, <1>2, <2>1, <2>2, <2>3 DEF LimitInv, LimitTypes, Sends!Idle
  <2>5. \A i \in 1..n : answered[i] + Interval <= limitNow
    <3> SUFFICES ASSUME NEW i \in 1..n PROVE answered[i] + Interval <= limitNow
      OBVIOUS
    <3>1. lastHit = answered[n] /\ n \in 1..n
      BY <1>2 DEF LimitInv, SpacingInv
    <3>2. answered[i] <= answered[n]
      BY <1>2, <3>1 DEF LimitInv, SpacingInv
    <3> QED
      BY <1>2, <1>6, <3>1, <3>2
  <2>6. SpacingInv'
    <3>1. \A i, j \in 1..(n + 1) : i < j => answered'[i] + Interval <= answered'[j]
      <4> SUFFICES ASSUME NEW i \in 1..(n + 1), NEW j \in 1..(n + 1), i < j
                   PROVE  answered'[i] + Interval <= answered'[j]
        OBVIOUS
      <4>1. i \in 1..n
        BY <1>2
      <4>2. CASE j = n + 1
        BY <2>2, <2>5, <4>1, <4>2
      <4>3. CASE j \in 1..n
        BY <2>2, <4>1, <4>3 DEF LimitInv, SpacingInv
      <4> QED
        BY <1>2, <4>2, <4>3
    <3> QED
      BY <1>2, <2>1, <2>2, <3>1 DEF SpacingInv
  <2>7. Sends!Excused
    BY <1>1, <1>2, <1>3, <2>2 DEF Sends!Excused
  <2> QED
    BY <1>4, <2>4, <2>6, <2>7 DEF LimitInv
<1> QED
  BY <1>5, <1>6

\* Every step keeps LimitInv, and refuses nobody without a cause.
LEMMA LimitStep == LimitInv /\ [Sends!Next]_limitVars => LimitInv' /\ [Sends!Excused]_limitVars
<1> SUFFICES ASSUME LimitInv, [Sends!Next]_limitVars
             PROVE  LimitInv' /\ [Sends!Excused]_limitVars
  OBVIOUS
<1>1. CASE Sends!Tick \/ \E r \in Calls : Sends!allowStamp(r)
  <2>1. \A q \in Calls : limitReq'[q].pc = "idle" => limitReq'[q] = limitReq[q]
    BY <1>1 DEF Sends!Tick, Sends!allowStamp, LimitInv, LimitTypes
  <2>2. Sends!Excused
    BY <2>1 DEF Sends!Excused
  <2> QED
    BY <1>1, <2>2, LimitTime
<1>2. ASSUME NEW r \in Calls, Sends!allow(r) PROVE LimitInv' /\ [Sends!Excused]_limitVars
  <2>1. CASE passed' = passed
    BY <1>2, <2>1, LimitRefuse
  <2>2. CASE passed' # passed
    <3>1. limitReq' = [limitReq EXCEPT ![r] = [pc |-> "fake", at |-> 0]]
      BY <1>2, <2>2 DEF Sends!allow
    <3>2. \A q \in Calls : limitReq'[q].pc = "idle" => limitReq'[q] = limitReq[q]
      BY <3>1 DEF LimitInv, LimitTypes
    <3>3. Sends!Excused
      BY <3>2 DEF Sends!Excused
    <3> QED
      BY <1>2, <2>2, <3>3, LimitPass
  <2> QED
    BY <2>1, <2>2
<1>3. ASSUME NEW r \in Calls, Sends!fakeRegisterCodeOK(r) PROVE LimitInv' /\ [Sends!Excused]_limitVars
  BY <1>3, LimitFake
<1>4. CASE UNCHANGED limitVars
  BY <1>4 DEF limitVars, LimitInv, LimitTypes, KeptInv, SpacingInv, PassedInv, Sends!Within
<1> QED
  BY <1>1, <1>2, <1>3, <1>4 DEF Sends!Next

\* What the window and the spacing come to.
LEMMA LimitInvImplies == LimitInv => Sends!WindowBound
<1> SUFFICES ASSUME LimitInv PROVE Sends!WindowBound
  OBVIOUS
<1>1. DOMAIN passed = 1..Len(passed) /\ DOMAIN answered = 1..Len(answered) /\ answered \in Seq(Nat)
  BY DEF LimitInv, LimitTypes
<1>2. ASSUME NEW i \in DOMAIN answered
      PROVE  Cardinality(Sends!Within(answered, answered[i], answered[i] + Interval)) = 1
  <2>1. \A j \in DOMAIN answered : answered[j] \in Nat
    BY <1>1
  <2>2. ASSUME NEW j \in DOMAIN answered, answered[i] <= answered[j], answered[j] < answered[i] + Interval
        PROVE  j = i
    <3>1. i \in Nat /\ j \in Nat /\ answered[i] \in Nat /\ answered[j] \in Nat
      BY <1>1, <2>1
    <3>2. ~(i < j)
      BY <1>1, <2>2, <3>1, LimitConstants DEF LimitInv, SpacingInv
    <3>3. ~(j < i)
      <4> SUFFICES ASSUME j < i PROVE FALSE
        OBVIOUS
      <4>1. answered[j] + Interval <= answered[i]
        BY <1>1 DEF LimitInv, SpacingInv
      <4> QED
        BY <2>2, <3>1, <4>1, LimitConstants
    <3> QED
      BY <3>1, <3>2, <3>3
  <2>3. answered[i] <= answered[i] /\ answered[i] < answered[i] + Interval
    BY <2>1, LimitConstants
  <2>4. Sends!Within(answered, answered[i], answered[i] + Interval) = {i}
    BY <2>2, <2>3 DEF Sends!Within
  <2> QED
    BY <2>4, FS_Singleton
<1> QED
  BY <1>1, <1>2, SendsCardinality DEF Sends!WindowBound, LimitInv, PassedInv

\* The limits of registerSendCode, for any window, limit and wait and any number of
\* requests at once: no more calls than the limit in a window less the longest wait,
\* and every refusal has a cause that passes.
THEOREM LimitsAreKept == MCSpec => LimitKept
<1>1. MCInit => LimitInv
  BY LimitInit DEF MCInit
<1>2. [MCNext]_mcvars => [Sends!Next]_limitVars
  BY DEF MCNext, mcvars
<1>3. [Sends!Excused]_limitVars => [Sends!Excused]_(Sends!vars)
  BY DEF limitVars, Sends!vars
<1> QED
  BY <1>1, <1>2, <1>3, LimitStep, LimitInvImplies, PTL
     DEF MCSpec, LimitKept, Sends!LimitKept, Sends!RefusalHasCause

----------------------------------------------------------------------------
(* Paging through a chat.                                                  *)

\* What a client has received runs down from the first message without a gap.
PagesInv ==
    /\ lastId \in Nat /\ first \in 1..(lastId + 1) /\ limit \in Int
    /\ got \in Seq(Nat)
    /\ \A i \in 1..Len(got) : got[i] = got[1] + 1 - i /\ got[i] >= 1 /\ got[i] <= lastId
    /\ HasMoreBelowMax

\* A page size is between one and the largest.
LEMMA ClampRange == \A n \in Int : Clamp(n) \in 1..MaxPage /\ (n \in 1..MaxPage => Clamp(n) = n)
BY PagesAssumption DEF Clamp

\* A page: it begins below the cursor, has no gap, and is cut off at the page size; if it
\* is not the largest and there is no more, it ends with the oldest message.
LEMMA PageIs ==
  ASSUME PagesInv, ListChat
  PROVE  \E newest \in Nat, c \in Nat :
            LET page == [i \in 1..c |-> newest + 1 - i]
            IN  /\ got' = got \o page
                /\ got # <<>> => newest = got[Len(got)] - 1
                /\ newest <= lastId /\ (c > 0 => c <= newest - first + 1)
                /\ ~more' /\ Clamp(limit) < MaxPage => (newest < first /\ c = 0) \/ c = newest - first + 1
<1> DEFINE before == IF got = <<>> THEN 0 ELSE Last(got)
           n == Clamp(limit)
           newest == Newest(before)
           older == newest - first + 1
           size == Clamp(n + 1)
           len == IF size < older THEN size ELSE older
           raw == [i \in 1..len |-> newest + 1 - i]
           page == IF HasMore(raw, n) THEN SubSeq(raw, 1, n) ELSE raw
<1>1. lastId \in Nat /\ first \in 1..(lastId + 1) /\ limit \in Int /\ got \in Seq(Nat) /\ Len(got) \in Nat
      /\ (got = <<>> <=> Len(got) = 0)
  BY DEF PagesInv
<1>2. got' = got \o page /\ more' = HasMore(raw, n)
  BY DEF ListChat, ListMessagesRev
<1>3. newest \in Nat /\ newest <= lastId /\ (got # <<>> => newest = got[Len(got)] - 1)
  <2>1. CASE got = <<>>
    BY <1>1, <2>1 DEF Newest
  <2>2. CASE got # <<>>
    <3>1. Len(got) \in 1..Len(got)
      BY <1>1, <2>2
    <3>2. got[Len(got)] \in Nat /\ got[Len(got)] >= 1 /\ got[Len(got)] <= lastId
      BY <1>1, <3>1 DEF PagesInv
    <3> QED
      BY <1>1, <2>2, <3>2 DEF Newest, Last
  <2> QED
    BY <2>1, <2>2
<1>4. n \in Nat \ {0} /\ size \in Nat \ {0} /\ (n < MaxPage => size = n + 1) /\ MaxPage \in Nat
  BY <1>1, ClampRange, PagesAssumption
<1> HIDE DEF before, newest, size, n
<1>5. older \in Int /\ len \in Int /\ len <= older /\ len <= size /\ (len < older => len = size)
  BY <1>1, <1>3, <1>4
<1> DEFINE top == IF len < 0 THEN 0 ELSE len
<1>6. 1..len = 1..top /\ top \in Nat
  BY <1>5
<1> HIDE DEF older, len
<1>7. raw = [i \in 1..top |-> newest + 1 - i] /\ raw \in Seq(Int) /\ Len(raw) = top
  <2>1. raw = [i \in 1..top |-> newest + 1 - i]
    BY <1>6
  <2>2. \A i \in 1..top : newest + 1 - i \in Int
    BY <1>3, <1>6
  <2> HIDE DEF top, raw
  <2> QED
    BY <1>6, <2>1, <2>2
<1>8. CASE top > n
  <2>1. page = SubSeq(raw, 1, n) /\ more'
    BY <1>2, <1>7, <1>8 DEF HasMore
  <2>2. SubSeq(raw, 1, n) = [i \in 1..n |-> newest + 1 - i]
    BY <1>4, <1>6, <1>7, <1>8
  <2>3. n <= older
    BY <1>4, <1>5, <1>8
  <2> QED
    BY <1>2, <1>3, <1>4, <2>1, <2>2, <2>3 DEF older
<1>9. CASE ~(top > n)
  <2>1. page = [i \in 1..top |-> newest + 1 - i]
    BY <1>7, <1>9 DEF HasMore
  <2>2. top > 0 => top <= older
    BY <1>5
  <2>3. n < MaxPage => (older <= 0 /\ top = 0) \/ top = older
    BY <1>4, <1>5, <1>9
  <2>4. older <= 0 => newest < first
    BY <1>1, <1>3 DEF older
  <2> QED
    BY <1>2, <1>3, <1>6, <2>1, <2>2, <2>3, <2>4 DEF older, n
<1> QED
  BY <1>4, <1>6, <1>8, <1>9

\* A page goes on where the last one ended.
LEMMA PagesList == ASSUME PagesInv, ListChat PROVE PagesInv'
<1>1. lastId \in Nat /\ first \in 1..(lastId + 1) /\ limit \in Int /\ got \in Seq(Nat) /\ Len(got) \in Nat
      /\ (got = <<>> <=> Len(got) = 0)
      /\ \A i \in 1..Len(got) : got[i] = got[1] + 1 - i /\ got[i] >= 1 /\ got[i] <= lastId /\ got[i] \in Nat
  BY DEF PagesInv
<1>2. UNCHANGED <<first, lastId, limit>>
  BY DEF ListChat
<1>3. PICK newest \in Nat, c \in Nat :
        /\ got' = got \o [i \in 1..c |-> newest + 1 - i]
        /\ got # <<>> => newest = got[Len(got)] - 1
        /\ newest <= lastId /\ (c > 0 => c <= newest - first + 1)
        /\ ~more' /\ Clamp(limit) < MaxPage => (newest < first /\ c = 0) \/ c = newest - first + 1
  BY PageIs
<1> DEFINE page == [i \in 1..c |-> newest + 1 - i]
           l == Len(got)
<1>4. \A i \in 1..c : newest + 1 - i \in Nat /\ newest + 1 - i >= 1 /\ newest + 1 - i <= lastId
  BY <1>1, <1>3
<1>5. page \in Seq(Nat) /\ Len(page) = c /\ \A i \in 1..c : page[i] = newest + 1 - i
  BY <1>4
<1> HIDE DEF page
<1>6. /\ got' \in Seq(Nat) /\ Len(got') = l + c
      /\ \A i \in 1..l : got'[i] = got[i]
      /\ \A i \in (l + 1)..(l + c) : got'[i] = newest + 1 - (i - l)
  <2>1. got' = got \o page
    BY <1>3 DEF page
  <2>2. got' \in Seq(Nat) /\ Len(got') = l + c
    <3>1. \A f, g \in Seq(Nat) : f \o g \in Seq(Nat) /\ Len(f \o g) = Len(f) + Len(g)
      OBVIOUS
    <3> QED
      BY <1>1, <1>5, <2>1, <3>1
  <2>3. ASSUME NEW i \in 1..(l + c)
        PROVE  got'[i] = IF i <= l THEN got[i] ELSE page[i - l]
    BY <1>1, <1>5, <2>1, <2>3
  <2>4. \A i \in 1..l : got'[i] = got[i]
    BY <1>1, <2>3
  <2>5. ASSUME NEW i \in (l + 1)..(l + c) PROVE got'[i] = newest + 1 - (i - l)
    <3>1. i \in 1..(l + c) /\ ~(i <= l) /\ i - l \in 1..c
      BY <1>1, <2>5
    <3> QED
      BY <1>5, <2>3, <3>1
  <2> QED
    BY <2>2, <2>4, <2>5
<1> HIDE DEF l
<1>7. ASSUME NEW i \in 1..(l + c)
      PROVE  got'[i] = got'[1] + 1 - i /\ got'[i] >= 1 /\ got'[i] <= lastId
  <2>0. l \in Nat /\ c \in Nat /\ i \in Int
    BY <1>1, <1>3 DEF l
  <2>1. CASE i \in 1..l
    <3>1. 1 \in 1..l
      BY <2>0, <2>1
    <3>2. got'[i] = got[i] /\ got'[1] = got[1]
      BY <1>6, <2>1, <3>1
    <3> QED
      BY <1>1, <2>1, <3>2 DEF l
  <2>2. CASE i \in (l + 1)..(l + c)
    <3>1. got'[i] = newest + 1 - (i - l) /\ got'[i] >= 1 /\ got'[i] <= lastId
      <4>1. i - l \in 1..c
        BY <2>0, <2>2
      <4> QED
        BY <1>4, <1>6, <2>2, <4>1
    <3>2. CASE l = 0
      <4>1. 1 \in (l + 1)..(l + c)
        BY <2>0, <2>2, <3>2
      <4>2. got'[1] = newest
        BY <1>6, <3>2, <4>1
      <4> QED
        BY <2>0, <3>1, <3>2, <4>2
    <3>3. CASE l > 0
      <4>1. got'[1] = got[1] /\ got[l] = got[1] + 1 - l /\ got[1] \in Nat /\ newest = got[l] - 1
        <5>1. 1 \in 1..l /\ l \in 1..l
          BY <2>0, <3>3
        <5> QED
          BY <1>1, <1>3, <1>6, <3>3, <5>1 DEF l
      <4> QED
        BY <2>0, <3>1, <4>1
    <3> QED
      BY <2>0, <3>2, <3>3
  <2> QED
    BY <2>0, <2>1, <2>2
<1>8. ASSUME ~more', Clamp(limit) < MaxPage, got' # <<>>, NEW id \in first..lastId
      PROVE  id >= got'[Len(got')]
  <2>0. l \in Nat /\ c \in Nat
    BY <1>1, <1>3 DEF l
  <2>1. CASE c = newest - first + 1 /\ c > 0
    <3>1. got'[l + c] = newest + 1 - c
      BY <1>6, <2>0, <2>1
    <3> QED
      BY <1>1, <1>6, <2>0, <2>1, <3>1
  <2>2. CASE c = 0 /\ newest < first
    <3>1. l > 0
      BY <1>6, <1>8, <2>0, <2>2
    <3>2. got'[l + c] = got[l] /\ newest = got[l] - 1 /\ got[l] \in Nat
      BY <1>1, <1>3, <1>6, <2>0, <2>2, <3>1 DEF l
    <3> QED
      BY <1>1, <1>6, <2>0, <2>2, <3>2
  <2>3. c = 0 /\ c = newest - first + 1 => newest < first
    BY <1>1
  <2> QED
    BY <1>3, <1>8, <2>1, <2>2, <2>3
<1>9. HasMoreBelowMax'
  BY <1>2, <1>8 DEF HasMoreBelowMax, HasMoreIsRight, stream, Last, Clamp
<1> QED
  BY <1>1, <1>2, <1>6, <1>7, <1>9 DEF PagesInv

\* Messages that arrive are newer than all a client has; those dropped leave no gap.
LEMMA PagesAppend == ASSUME PagesInv, Append1 PROVE PagesInv'
<1>1. lastId \in Nat /\ first \in 1..(lastId + 1) /\ got \in Seq(Nat)
  BY DEF PagesInv
<1>2. lastId' = lastId + 1 /\ first' \in first..(lastId + 1) /\ UNCHANGED <<limit, got, more>>
  BY DEF Append1
<1>3. HasMoreBelowMax'
  <2> SUFFICES ASSUME Clamp(limit) < MaxPage, ~more, got # <<>>, NEW id \in first'..lastId'
               PROVE  id >= Last(got)
    BY <1>2 DEF HasMoreBelowMax, HasMoreIsRight, stream, Clamp
  <2>1. Len(got) \in 1..Len(got) /\ got[Len(got)] \in Nat /\ got[Len(got)] <= lastId
    BY <1>1 DEF PagesInv
  <2>2. id \in first..lastId \/ id = lastId + 1
    BY <1>1, <1>2
  <2> QED
    BY <1>1, <2>1, <2>2 DEF PagesInv, HasMoreBelowMax, HasMoreIsRight, stream, Last
<1> QED
  BY <1>1, <1>2, <1>3 DEF PagesInv

\* The pages fit together whatever is appended and trimmed between them, for any page
\* sizes and any limit a client sends.
THEOREM PagesDoFit == MCSpec => []PagesFit
<1>1. MCInit => PagesInv
  <2> SUFFICES ASSUME MCInit PROVE PagesInv
    OBVIOUS
  <2>1. lastId \in Nat /\ first = 1 /\ limit \in Int /\ got = <<>> /\ more = TRUE
    <3>1. CASE part = "history"
      <4>1. Init
        BY <3>1 DEF MCInit
      <4> QED
        BY <4>1, PagesAssumption DEF Init
    <3>2. CASE part # "history"
      BY <3>2 DEF MCInit
    <3> QED
      BY <3>1, <3>2
  <2> QED
    BY <2>1 DEF PagesInv, HasMoreBelowMax, HasMoreIsRight
<1>2. PagesInv /\ [MCNext]_mcvars => PagesInv'
  <2> SUFFICES ASSUME PagesInv, [MCNext]_mcvars PROVE PagesInv'
    OBVIOUS
  <2>1. Next \/ UNCHANGED vars
    BY DEF MCNext, mcvars
  <2>2. CASE UNCHANGED vars
    BY <2>2 DEF vars, PagesInv, HasMoreBelowMax, HasMoreIsRight, stream, Clamp, Last
  <2> QED
    BY <2>1, <2>2, PagesList, PagesAppend DEF Next
<1>3. PagesInv => PagesFit
  <2> SUFFICES ASSUME PagesInv PROVE PagesContiguous
    BY DEF PagesInv, PagesFit
  <2>1. /\ got \in Seq(Nat) /\ Len(got) \in Nat /\ DOMAIN got = 1..Len(got)
        /\ \A i \in 1..Len(got) : got[i] = got[1] + 1 - i
        /\ lastId \in Nat /\ first \in 1..(lastId + 1)
    BY DEF PagesInv
  <2>2. ASSUME NEW i \in DOMAIN got, NEW j \in DOMAIN got, i < j PROVE got[i] > got[j]
    <3>1. got[1] \in Nat
      BY <2>1
    <3> QED
      BY <2>1, <2>2, <3>1, SMTT(20)
  <2>3. ASSUME got # <<>>, NEW id \in stream, Last(got) <= id, id <= Head(got)
        PROVE  \E i \in DOMAIN got : got[i] = id
    <3>1. /\ got[1] \in Nat /\ Len(got) > 0 /\ Head(got) = got[1] /\ Last(got) = got[1] + 1 - Len(got)
          /\ id \in Int
      BY <2>1, <2>3 DEF stream, Last
    <3>2. got[1] + 1 - id \in 1..Len(got)
      BY <2>1, <2>3, <3>1
    <3>3. got[got[1] + 1 - id] = id
      BY <2>1, <3>1, <3>2, SMTT(20)
    <3> QED
      BY <2>1, <3>2, <3>3
  <2> QED
    BY <2>2, <2>3 DEF PagesContiguous
<1> QED
  BY <1>1, <1>2, <1>3, PTL DEF MCSpec
=============================================================================
