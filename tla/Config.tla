------------------------------- MODULE Config -------------------------------
(***************************************************************************)
(* internal/config: Load lays config.yaml over Default, the environment    *)
(* over both, and normalize accepts, repairs or refuses the result;        *)
(* ChatLimitsFromConfig of internal/room/chat.go repairs the limits of the *)
(* chat once more.  What a value is used for is left out: a value is a     *)
(* number (of a duration, of a text), blank, or something that does not    *)
(* parse.  Settings do not meet, save that ably_jwt_ttl takes what         *)
(* ably_token_ttl says, so that one or two are given at a time.            *)
(***************************************************************************)
EXTENDS Integers, Sequences

CONSTANTS
    Absent,    \* the file does not give the setting
    Blank,     \* the empty text: an environment variable that is not set
    Bad,       \* a text that is no number, no duration or no key
    Numbers,   \* values given
    Standard,  \* the value of a setting of another kind than Ints in Default
    Day        \* 24 h

ConfigAssumption ==
    /\ Numbers \subseteq Int /\ Day \in Nat \ {0}
    /\ {Absent, Blank, Bad} \cap Int = {} /\ Absent \notin {Blank, Bad}
    /\ Standard \in 1..Day

VARIABLES
    pc,      \* the next part of Load, and how it ended
    cfg,     \* cfg[s]: the value of setting s so far
    file,    \* file[s]: what config.yaml gives
    env      \* env[s]: what the variables of a setting hold, the first to be read first

vars == <<pc, cfg, file, env>>

\* Kinds of setting: what normalize asks of them.
Backends == {"storage_backend", "cache_backend"}
Lifetimes == {"jwt_access_ttl", "jwt_refresh_ttl"}
AblyTTLs == {"ably_token_ttl", "ably_jwt_ttl"}
Durations == {"email_code_ttl", "email_code_send_interval", "chat_ably_publish_timeout"}
ChatInts == {"chat_stream_max_len", "chat_ably_pending_max", "chat_max_payload_bytes",
             "chat_max_text_runes", "chat_rate_per_second"}
CodeInts == {"email_code_length", "email_code_daily_limit", "email_code_max_attempts"}
Ints == ChatInts \union CodeInts \union {"chat_ably_publish_retry"}
Repaired == {"email_from", "ably_channel_prefix"}
Free == {"addr", "postgres_dsn", "redis_addr", "redis_url", "jwt_secret"}
Settings == Backends \union Lifetimes \union AblyTTLs \union Durations \union Ints
            \union Repaired \union Free \union {"ably_root_key"}

ChatSettings == ChatInts \union {"chat_ably_publish_retry", "chat_ably_publish_timeout"}

\* The numbers are written three times: here, in normalize and, those of the chat, in
\* ChatLimitsFromConfig.
DefaultInts ==
    [chat_stream_max_len |-> 2000, chat_ably_pending_max |-> 500,
     chat_max_payload_bytes |-> 61440, chat_max_text_runes |-> 2000,
     chat_rate_per_second |-> 10, chat_ably_publish_retry |-> 2,
     email_code_length |-> 6, email_code_daily_limit |-> 5, email_code_max_attempts |-> 5]

Default == [s \in Settings |->
    IF s \in Ints THEN DefaultInts[s]
    ELSE IF s \in {"redis_url", "ably_root_key", "ably_jwt_ttl"} THEN Blank ELSE Standard]

\* POSTGRES_URL, POSTGRES_DSN, DATABASE_URL; ADDR, PORT; EMAIL_FROM, RESEND_FROM.
Variables(s) ==
    IF s = "postgres_dsn" THEN 3 ELSE IF s \in {"addr", "email_from"} THEN 2 ELSE 1

FileValues(s) == Numbers \union {Absent, Bad} \union (IF s \in Ints THEN {} ELSE {Blank})
EnvValues(s) == [1..Variables(s) -> Numbers \union {Blank, Bad}]

\* The settings given: any one of them, or both lifetimes of an Ably token.
Init ==
    /\ pc = "file" /\ cfg = Default
    /\ \E given \in {AblyTTLs} \union {{s} : s \in Settings} :
        \E f \in [given -> UNION {FileValues(s) : s \in given}],
           e \in [given -> UNION {EnvValues(s) : s \in given}] :
            /\ \A s \in given : f[s] \in FileValues(s) /\ e[s] \in EnvValues(s)
            /\ file = [s \in Settings |-> IF s \in given THEN f[s] ELSE Absent]
            /\ env = [s \in Settings |-> IF s \in given THEN e[s]
                                         ELSE [i \in 1..Variables(s) |-> Blank]]

----------------------------------------------------------------------------
(* Load                                                                    *)

\* loadFile: yaml.Unmarshal refuses a text where a number belongs.
loadFile ==
    /\ pc = "file"
    /\ IF \E s \in Ints : file[s] = Bad
       THEN pc' = "refused" /\ UNCHANGED cfg
       ELSE /\ pc' = "env"
            /\ cfg' = [s \in Settings |-> IF file[s] = Absent THEN cfg[s] ELSE file[s]]
    /\ UNCHANGED <<file, env>>

\* The first variable of a setting that is set.
EnvValue(s) ==
    LET set == {i \in 1..Variables(s) : env[s][i] # Blank}
    IN  IF set = {} THEN Blank ELSE env[s][CHOOSE i \in set : \A j \in set : i <= j]

\* Slip: a number that does not parse is set to zero.
applyEnvZeroes ==
    /\ pc = "env" /\ pc' = "normalize"
    /\ cfg' = [s \in Settings |->
        LET v == EnvValue(s)
        IN  IF v = Blank THEN cfg[s] ELSE IF v = Bad /\ s \in Ints THEN 0 ELSE v]
    /\ UNCHANGED <<file, env>>
\* applyEnv: setString and setInt pass over what is blank, setInt over what does
\* not parse.
applyEnv ==
    /\ pc = "env" /\ pc' = "normalize"
    /\ cfg' = [s \in Settings |->
        LET v == EnvValue(s)
        IN  IF v = Blank \/ (v = Bad /\ s \in Ints) THEN cfg[s] ELSE v]
    /\ UNCHANGED <<file, env>>

\* parseDuration succeeds.
Parses(v) == v \notin {Blank, Bad}

\* parseAblyRootKey: no key, or a name and a secret.
parseAblyRootKey(c) == c["ably_root_key"] # Bad

\* What normalize makes of a value before it looks at it.
Filled(c, s) ==
    IF c[s] # Blank THEN c[s]
    ELSE CASE s = "ably_jwt_ttl" -> c["ably_token_ttl"]
           [] s \in Repaired \union {"chat_ably_publish_timeout"} -> Standard
           [] OTHER -> Blank

\* normalize: the errors it returns.  Standard is the one backend there is.
Refuses(c) ==
    \/ \E s \in Backends : c[s] # Standard
    \/ \E s \in Lifetimes : ~Parses(c[s])
    \/ \E s \in AblyTTLs \union Durations :
        LET v == Filled(c, s) IN ~Parses(v) \/ v <= 0 \/ (s \in AblyTTLs /\ v > Day)
    \/ ~parseAblyRootKey(c)

\* normalize: the numbers it puts in the place of those that are not positive.
RepairInts ==
    [chat_stream_max_len |-> 2000, chat_ably_pending_max |-> 500,
     chat_max_payload_bytes |-> 61440, chat_max_text_runes |-> 2000,
     chat_rate_per_second |-> 10,
     email_code_length |-> 6, email_code_daily_limit |-> 5, email_code_max_attempts |-> 5]

\* normalize: the repairs it makes.
Normal(c) == [s \in Settings |->
    IF s \in ChatInts \union CodeInts THEN (IF c[s] <= 0 THEN RepairInts[s] ELSE c[s])
    ELSE IF s = "chat_ably_publish_retry" THEN (IF c[s] < 0 THEN 0 ELSE c[s])
    ELSE Filled(c, s)]

normalize ==
    /\ pc = "normalize"
    /\ IF Refuses(cfg)
       THEN pc' = "refused" /\ UNCHANGED cfg
       ELSE pc' = "accepted" /\ cfg' = Normal(cfg)
    /\ UNCHANGED <<file, env>>

Loaded == pc \in {"accepted", "refused"} /\ UNCHANGED vars

Next == loadFile \/ applyEnv \/ normalize \/ Loaded

Spec == Init /\ [][Next]_vars

----------------------------------------------------------------------------
(* ChatLimitsFromConfig                                                    *)

nonzero(v, def) == IF v <= 0 THEN def ELSE v

\* The numbers it gives to nonzero.
ChatLimitInts ==
    [chat_stream_max_len |-> 2000, chat_ably_pending_max |-> 500,
     chat_max_payload_bytes |-> 61440, chat_max_text_runes |-> 2000,
     chat_rate_per_second |-> 10]

ChatLimitsFromConfig(c) == [s \in ChatSettings |->
    CASE s \in ChatInts -> nonzero(c[s], ChatLimitInts[s])
      [] s = "chat_ably_publish_retry" -> IF c[s] < 0 THEN 0 ELSE c[s]
      [] OTHER -> IF c[s] <= 0 THEN Standard ELSE c[s]]

----------------------------------------------------------------------------
(* Properties                                                              *)

\* What Load accepts is what the other modules assume of their constants: limits
\* and lifetimes of at least one, of an Ably token at most a day.  The lifetimes
\* of the access and refresh tokens are not among them: normalize takes 0 and less.
AcceptedInRange ==
    pc = "accepted" =>
        /\ \A s \in ChatInts \union CodeInts \union Durations : cfg[s] > 0
        /\ \A s \in AblyTTLs : cfg[s] \in 1..Day
        /\ cfg["chat_ably_publish_retry"] >= 0

\* An accepted setting has the value of the last source that gives a readable one:
\* a variable that does not parse leaves the file's number alone, and a number out
\* of range gives way to the built-in one, never to that of an earlier source.
LastSourceWins ==
    pc = "accepted" =>
        \A s \in Ints \ {"chat_ably_publish_retry"} :
            LET e == EnvValue(s)
                given == IF e \in Numbers THEN e
                         ELSE IF file[s] \in Numbers THEN file[s] ELSE DefaultInts[s]
            IN  cfg[s] = IF given > 0 THEN given ELSE DefaultInts[s]

\* The limits of the chat are repaired in two places, in normalize and again in
\* ChatLimitsFromConfig for a Config that was not loaded, each with its own copy of
\* the numbers: they agree, be the Config loaded or not yet normalized.
LimitsAgree ==
    pc \in {"normalize", "accepted"} /\ Parses(cfg["chat_ably_publish_timeout"])
            /\ cfg["chat_ably_publish_timeout"] > 0 =>
        LET limits == ChatLimitsFromConfig(cfg)
        IN  \A s \in ChatSettings : limits[s] = Normal(cfg)[s]

\* All of that: what the rest of the program reads is in range and as it was given.
ConfigSound == AcceptedInRange /\ LastSourceWins /\ LimitsAgree
=============================================================================
