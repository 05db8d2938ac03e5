--------------------------- MODULE Configuration ---------------------------
(***************************************************************************)
(* Start-up: the environment is validated (src/config/env.validation.ts),  *)
(* the defaults that were missing are assigned to the environment          *)
(* (ConfigModule.forRoot of Nest), the settings are read from it again     *)
(* (src/config/configuration.ts) and the server listens (src/main.ts).     *)
(* Both tables are written by hand.  The variables do not depend on each   *)
(* other: a behaviour is about one of them.                                *)
(*                                                                         *)
(* A text is abstracted to its form and, when it is a number, to its value *)
(* in thousandths: that is what Number, parseInt and parseFloat tell apart.*)
(* No negative number is enumerated.  Two repairs without which the files  *)
(* do not compile: the brace that closes scheduledJobs, and the second     *)
(* declaration of port in main.ts is dropped.                              *)
(***************************************************************************)
EXTENDS Integers, Tables

CONSTANTS Integral, Fractional, \* the numbers tried, in thousandths
          Top                   \* no upper limit

ASSUME ConfigurationAssumption ==
    /\ \A n \in Integral : n \in 0..Top /\ n % 1000 = 0
    /\ \A n \in Fractional : n \in 0..Top /\ n % 1000 # 0
    /\ Top \in Nat /\ Top >= 604800000      \* no default is larger

VARIABLES name,         \* the variable
          text,         \* what the environment holds for it
          validated,    \* what envSchema.parse returns for it
          configured,   \* what configuration() returns for it
          boot          \* the stage

configurationVars == <<name, text, validated, configured, boot>>

TextForms == {"unset", "empty", "digits", "fraction", "exponent", "true", "false", "word",
          "secret", "hex64", "email", "url", "list", "NaN"}
Form(f) == [form |-> f, milli |-> 0]
Unset == Form("unset")
Empty == Form("empty")
Digits(n) == [form |-> "digits", milli |-> n]
Fraction(n) == [form |-> "fraction", milli |-> n]
Texts == {Form(f) : f \in TextForms \ {"digits", "fraction", "exponent", "list", "NaN"}}
         \cup {Digits(n) : n \in Integral} \cup {Fraction(n) : n \in Fractional}
         \cup {[form |-> "exponent", milli |-> n] : n \in Integral \ {0}}    \* "1e3"

IsNumeral(t) == t.form \in {"digits", "fraction", "exponent"}

(* Number(''), unlike parseInt(''), is 0. *)
Number(t) == IF IsNumeral(t) \/ t = Empty THEN Digits(t.milli) ELSE Form("NaN")
(* parseInt stops at the first character that is no digit: 1e3 is 1. *)
parseInt(t) == CASE t.form \in {"digits", "fraction"} -> Digits((t.milli \div 1000) * 1000)
                 [] t.form = "exponent" -> Digits(1000)
                 [] OTHER -> Form("NaN")
parseFloat(t) == IF IsNumeral(t) THEN Digits(t.milli) ELSE Form("NaN")
Flagged(t) == IF t.form = "true" THEN t ELSE Form("false")
----------------------------------------------------------------------------
(* The schema: [kind, bounds of a number, required, default]. *)

Rule(kind, min, max, int, required, default) ==
    [kind |-> kind, min |-> min, max |-> max, int |-> int, required |-> required,
     default |-> default]
Port(n) == Rule("number", 1000, 65535000, FALSE, FALSE, Digits(n * 1000))
RequiredPort == Rule("number", 1000, 65535000, FALSE, TRUE, Unset)
Positive(n) == Rule("number", 1, Top, FALSE, FALSE, Digits(n * 1000))
PositiveInt(n) == Rule("number", 1, Top, TRUE, FALSE, Digits(n * 1000))
NonNegative(n) == Rule("number", 0, Top, FALSE, FALSE, Digits(n * 1000))
NonNegativeInt(n) == Rule("number", 0, Top, TRUE, FALSE, Digits(n * 1000))
Between(lo, hi, n) == Rule("number", lo * 1000, hi * 1000, FALSE, FALSE, Digits(n * 1000))
BetweenInt(lo, hi, n) == Rule("number", lo * 1000, hi * 1000, TRUE, FALSE, Digits(n * 1000))
Flag(default) == Rule("flag", 0, 0, FALSE, FALSE, Form(default))
Required(kind) == Rule(kind, 0, 0, FALSE, TRUE, Unset)
Optional(kind) == Rule(kind, 0, 0, FALSE, FALSE, Unset)
WithDefault(kind, default) == Rule(kind, 0, 0, FALSE, FALSE, default)

ApplicationSchema ==
    [NODE_ENV |-> WithDefault("enum", Form("word")), PORT |-> Port(3000),
     LOG_LEVEL |-> WithDefault("enum", Form("word")), SWAGGER_ENABLED |-> Flag("false"),
     BODY_LIMIT_JSON |-> Between(1, 100, 10),
     BODY_LIMIT_URLENCODED |-> Between(1, 100, 10)]

DatabaseSchema ==
    [DB_HOST |-> Required("text"), DB_PORT |-> RequiredPort, DB_USER |-> Required("text"),
     DB_PASSWORD |-> Required("text"), DB_NAME |-> Required("text"), DB_SSL |-> Flag("false")]

SecretsSchema ==
    [JWT_SECRET |-> Required("secret"), JWT_EXPIRY |-> Positive(3600),
     SLOW_QUERY_THRESHOLD_MS |-> Positive(1000),
     REFRESH_TOKEN_SECRET |-> Required("secret"), REFRESH_TOKEN_EXPIRY |-> Positive(604800),
     OTP_SECRET |-> Required("secret"), OTP_EXPIRY |-> Positive(300)]

ServicesSchema ==
    [MAIL_HOST |-> Required("text"), MAIL_PORT |-> RequiredPort,
     MAIL_USER |-> Required("email"), MAIL_PASSWORD |-> Required("text"),
     MAIL_FROM |-> Required("email"), MAIL_SECURE |-> Flag("false"),
     REDIS_HOST |-> WithDefault("any", Form("word")), REDIS_PORT |-> Port(6379),
     REDIS_PASSWORD |-> Optional("any"),
     RATE_LIMIT_WINDOW_MS |-> Positive(60000), RATE_LIMIT_MAX_REQUESTS |-> Positive(100),
     IDEMPOTENCY_TTL_HOURS |-> PositiveInt(24),
     IDEMPOTENCY_CLEANUP_CRON |-> WithDefault("text", Form("word")),
     ARCHIVE_ENABLED |-> Flag("true"), ARCHIVE_THRESHOLD_MONTHS |-> BetweenInt(1, 120, 12),
     ARCHIVE_BATCH_SIZE |-> BetweenInt(10, 5000, 500),
     ARCHIVE_CRON |-> WithDefault("text", Form("word"))]

(* WALLET_BALANCE_CACHE_TTL_SECONDS is declared twice: the second counts. *)
PlatformSchema ==
    [SUPPORTED_CURRENCIES |-> WithDefault("text", Form("word")),
     CACHE_EXCHANGE_RATE_TTL_SECONDS |-> PositiveInt(60),
     CACHE_SUPPORTED_CURRENCIES_TTL_SECONDS |-> PositiveInt(86400),
     CACHE_ADMIN_STATS_TTL_SECONDS |-> PositiveInt(60),
     WALLET_BALANCE_CACHE_TTL_SECONDS |-> PositiveInt(30),
     ADMIN_ALLOWED_IPS |-> WithDefault("any", Empty),
     WEBHOOK_MAX_ATTEMPTS |-> PositiveInt(5), WEBHOOK_BACKOFF_DELAY_MS |-> PositiveInt(1000),
     WEBHOOK_REPLAY_WINDOW_HOURS |-> PositiveInt(24),
     TERMS_CURRENT_VERSION |-> WithDefault("text", Form("word")),
     BLOCKED_COUNTRIES |-> WithDefault("any", Empty),
     EXTERNAL_API_KEY |-> Optional("any"), EXTERNAL_API_URL |-> Optional("any"),
     EXTERNAL_API_TIMEOUT |-> Positive(30000),
     FCM_SERVER_KEY |-> Optional("any"), APNS_KEY_ID |-> Optional("any"),
     APNS_TEAM_ID |-> Optional("any"), APNS_BUNDLE_ID |-> Optional("any"),
     APNS_PRIVATE_KEY |-> Optional("any"),
     REFERRAL_REWARD_AMOUNT |-> NonNegative(10), REFERRAL_MAX_REFERRALS |-> NonNegativeInt(100),
     REFERRAL_PROGRAM_ACTIVE |-> Flag("true"),
     ADMIN_ALERT_EMAIL |-> Optional("email"), ADMIN_ALERT_SLACK_WEBHOOK_URL |-> Optional("url"),
     ADMIN_ALERT_RATE_LIMIT_MINUTES |-> PositiveInt(15)]

AmlAndFxSchema ==
    [AML_STRUCTURING_THRESHOLD |-> NonNegative(10000),
     AML_STRUCTURING_WINDOW_HOURS |-> NonNegativeInt(24),
     AML_STRUCTURING_MIN_COUNT |-> NonNegativeInt(3),
     AML_SMURFING_WINDOW_HOURS |-> NonNegativeInt(1),
     AML_SMURFING_MIN_WALLETS |-> NonNegativeInt(3), AML_SMURFING_VARIANCE_PCT |-> NonNegative(5),
     AML_VELOCITY_WINDOW_HOURS |-> NonNegativeInt(1), AML_VELOCITY_MAX_COUNT |-> NonNegativeInt(10),
     AML_RISK_SCORE_WEIGHT |-> NonNegativeInt(30),
     FX_REVERSAL_WINDOW_MINUTES |-> NonNegativeInt(5),
     OPEN_EXCHANGE_RATES_API_KEY |-> Optional("any"), EXCHANGE_RATE_HOST_API_KEY |-> Optional("any"),
     WALLET_ENCRYPTION_KEY |-> Required("hex64"),
     SWAP_SLIPPAGE_PERCENT |-> Rule("number", 1, 100, FALSE, FALSE, Fraction(5)),
     SWAP_PREVIEW_CACHE_TTL_SECONDS |-> PositiveInt(30),
     PENDING_TX_TIMEOUT_MINUTES |-> PositiveInt(30),
     KYC_STORAGE_HOST |-> Optional("any"), STELLAR_ASSET_ISSUERS |-> Optional("any"),
     THROTTLE_AUTH_LIMIT |-> PositiveInt(5), STELLAR_HOT_WALLET_SECRET |-> Required("text")]

envSchema == Together({ApplicationSchema, DatabaseSchema, SecretsSchema, ServicesSchema,
                       PlatformSchema, AmlAndFxSchema})

Accepts(r, t) ==
    IF t = Unset THEN ~r.required
    ELSE
    CASE r.kind = "number" -> LET n == Number(t) IN
            /\ n.form # "NaN" /\ n.milli >= r.min /\ n.milli <= r.max
            /\ r.int => n.milli % 1000 = 0
      [] r.kind = "text" -> t # Empty
      [] r.kind = "enum" -> t.form = "word"            \* a member of the list
      [] r.kind \in {"email", "url", "hex64"} -> t.form = r.kind
      [] r.kind = "secret" -> t.form \in {"secret", "hex64"}
      [] OTHER -> TRUE                                 \* flag, any

Parsed(r, t) ==
    LET s == IF t = Unset THEN r.default ELSE t IN
    CASE r.kind = "number" -> Number(s)
      [] r.kind = "flag" -> Flagged(s)
      [] OTHER -> s
----------------------------------------------------------------------------
(* configuration(): how a variable is read, and the text after its ||. *)

Setting(read, fallback) == [read |-> read, fallback |-> fallback]
Whole(n) == Setting("parseInt", Digits(n * 1000))
Float(t) == Setting("parseFloat", t)
Bare(read) == Setting(read, Unset)

NumberSettings ==
    [PORT |-> Whole(3000), BODY_LIMIT_JSON |-> Whole(10), BODY_LIMIT_URLENCODED |-> Whole(10),
     IDEMPOTENCY_TTL_HOURS |-> Whole(24), DB_PORT |-> Whole(5432), JWT_EXPIRY |-> Whole(3600),
     SLOW_QUERY_THRESHOLD_MS |-> Whole(1000), REFRESH_TOKEN_EXPIRY |-> Whole(604800),
     OTP_EXPIRY |-> Whole(300), EXTERNAL_API_TIMEOUT |-> Whole(30000), MAIL_PORT |-> Whole(587),
     REDIS_PORT |-> Whole(6379), RATE_LIMIT_WINDOW_MS |-> Whole(60000),
     RATE_LIMIT_MAX_REQUESTS |-> Whole(100), ARCHIVE_THRESHOLD_MONTHS |-> Whole(12),
     ARCHIVE_BATCH_SIZE |-> Whole(500), CACHE_EXCHANGE_RATE_TTL_SECONDS |-> Whole(60),
     CACHE_SUPPORTED_CURRENCIES_TTL_SECONDS |-> Whole(86400),
     CACHE_ADMIN_STATS_TTL_SECONDS |-> Whole(60), WEBHOOK_MAX_ATTEMPTS |-> Whole(5),
     WEBHOOK_BACKOFF_DELAY_MS |-> Whole(1000), WEBHOOK_REPLAY_WINDOW_HOURS |-> Whole(24)]

GroupSettings ==
    LET texts == {"NODE_ENV", "JWT_SECRET", "REFRESH_TOKEN_SECRET", "OTP_SECRET",
                  "EXTERNAL_API_KEY", "EXTERNAL_API_URL", "MAIL_HOST", "MAIL_USER",
                  "MAIL_PASSWORD", "MAIL_FROM", "REDIS_HOST", "IDEMPOTENCY_CLEANUP_CRON",
                  "ARCHIVE_CRON", "TERMS_CURRENT_VERSION", "FCM_SERVER_KEY", "APNS_KEY_ID",
                  "APNS_TEAM_ID", "APNS_BUNDLE_ID", "APNS_PRIVATE_KEY",
                  "OPEN_EXCHANGE_RATES_API_KEY", "EXCHANGE_RATE_HOST_API_KEY"}
        bare == {"DB_HOST", "DB_USER", "DB_PASSWORD", "DB_NAME", "WALLET_ENCRYPTION_KEY",
                 "REDIS_PASSWORD", "STELLAR_HOT_WALLET_SECRET"}
        lists == {"SUPPORTED_CURRENCIES", "ADMIN_ALLOWED_IPS", "BLOCKED_COUNTRIES"}
        fallback(n) == IF envSchema[n].default.form = "word" THEN Form("word") ELSE Empty
    IN  Together({[n \in texts |-> Setting("text", fallback(n))],
                  [n \in bare |-> Bare("text")],
                  [n \in lists |-> Setting("list", fallback(n))],
                  [SWAGGER_ENABLED |-> Bare("flag"), DB_SSL |-> Bare("flag"),
                   MAIL_SECURE |-> Bare("flag"), ARCHIVE_ENABLED |-> Setting("flag", Form("true"))]})

BusinessSettings ==
    [REFERRAL_REWARD_AMOUNT |-> Float(Digits(10000)), REFERRAL_MAX_REFERRALS |-> Whole(100),
     REFERRAL_PROGRAM_ACTIVE |-> Setting("flag", Form("true")),
     AML_STRUCTURING_THRESHOLD |-> Float(Digits(10000000)),
     AML_STRUCTURING_WINDOW_HOURS |-> Whole(24), AML_STRUCTURING_MIN_COUNT |-> Whole(3),
     AML_SMURFING_WINDOW_HOURS |-> Whole(1), AML_SMURFING_MIN_WALLETS |-> Whole(3),
     AML_SMURFING_VARIANCE_PCT |-> Float(Digits(5000)), AML_VELOCITY_WINDOW_HOURS |-> Whole(1),
     AML_VELOCITY_MAX_COUNT |-> Whole(10), AML_RISK_SCORE_WEIGHT |-> Whole(30),
     FX_REVERSAL_WINDOW_MINUTES |-> Whole(5), SWAP_SLIPPAGE_PERCENT |-> Float(Fraction(5)),
     SWAP_PREVIEW_CACHE_TTL_SECONDS |-> Whole(30), PENDING_TX_TIMEOUT_MINUTES |-> Whole(30),
     THROTTLE_AUTH_LIMIT |-> Whole(5)]

Settings == Together({NumberSettings, BusinessSettings, GroupSettings})

(* Mutant: every number is read as an integer. *)
ReadTruncated(s, t) ==
    LET u == IF t \in {Unset, Empty} THEN s.fallback ELSE t IN
    CASE s.read \in {"parseInt", "parseFloat"} -> parseInt(u)
      [] s.read = "flag" -> Flagged(u)
      [] s.read = "list" -> Form("list")
      [] OTHER -> u

Read(s, t) ==
    LET u == IF t \in {Unset, Empty} THEN s.fallback ELSE t IN
    CASE s.read = "parseInt" -> parseInt(u)
      [] s.read = "parseFloat" -> parseFloat(u)
      [] s.read = "flag" -> Flagged(u)
      [] s.read = "list" -> Form("list")
      [] OTHER -> u
----------------------------------------------------------------------------
ConfigurationInit ==
    /\ name \in DOMAIN envSchema
    /\ text \in Texts
    /\ validated = Unset
    /\ configured = Unset
    /\ boot = "start"

validateEnv ==
    /\ boot = "start"
    /\ boot' = IF Accepts(envSchema[name], text) THEN "validated" ELSE "refused"
    /\ validated' = IF Accepts(envSchema[name], text) THEN Parsed(envSchema[name], text)
                    ELSE Unset
    /\ UNCHANGED <<name, text, configured>>

(* A default that is undefined is not assigned. *)
assignVarsToProcess ==
    /\ boot = "validated"
    /\ boot' = "assigned"
    /\ text' = IF text = Unset THEN envSchema[name].default ELSE text
    /\ UNCHANGED <<name, validated, configured>>

configuration ==
    /\ boot = "assigned"
    /\ boot' = "configured"
    /\ configured' = IF name \in DOMAIN Settings THEN Read(Settings[name], text) ELSE validated
    /\ UNCHANGED <<name, text, validated>>

(* A port that is 0 or not a number stops the process. *)
bootstrap ==
    /\ boot = "configured"
    /\ boot' = IF name = "PORT" /\ (configured.form = "NaN" \/ configured.milli = 0)
               THEN "stopped" ELSE "listening"
    /\ UNCHANGED <<name, text, validated, configured>>

ConfigurationNext == validateEnv \/ assignVarsToProcess \/ configuration \/ bootstrap

ConfigurationSpec == ConfigurationInit /\ [][ConfigurationNext]_configurationVars
----------------------------------------------------------------------------
(* Type invariant. *)
ConfigurationTypeOK ==
    /\ name \in DOMAIN envSchema
    /\ \A t \in {text, validated, configured} : t.form \in TextForms /\ t.milli \in 0..Top
    /\ boot \in {"start", "refused", "validated", "assigned", "configured", "stopped", "listening"}

(* A process that listens works with the numbers and the flags that were   *)
(* validated, although they are read a second time and by other functions, *)
(* from a second table of defaults: for every plain text (digits, or a     *)
(* fraction where the schema does not ask for whole numbers and the        *)
(* setting is not read by parseInt), and for every variable left out.      *)
(* Texts like 1e3, a fraction that parseInt cuts and the empty text, which *)
(* validates as 0 and is read as the default, are read differently.        *)
ConfiguredAsValidated ==
    boot = "listening" /\ name \in DOMAIN Settings
        /\ text.form \notin {"empty", "exponent"}
        /\ (text.form = "fraction" => Settings[name].read = "parseFloat")
        /\ envSchema[name].kind \in {"number", "flag"}
        => configured = validated
============================================================================
