# Verification of auth-cli

This directory holds TLA+ specifications of `auth-cli` (the Go program in `src/`),
TLC configurations that check them on small instances, and proofs of the main results.
The program is an interactive shell for user accounts. Any number of shells ("terminals")
run against one PostgreSQL, which holds users and sessions, and one Redis, which counts
failed logins. What is hard about it is not a single command but what several terminals,
lost replies, late statements, retries, crashes and deadlines do to each other between two
store calls of a command.

## 1. Inventory

| Part | State | Operations | Correct when |
| --- | --- | --- | --- |
| Login security store (`repository/loginsecurity`) | Redis keys `<user>:failures`, `<user>:blocked` with expiry | `IsBlocked`, the `RecordFailure` script, `Reset`, with the retries of go-redis | the limit is exact per execution; a block lasts as long as configured; the two keys agree; retries bend the limit no further than they must |
| User table (`repository/user`) | names, password hashes, enrolment, `last_login_at` | `FindBy...`, `Create`, `UpdateLastLogin`, `EnableTOTP`, `DisableTOTP` | one row per name; conditional updates let nobody overwrite an enrolment |
| Session table (`repository/session`, `repository/transaction`) | rows with deadline and revocation | `Create`, `FindByTokenHash`, `Revoke`, `DeleteExpired`, `WithinTransaction` | login writes both tables or neither; only dead rows are purged |
| Session service and handler | none | `FinalizeLogin`, `ValidateSession`, `Logout`; `whoami`, `logout` | sessions are independent; the local token follows the row's fate; "Previous login" is a login that happened |
| Authentication service and handler | pending TOTP logins (a map per process) | `Register`, `LoginWithPassword`, `CompleteTOTPLogin`, `CancelTOTPLogin` | no session without the second factor; no unlimited guesses; the map never leaks; whoever registered gets in |
| TOTP service and handler | pending setups, `byUser` and `bySession` (per process) | `BeginSetup`, `ConfirmSetup`, `CancelSetup`, `Disable`, `ValidateEncryptedCode` | the secret enrolled is the one confirmed; the two maps agree; a code is good exactly as long as configured |
| Shell, session state, `main` | the token in `AUTH_CLI_SESSION_TOKEN` | dispatch, startup purge, `Close` | a command runs only in the login state it is for |
| Migrations (`database/postgres`) | `schema_migrations`, the schema, an advisory lock | `Migrate` | each migration runs once, in order, and is recorded with its effect; every startup ends |
| Configuration (`config`) | the environment | `LoadEnvFile`, `Load` | every setting in force is the one asked for |
| Security primitives | none | tokens, bcrypt, AES-GCM | section 2, "Data" |

Interactions: handlers call services synchronously from the one goroutine that reads
commands, so a process is sequential (the mutexes of the services are never contended);
services call each other in process; all concurrency is between processes, at the store calls.
A store call can fail before or after it took effect, and a server may execute a statement
after its client is gone. A process can end at any point and loses its token, its pending
logins and its pending setups. Before it serves commands, a process reads its configuration,
migrates the shared database and purges expired sessions.

Hard behaviours, each listed with its line under `hazards` in `PROJECT.json`: rows read before
a decision and stale when it is taken, check-then-act on the block and on a free name, a commit
or an INSERT whose reply is lost, scripts sent twice, startups that die with the migration lock,
transactions that wait for a row, the many exits of the dialogs, setups that outlive their
session, purge against live terminals, a key or period changed after enrolment, boundary values
of limits, lengths, durations and code windows.

## 2. Modules

The composed system, one store call at a time:

| Module | Models | Extends |
| --- | --- | --- |
| `AccountsAndClock` | account ids and the clock | |
| `LoginSecurity` | the Redis repository; a specification of its own (`LSSpec`) and the store of the system | `AccountsAndClock` |
| `Database` | the two tables and the statements on them | `AccountsAndClock` |
| `Terminals` | processes: program counter, locals, token, dispatch, start, stop | `LoginSecurity`, `Database` |
| `SessionService` | transaction of a login, `ValidateSession`, `whoami`, `logout` | `Terminals` |
| `AuthService` | both stages of `login` | `SessionService` |
| `TOTPService` | `enable-2fa`, `disable-2fa` | `SessionService` |
| `AuthCLI` | the composition, its specification, fairness and properties | `AuthService`, `TOTPService` |
| `SessionTable` | abstract specification of sessions | |
| `MCAuthCLI` | symmetry for TLC | `AuthCLI` |

What that composition takes as one step or leaves to the stores, in detail:

| Module | Models | Implements |
| --- | --- | --- |
| `RedisClient` | calls of `RecordFailure` that go-redis repeats, scripts executed late | `LoginSecurity` |
| `LoginTransaction` | `FinalizeLogin` statement by statement in READ COMMITTED, the row lock, lost sessions | `LoginHistory` |
| `Registration` | `register` from its checks to the INSERT, and how `login` finds the account | `AccountRegistry` |
| `Migrations` | `Migrate` of concurrent startups under the advisory lock | `SchemaHistory` |
| `SecondFactor` | `validateCode` with period, skew and digits, and the cipher of the stored secret | |
| `Configuration` | `.env.local`, parsing and range checks | |

`LoginHistory`, `AccountRegistry` and `SchemaHistory` are abstract specifications: what the
part promises, without transactions, checks, locks or lost connections. `MCLoginTransaction`,
`MCRegistration`, `MCMigrations`, `MCSecondFactor` and `MCConfiguration` give the instances
for TLC. Theorems are in the modules `..._proofs` and in `AuthCLI_steps`.

**Correspondence.** One action is what a process does from one store call (or prompt) to the
next. `pc[t]` names the call or prompt terminal `t` is about to make: an action with
`pc[t] = "IsBlocked"` contains the answer of `IsBlocked` and the code that runs on it up to the
next call. `frame[t]` holds the Go locals still needed: the command (`call`), the user, the
secret read from the row, the code typed, the challenge id, and clock readings. Of these,
`read` and `checked` are only observed by properties; `at` is the `now` of `FinalizeLogin`.
`strikes` and `enrolledAt` are history variables, as are those marked so in the other modules: no
guard reads them. `Registration` follows the same scheme with its own `pc` and `frame`.
In `Migrations` and `LoginTransaction` the program counter (`pc`, `stmt`) names the SQL
statement about to be sent, and the server side (sessions, locks, what a transaction has
written) is state of its own, because it outlives a client.
The definitions whose comment starts with "Mutant" are faulty variants of the definition that
follows them. They are not part of any specification; each shows that some property would notice
the fault.

**Composition.** `AuthCLI` takes the transaction of a login as one step that commits, rolls back
or commits without a reply. `LoginTransaction` opens that step: it shows that the statements have
the effect of one moment (`LoginHistory`). In `LoginTransaction` that moment can come after the caller
was told of a failure; in `AuthCLI` it is the moment of the call. `RedisClient` shows that
a client that repeats scripts still behaves as `LSSpec`, the store of the composed system.
`Registration` and `Migrations` concern what exists before a login: accounts and tables;
`AuthCLI` starts with both. `SecondFactor` is what "the code is that of the secret" means in
`AuthService` and `TOTPService`. `Configuration` is what happens before any of it: which values a process
runs with. Its ranges are those the constants of the other modules may take, up to the units (see "Time").

**Time.** One tick is a millisecond (a second in `SecondFactor`). `positiveDuration` accepts any positive
number of nanoseconds. `Configuration` has durations in whole milliseconds (fractions are left out) and
tells one below a millisecond (`Short`) from zero. Elsewhere `SessionTimeout`, `SetupTimeout` and
`ChallengeTimeout` are in ticks, rounded up, so at least 1. A deadline is an absolute time, compared as in the code
(`now.Before(expiresAt)`, `expires_at <= now`). Redis drops a key in the tick that reaches its
expiry. `LockoutMicros` keeps the sub-millisecond part of the configured duration, because
`Milliseconds()` truncates it; it is rounded down, and 0 when the duration is below a microsecond.

**Data.** In the composed system a secret stands for every code its authenticator shows;
`NoSecret` as a code is a code valid for nothing. In `SecondFactor` a code is its counter, its
secret and its number of digits. A session is its token. Passwords are a choice between right and
wrong in `AuthService` (`VerifyPassword` allows a wrong one always) and values in `Registration`,
where a hash is the one password it matches. Names are members of a small set with their
normalization and length given as functions. `FreshTokens`, `FreshSecrets` and `FreshIds` say that
random tokens, secrets and ids differ from those in use. A ciphertext is a key and a secret,
readable with that key alone. The contents of a migration is its version.

**Failures.** `Unreliable` (`Failing` in `Registration`) names what may fail. For PostgreSQL and
Redis a failing call may or may not have taken effect; for `FinalizeLogin` this includes a commit
whose reply is lost. `"crypto"` is the random source, bcrypt and the AES-GCM cipher. Failures with
no effect on any variable, such as a failing `FindByUsername`, leave the process where it was and
are not written as actions in `AuthCLI`. In `Registration`, `Migrations`, `LoginTransaction` and
`RedisClient` what a lost client has sent may be executed at any later time, or never;
in `Migrations` PostgreSQL may also restart.

**Processes.** `Stop` can interrupt a command at any call. It covers `exit`, end of input, signals
(the context is cancelled, the pending call fails, `Close` runs) and a kill, which all leave the
same state behind: `Close` clears exactly what a dead process loses. In `Migrations` and
`LoginTransaction` the same events are `GiveUp` and `Lose`: the server session lives on for a while.

## 3. Runs

| Run | Instance | Shows |
| --- | --- | --- |
| `lockout` | `RedisClient`, 2 accounts, 3 wrong passwords, limit 3, 1 retry, block 2.5 ms, clock to 4 | types, `CounterSound`, `MaxAttemptsBlocks`, `BlockedOnlyAtLimit`, `BlockWindowFixed`, `BlockNeedsWrongPasswords`, `CountedLimitBlocks`; `BlocksLapse` under fairness |
| `login` | 2 terminals, 1 account enrolled or not, 2 tokens, limit 2, clock to 4, `login`/`whoami`/`logout`, all parts failing | types, `CommandContext`, `ChallengeOnlyInDialog`, `SessionIsolation`, `EarlyUnblockOnlyByRacer`, `CountClearedByFullLogin`, refinement of `LSSpec` and of `SessionTable` |
| `two_factor` | 2 terminals, 1 account, 2 secrets, sessions no longer than setups, `login`/`whoami`/`enable-2fa`/`disable-2fa`, PostgreSQL and crypto failing | `SetupIndexConsistent`, `DialogOwnsSetup`, `SecondFactorRequired`, `EnrolledSecretConfirmed`, `RemovalVerified`, `TokenKept` |
| `dialogs` | 2 terminals, 1 account, sessions of 2 ticks and setups of 1, `login`/`enable-2fa`, `FairSpec` | `LoginDialogEnds`, `SetupDialogEnds` |
| `migrations` | an old release with one migration and a coming one with three, 3 server sessions, `MigFairSpec` | `LedgerExact`, `NeverAppliedTwice`, refinement of `SchemaHistory`; `StartupEnds` |
| `registration` | 2 terminals, 2 names in 3 spellings (one longer than the column), 2 passwords, 3 ids, PostgreSQL and bcrypt failing | `OneAccountPerName`, `OwnPasswordOpens`, refinement of `AccountRegistry` |
| `login_transaction` | 3 logins into one account, clock to 3, `LTFairSpec` | types and locks, `PreviousLoginShown`, refinement of `LoginHistory`; `FinalizeLoginEnds` |
| `second_factor` | 2 keys, periods 2 and 3, skew 0 and 1, 6 or 8 digits, clock to 6 | `KeyDecides`, `PromptCodeAccepted`, `OtherCodesRefused` |
| `configuration` | every setting with each of 11 raw values, files of up to two lines | `RunsAsAsked`, `EnvFilePrecedence` |
| `short_lockout`, `stale_flag`, `long_names` | reliable stores | a counterexample each: section 4 |

**Bounds.** `MaxTime` stops the clock; every deadline is shorter, so that it passes within the
horizon in the runs whose properties need it (challenge, setup and session expiry, lapse of a block). Two
terminals are enough for the properties checked: each relates one terminal with at most one other, and
what every terminal does is the same. Two tokens let an abandoned session and its successor coexist,
or each terminal hold one; when all are in use, `FinalizeLogin` waits until one is purged. Two secrets
are the least for an enrolment that replaces another. `MaxAttempts = 2` makes both a counted and a
blocking failure happen; `lockout` uses 3. One challenge id suffices, since a process runs one dialog
at a time. In `two_factor` and `dialogs` one account uses a terminal again and again, so that a new
session finds the setup an expired one left behind. In `dialogs` the session may end
before the setup as well as after it, each within the horizon. Several accounts that use one terminal in turn
are covered by the theorems about setups, which hold for any number. In `lockout` one retry makes a
call count twice; the client's default is three, and `BlockNeedsWrongPasswords` is stated for
any. In `migrations` two startups race, with a third server session for one that was lost, and the two
releases differ by two migrations, so that one is skipped and two are applied; any number of
startups and releases is covered by theorem. Three logins are the least for which the oldest clock can
commit last. The clock of `second_factor` spans two to three periods, enough for a code to be current, one period off
and too old on either side. `configuration` varies one setting at a time, and a second one
through the file: every condition of `Load` is about one setting or a pair. What is asked of a process is a
pair of an environment and a file, and `RunsAsAsked` compares it with what is in force: that nothing unparsable is
replaced by a default, that zero and short durations are values, that no malformed line is passed over. These instances are small; the
theorems of section 5 hold without the bounds.

**Fairness.** Safety properties need none. `RCFairSpec` assumes that the clock of Redis goes on.
`FairSpec` assumes the same and, for each terminal, weak fairness of the next step of a
login or setup in progress: the pending store call returns or fails (drivers and the context bound it),
and whoever sits at the prompt eventually types something or closes it. It does not assume that a code
is ever right, that a dialog is ever cancelled, or that anyone starts a command. Because the clock of the model
stops, `LoginDialogEnds`, `SetupDialogEnds` and `BlocksLapse` speak of deadlines within the horizon.
`LoginDialogEnds` also excepts a login that waits for a token the instance has used up.
`MigFairSpec` and `LTFairSpec` assume that a statement that does not wait for a lock returns or
fails, that PostgreSQL ends a session whose client is gone, and, as strong fairness, that a waiter gets a lock
that is freed again and again: PostgreSQL queues requests for advisory and row locks in order.
They do not assume that a statement succeeds or that a client survives.
`StartupEnds` excepts a lock that a serving process keeps because its unlock failed (the code
discards that error, `migrations.go:43`).

Deadlock is checked except in `login_transaction` and `configuration`: there every login is used up, or the
startup is over, and the model rightly stops.

## 4. Where code and documents disagree

Three runs check a sentence of the repository and find it violated by what the code does.

- `short_lockout`: "With `5`, the fifth failure starts the temporary block" (README, "A user becomes locked
  quickly"). With a lockout below 1 ms, which the configuration accepts, `PSETEX` gets 0 and fails
  after the counter was deleted: no block, and the count starts again.
- `stale_flag`: the help text of `login`, "Authenticate with a username, password, and TOTP when enabled".
  The flag comes from the row read at the start; an enrolment in between is missed.
  `SecondFactorRequired` shows that this is the only way.
- `long_names`: the help text of `register`, "Username: %d-%d characters" with the configured maximum. The
  column is `VARCHAR(50)` and the configuration sets no upper bound, so a longer valid name fails at the INSERT.

Three more sentences hold only up to a race or a retry, and the property that is checked says exactly
how far:

- "Existing Redis blocks remain until their TTL expires" (same place): a login past `IsBlocked` resets
  both keys and lifts a block that another terminal's failures caused meanwhile. `EarlyUnblockOnlyByRacer`
  shows that this is the only way.
- "Disable TOTP after password and code verification": `DisableTOTP` does not mention the secret
  that was verified, so an enrolment made in between is removed. `RemovalVerified` shows that this is the only way.
- "With `5`, the fifth failure starts the temporary block", once more: go-redis repeats a script whose reply is
  lost, so one wrong password may count up to `MaxRetries + 1` times and the block comes early.
  `BlockNeedsWrongPasswords` bounds how early; `CountedLimitBlocks` shows that it never comes late.

All of these need two terminals, a lost reply or an unusual configuration, and a short window.

## 5. Proofs

Checked by TLAPS, for all values of the constants that satisfy the named assumptions (nulls are not
members of their sets; limit, timeouts and periods are positive, the lockout in microseconds may be 0; releases only append migrations; sets
may be empty or infinite).

- `LoginSecurity_proofs`: `LSTypeCorrect`, then `CounterCorrect` (needs the types),
  then `LimitCorrect` (needs both: the counter must be gone when a block ends, else the next strike
  would count twice), from which `MaxAttemptsBlocksCorrect` follows. The last two assume
  `LockoutMicros >= 1000`; run `short_lockout` shows the assumption is needed, and `ShortLockoutCorrect`
  that without it nobody is ever blocked. `BlockWindowCorrect` is an action property.
- `RedisClient_proofs`: `ClientCorrect` (a client that repeats and delays scripts implements `LSSpec`, so
  the theorems above hold of it). `CountedLimitCorrect` (a block is not late) needs `CountSound`: every call that
  counted is a strike. `WrongPasswordsCorrect` (it is not early) needs the opposite bound,
  `StrikesSound`: a strike is an execution of the script of a call that counted, and each call is
  executed at most `MaxRetries + 1` times. It holds for every lockout: a short one blocks nobody.
- `AuthCLI_proofs`: the inductive invariant
  `IInv == TypeOK /\ CommandContext /\ ChallengeOnlyInDialog /\ SessionIsolation`.
  None of the four is inductive alone. The type of `frame[t].user` after `CompleteTOTPLogin` rests on
  the challenge still being in the map (`ChallengeOnlyInDialog`); that in turn rests on the dialog's user
  being an account (`CommandContext`); that no terminal holds a revoked token rests on nobody else holding it.
  The proof has one lemma per action; `Move`, `End`, `ReturnInv` and `ContinueInv` say
  what the recurring shapes of a step preserve. `TypeCorrect`, `SessionsIsolated`,
  `ChallengesCleaned` and `ContextKept` are its parts. A second invariant, `PendingInv`, inductive relative to
  `IInv`, gives `SetupIndexCorrect` and `DialogsOwnSetups`. Its additional part, `SetupOwner`, says that a
  pending setup belongs to the user of its session's row: without it `BeginSetup` could meet a setup
  of another user under its own session, and the maps would part. Most steps touch no setup and
  are instances of `NeutralStep`.
- `AuthCLI_steps`: first the refinements. `LockoutCorrect` (the system implements `LSSpec`), so that the
  theorems about the repository hold of the system: `SystemBlocksAtLimit`, `SystemBlocksOnlyAtLimit`. And
  `SessionTableCorrect`: under `table <- sessions, holder <- token`, a committing
  `FinalizeLogin` is `Open`, `LogoutRevoke` is `Close` or `Forget`, a startup is `Purge`, a tick is `Pass`;
  the other steps are `Forget` or stutter.
  Then the action properties. They depend on what a command remembers from earlier calls while other
  terminals go on, which is a third invariant, `EvidenceInv`, inductive relative to `IInv`
  (`EvidenceCorrect`). Its parts: `ClocksPast` (no clock reading in a frame is in the future),
  `RowRemembered` (the secret read from a user's row is still the one enrolled, or TOTP was removed, or
  the user was enrolled since the read), `CodeVerified` (past the check of a code, the code in the frame
  is that of the secret read) and `BlockUnseen` (a block that `Reset` is about to lift began after the last
  look). Each step either keeps what is remembered or looks again. `SecondFactorCorrect`,
  `CountClearCorrect` and `RemovalCorrect` use the middle two, `EarlyUnblockCorrect` the last,
  `EnrolmentConfirmed` the indexes of pending setups, `TokenKeptCorrect` the types.
  Three results follow that no run lists: `SessionsFinalCorrect` (a session keeps its user and deadline,
  only its holder revokes it, only its deadline deletes it, nothing reopens it), `OwnSessionCorrect`
  (whoever becomes logged in holds the session this login opened, for the user it checked) and
  `DeadlinesCorrect` (sessions, pending logins and pending setups end within their timeouts).
- `LoginTransaction_proofs`: the inductive invariant adds to the types `Progress` (what a transaction
  holds follows from how far it is) and `HistorySound`. The heart is `Explains(m, ...)`: the value `m` in
  `last_login_at`, or read from it, is that of some committed login, and every commit with a later clock was followed by
  one with an older clock that overlapped it. `PreviousLoginCorrect` follows. `HistoryCorrect` is the refinement: a
  commit, in time or late, is `Happen`.
- `Registration_proofs`: one row per name is inductive only with `RowsSound` (rows, and INSERTs on their way, were
  chosen; who was told has a row) and `CommandSound` (a command keeps its normalized name).
  `NamesUnique`, `RegisteredGetIn` and the refinement `RegistryCorrect` follow.
- `Migrations_proofs`: everything rests on who holds the lock. `SessionsSound`: only the session that holds it has a
  transaction or a COMMIT to execute, lost or not. `LoopSound` and `LostSound`: the migration in hand is
  `Due`, the lowest one missing, because nobody else could commit since the check.
  `LedgerCorrect`, `AppliedOnce` and `SchemaHistoryCorrect` follow.
- `Settings_proofs`: two independent parts. `Configuration`, for any environment and any file:
  `CfgInv` says that each setting has its value from the process, from nobody, or from its first entry read so far
  (`FromFirst`, which is inductive because `load` tests whether a variable exists and not whether it is blank), and
  how far loading has come (`Reached`: no malformed line was passed over, `Load` saw the whole file). Together
  they say what is in force is what was asked: `PrecedenceCorrect` and `RunsAsAskedCorrect`.
  `SecondFactor`: the last outcome is that of a check against what is enrolled; with lemmas about division,
  `KeyDecidesCorrect`, `PromptCodeCorrect` and `OtherCodesCorrect` hold for every period and skew. The last
  compares a counter of the app's period with a window of the process's, which needs no assumption that the two
  are equal: `CloseCounters` multiplies the inequalities out.

Every safety invariant, action property and refinement that a passing run checks is thus proved.
Only model-checked is liveness (`BlocksLapse`, `LoginDialogEnds`, `SetupDialogEnds`, `StartupEnds`,
`FinalizeLoginEnds`), which is out of the prover's reach; and what the code violates (section 4) is
refuted by a run, not proved.

## 6. Plan

Done: the core (login, lockout, sessions, two-factor) with its two refinements, registration,
migrations, login transactions, the retrying client, the second factor and the configuration, with
four more refinements, and proofs of all their safety and action properties. What could follow:

1. An abstract login protocol (password, then code, at most `MaxAttempts` failures per window) that `AuthCLI`
   implements up to the races of section 4.
2. The bound of `RedisClient` carried into `AuthCLI`: its `RecordFailure` with retries as a step of a login.
3. An abstract view of enrolment (secret confirmed, enabled, removed) as a refinement of its own.

## 7. Not modelled

- bcrypt, SHA-256, AES-GCM, HMAC: libraries; only their contracts are used (section 2). That codes of different
  time steps or secrets may coincide by chance, and that a code can be used twice within its window, is left out.
- The unknown user name: `LoginWithPassword` compares a dummy hash and changes nothing. Timing is not modelled.
- Settings that are texts (URLs, issuer, history path): any text is accepted, a blank one gets its default first.
- Parsing of the command line, prompts, history, completion, QR output, wording: input and output without state.
- Data transfer types, error values and generated mocks have no behaviour of their own.
- Deletion or renaming of accounts: no operation does it. Rollback of migrations: none exists.
- Clock differences between terminals and servers: one clock is shared (`SecondFactor` has the app's clock differ).
