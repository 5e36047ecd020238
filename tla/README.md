# Verification of SecureVPN: backend, sign-in and app

TLA+ models of the system in this repository, the TLC configurations that check
them on small instances, and TLAPS proofs of the results that hold for every
size.  All paths below are relative to the repository root.

To check: `tlc -config <run>.cfg <MC module>.tla` (the module is named in section
3), and `tlapm` on each module of section 4.

## 1. The system

A phone buys minutes of VPN time by watching rewarded ads.  A NestJS backend
over PostgreSQL keeps the ledger of sessions and of the time they were given;
an external panel (Rebecca or Remnawave) holds one user per session and is what
really lets traffic through.  No transaction is open while the panel is called:
a handler commits its decision with a row in an outbox table, calls the panel
afterwards, and a worker repeats from the outbox what the inline call did not
achieve.  Nearly everything that is hard follows from that gap.

| component | state | operations | talks to |
|---|---|---|---|
| connection (`connection/`) | `vpn_sessions`, `ad_reward_grants`, `panel_operations`, `nodes.error_streak` | `connect`: guard, tier, transaction, inline revoke, create, check, `failSession` | database, panel |
| ad rewards (`ads/`) | `ad_reward_grants`, `ad_rewards`, `vpn_sessions`, `panel_operations` | request-ad-token, SSV callback, verify-ad-reward | database, panel, AdMob |
| outbox drainer (`workers/`) | `panel_operations` | claim with lease, dispatch, complete or fail | database, panel |
| reaper (`workers/`) | `vpn_sessions`, `panel_operations` | sweep of overdue sessions | database |
| node sync (`workers/`) | `nodes` | status, error streak | database, panel |
| operator commands (`admin/`, telegram) | `users`, `subscriptions`, `vpn_sessions`, `nodes`, outbox, audit log | ban, tier, kick, panic, drain, evacuate | database |
| panel clients (`panel/`) | Rebecca's admin token, the login under way | create, set expiry, get, disable, delete, list; login and repetition after a 401 | panel |
| SSV verifier (`ads/admob-ssv.verifier.ts`) | AdMob's keys, the fetch under way | verify a callback | Google's key server |
| authentication (`auth/`, `admin-auth/`) | `users`, `devices`, `refresh_tokens` | anon, register, login, refresh, logout | database |
| attestation (`attest/`) | `attestation_challenges`, `devices` | challenge, verify, guard of `/connect` | database, Google |
| app (`flutter_app/lib`) | tokens, connection phase, preloaded ad | connect, cancel, disconnect, one-shot refresh | backend, tunnel, AdMob |
| tunnel services (Android, iOS) | core, TUN descriptor, expiry timer, config in the keychain | start, stop, hard expiry, revocation | app, sing-box |
| web admin (`web/`) | tokens shared by tabs | refresh mutex, API calls | backend |

What makes each correct, in a sentence:

- *connection*: a user never has more live sessions than the plan allows, a
  device never two; whatever fails, a panel user is not forgotten.
- *rewards*: time is bought by confirmed ads, once per grant, up to the cap; the
  panel mirrors the ledger and never exceeds it.
- *panel clients*: a token that went stale costs a call one repetition and no
  more, as long as the panel lets it log in; a login the panel refuses is final
  for the calls that wait for it, and for no others.
- *SSV verifier*: a withdrawn key dies with the cache, and a new key is looked up
  before a callback is refused over it.
- *drainer*: every row is carried out or given up visibly, whatever crashes;
  a row that is settled stays settled.
- *reaper, operator*: a closed session and the row that cleans up after it
  appear together; closed is final.
- *refresh tokens*: one sign-in has one valid token; a retired token that is
  presented again ends the sign-in for good.
- *login*: parallel guesses cannot outrun the lock, and nobody gets in past it.
- *token clients*: a client with one refresh mutex never presents a token twice,
  so reuse detection is never a false alarm.
- *attestation*: assertions are accepted in the order in which they were signed,
  and the phone signs with a key the server knows.
- *app and tunnel*: a flow that started settles; a stop is final; every tunnel
  has its end and every stored credential a process that will wipe it.

The hard behaviours are listed one by one, each at its line, under "hazards" in
`PROJECT.json` with the property that would catch it, or why none does.

## 2. The modules

```
Database            tables, shared statements, the clock
  PanelApi          the panel, one call to it, and how it fails
    OutboxDrainer   workers/outbox-drainer.worker.ts
    Connection      connection/connection.service.ts, attest/attested.guard.ts (ban)
    AdRewards       ads/ads.service.ts
  Maintenance       reaper, node sync, admin.service.ts
    Backend         all of them over one database and one panel; the properties
      MCBackend       instances for TLC
      BackendProofs, ContractProofs, ServiceProofs, MirrorProofs   TLAPS
SessionContract     what the backend promises of a session (abstract)

PanelAuth           RebeccaPanelClient.ts: the admin token
SsvIntake           admob-ssv.verifier.ts, ads.controller.ts: AdMob's keys
  Fetches           one backend process with both caches
    MCFetches, FetchProofs

RefreshTokens       auth/auth.service.ts, refresh_tokens
  RefreshTokensProofs
  Accounts          register, login and its lockout, admin login
  TokenClients      the interceptors of the app and of the web dashboard
    SignInFlow      accounts, tokens and one client together
      MCSignInFlow, SignInProofs

Attestation         attest.service.ts, attested.guard.ts, the phones' bridges
  ConnectionFlow    connection_flow.dart and singbox_vpn_engine.dart
    AndroidTunnel   SingBoxVpnService.kt, MainActivity.kt, VpnBus.kt
    IosTunnel       AppDelegate.swift, PacketTunnelProvider.swift, SharedKeychain.swift
RewardedAds         admob_reward_service.dart
  VpnApp            one phone: the flow over attestation, ads and tunnel
    MCVpnApp, VpnAppProofs
```

**Database.**  One function per table, from row ids (model values) to records;
a row that was not inserted yet has `st = "none"`.  Each handler's transaction is
one step: they are serializable or take row locks that make them so, and one
the database aborts changes nothing.  What happens *between* the statements a
handler commits separately is a step of its own, always.  Outbox rows are named
after what enqueues them (`End(s)`, `Fail(s)`, `Extend(g)`): the code enqueues
each at most once, which `CleanupMatchesStatus` and `ConsumedOnce` depend on and
which the actions show.  `due` stands for `next_attempt_at <= now()`: leases and
backoffs lapse by `Elapse`, at any moment, so a lease may lapse during the calls
of the instance that holds it.

**PanelApi.**  `Applied` is what a call makes of the panel's user; `PanelCall`
is the call with its four outcomes: answered, refused without effect, applied
with the answer lost, abandoned by `fetchWithTimeout` (then it sits in `limbo`
and may `Land` at any later time, or never).  A failure is `retry` or `final`
as `PanelError.retryable` has it.  Rebecca's `setUserExpiry` writes, then reads
back in a second step and rejects a mismatch for good; Remnawave's does not send
an expiry in the past and re-activates the user when it sends one.  The panel
itself is external and modelled by what the clients rely on.  The models take
the panel client to implement `IPanelClient`, as each caller does;
`DynamicPanelClient.ts` does not at this commit (it lacks `setUserExpiry`,
`getUser`, `disableUser` and `listNodes`, and imports types that do not exist).

`PanelCall` takes the login and the repetition after a 401 to be inside the one
call, whose answer is then that of the login or of the repetition: `retry` for a
timeout or a 5xx, `final` for a second 401 and for any login the panel refuses
with a 4xx, a 429 included (`RebeccaPanelClient.ts:81`, where the other calls
retry a 429).  When the second 401 may come is `PanelAuth`.

**PanelAuth.**  `Begin` is `request` up to its first await, `Reauthorise` its
way with a first 401.  `login` is `inflightAuth`: started or joined by `JoinLogin`,
granted or refused by the panel, and then over for all who wait.  It ends in one
of three ways, as `RebeccaPanelClient.ts:80-82` has it: with a token
(`LoginSettles`); with an error that is not retryable, when the panel answered
with a 4xx, a 429 included (`LoginRefused`: every waiting call is `barred`, and
its row dead, a stale token's repetition no less than a first call); or with a
retryable one, for a 5xx or the timeout (`LoginFails`).  A second 401 is the
other error that is not retryable (`denied`).  `refusals` and `told` count the
refused logins, and those of them that are over.  A token is
named after the panel's secret it was signed with; what makes a token bad is
that the panel voids all of them (`PanelVoids`).  That a single token runs out at
the panel before the hour that the client reckons with is not modelled; the last errors of a call itself are not told apart (`failed`),
they are `PanelApi`'s.

**SsvIntake.**  `Receive` is a callback up to its first await: judged by the
cache, or waiting for the fetch.  `FetchSettles` and `FetchFails` judge all who
wait at once.  Google publishes and withdraws keys at any moment; the history
variables `dead` and `newer` record what the properties compare with.  The
signature and the fields of a callback are a choice (`good`).

**Fetches.**  Both in one process.  They share nothing but `Restart`, so a
behaviour of `MCFetches` exercises one of them; the proofs are about both.

**OutboxDrainer.**  `Claim`, `Dispatch`, `DispatchSecond` (a revoke disables and
then deletes), `Record`; `DrainerCrash` forgets the tick and leaves its rows.
The drainer keeps the attempts its claim returned, as the code's `op.attempts`.

**Connection.**  A request's program counter runs through `AttestedGuard`,
`ResolveTierAndExpiry`, `Admit` or `Refuse` (the transaction), `Displace`,
`DisplaceDelete` and `DisplaceRecord` for each displaced user, `CreateUser`,
`CheckUser`, and the three statements of `failSession`.  `ConnCrash` cuts it
anywhere.  A request is identified with the session id it will insert; a retried
connect is another id.  The attestation checks of the guard are constant: the
requests are those of an attested device.  A subscription with no period end
(premium of bounded length, re-evaluated on each connect) is not modelled; the
only writer of subscriptions in the code always sets one.

**AdRewards.**  `RequestAdToken`, `RecordVerifiedReward` (one delivery of one
AdMob transaction), `VerifyAdReward` (the transaction), then `PushExpiry`,
`PushReadBack`, `PushRecord`.  The update that marks a grant expired is not an
action: the exception thrown after it rolls it back (`ads.service.ts:220-226`).

**Maintenance.**  `Reap` closes any non-empty part of the overdue sessions
(locked rows are skipped), `NodeSync` and the commands of `AdminService`.

**RefreshTokens.**  `SignIn`, the three outcomes of `refresh`, `Logout`, and
`Lapse` for `expires_at`.  A client may present any issued token again.

**SessionContract.**  The abstract specification: a session is opened once,
within its user's limit and alone on its device; closed for good; extended
forward, each time for a grant never used before.  `Backend!Contract` maps the
tables to it (a session is open while its status is a live one), and
`KeepsContract` says that `Backend` implements it.

**Accounts.**  A login is two steps with argon2 between them: `LoginStart` has
read the lock, `LoginWrong` counts the failure, `LoginRight` is the success
transaction that reads the lock again.  `locked` stands for
`locked_until > now()`, and `LockLapse` ends it at any moment.  The admin login
reads once and writes once with nothing in between that matters, so it is one step.

**TokenClients.**  One client over one token store, of one of three kinds: the
app, a dashboard in one tab, a dashboard whose tabs share `localStorage` but not
their mutex.  A request may be answered 401 at any time (access tokens are left
out), the leader of a refresh may be answered, denied, or lose its answer, and
its page may die.  The two clients differ where the code does: the app holds its
mutex through the replay and clears its tokens when the replay fails; the web
lets the others wait and signs out.  Neither client calls `/auth/logout`, and the
app has no screen that calls `/auth/anon`: `Receive` is any sign-in whose answer
reaches the client.

**SignInFlow.**  The three together.  `AdmitStep` is a sign-in whose answer the
client gets or somebody else, `OthersStep` what other clients do with the tokens
of families this one does not hold.

**Attestation.**  An attempt is named with its key pair and its challenge, which
it makes afresh.  The server's part after the challenge is consumed
(`ServerNext`) goes on whatever the phone does, and so does the phone's
attestation service (`PhoneNext`); the requests in between (`RequestNext`) stop
with a cancel.  `/connect` is two steps, as in `Connection`: the guard's one read
of the device row (`GuardPasses`, `GuardDenies`), and the commit that follows it
whatever has become of the row (`ConnectGranted`, `ConnectFails`).  So an attempt
whose key was superseded in between is granted all the same; the grant is
encrypted to the key the guard read.  `signs` is the counter of the saved key and
starts again with each key.  A proof is abstracted to its mode, key and counter; what the
verifiers compute is `VerifyRejected` or not.

**ConnectionFlow.**  The controller's phases, with each `await` a state: the
cancel flag is looked at exactly where `_throwIfCancelled` is, and
`_settleError` reads it once.  `status` is what the platform answers to a query,
`news` the first settled state the confirmation's stream has heard.

**AndroidTunnel, IosTunnel.**  On Android an instance of the service, its fields
(`box`, `expiryRunnable`), the intents that reach it in order, and the start
thread that runs beside the main thread: `AssignBox` and `Announce` are its two
steps.  On iOS the extension, one at a time, and the config the app leaves in
the keychain; the app's chain of callbacks is `PutConfig` and then `StartTunnel`
or `StartTunnelFails`.

**RewardedAds.**  The slot, the shared load, the two viewers, and the nonce an ad
will report with.  Ads are renewed, so their number is only the bound that leaves
one free.

**VpnApp.**  One phone of either platform.  The platform outlives the app:
`AppRestart` forgets everything the app holds in memory.

Definitions marked "Mutant" are the plausible bugs the properties are tested
against, by swapping one of them in for the definition it distorts; no action uses them.

## 3. Runs

All in `MCBackend`, but `sign_in` in `MCSignInFlow`, `fetches` in `MCFetches`, and
`app`, `tunnel_after_stop` and `reregistration` in `MCVpnApp`.  Sizes are distinct states.

| run | instance | checks | states |
|---|---|---|---|
| `connect_races` | two connects of one free user from two devices, one failing call, one abandoned call | `ClosedUserAccounted`, `KeepsContract` | 0.77 M |
| `operator` | two connects from one device, two operator commands, plan changes, clock | `CleanupMatchesStatus`, `ConcurrencyLimit`, `LiveUserServed` | 3.5 M |
| `rewards` | two grants of two ads, two callbacks, windows that pass, inline pushes and replays, Rebecca, one failing call | `TypeOK`, `FreeAccessIsPaid`, `PanelNeverAhead`, `SoleExtensionMirrored`, `ConsumedOnce`, `TimeIsBought`, `ClosedStaysClosed`, `KeepsContract` | 1.5 M |
| `drainers` | two instances, lapsing leases, one restart, one failing and one abandoned call | `CleanupSettlesOnce` | 1.9 M |
| `progress` | one instance with fairness, one restart, one failing call | `OutboxSettles`, `ClosedUserReclaimed`, `OverdueReaped` | 89 k |
| `sign_in` | one user, three tokens, two logins, one client of each kind with two requests, one lock that runs out | `SignInTypeOK`, `OneLivePerFamily`, `ContainedFamily`, `LinearLineage`, `DeadFamilyStaysDead`, `GuessesBounded`, `LockHolds`, `RestingTokenLive`, `NoFalseAlarm` | 0.99 M |
| `fetches` | two panel calls, two voidings and a refused login, or two callbacks and two keys; restarts, with fairness | `FetchesTypeOK`, `DeniedOnlyIfVoided`, `BarredOnlyIfRefused`, `WithdrawnKeyDies`, `UnknownIsNew`, `WaitersAreLetGo` | 70 k |
| `app` | two attempts on a phone of either platform, one ad, one retry, one restart of the app, with fairness | `VpnAppTypeOK`, `StopIsFinal`, `EveryTunnelEnds`, `CredentialWiped`, `SavedKeyKnown`, `NonceKept`, `SignedInOrder`, `StartSettles` | 1.3 M |

Four runs show where the code departs from what the repository says of it; TLC
finds the behaviour, and "findings" in `PROJECT.json` quotes the statement.

| run | property violated | in short |
|---|---|---|
| `stale_extend` | `MirrorConverges` | two extensions pushed in the other order (Remnawave here): the panel keeps the older expiry, both rows succeeded |
| `kick_during_connect` | `ClosedUserReclaimable` | a revoke carried out before `createUser`: the user is created for a closed session and nothing removes it |
| `tunnel_after_stop` | `NoTunnelOnDoubt` | Android: a stop delivered while the start thread is in `service.start()` closes nothing, and the tunnel comes up after it |
| `reregistration` | `ReRegisters` | iOS: a new key starts its counter at 0, which the trigger refuses for a device that has signed before |

Each is next to a property that does hold and says what is left:
`SoleExtensionMirrored` and `PanelNeverAhead` (the mirror lags but never leads,
and is exact for one extension), `ClosedUserAccounted` (the only forgotten users
are those created after the close, and those of a `failSession` cut short),
`EveryTunnelEnds` (the tunnel that came up late has its alarm, so it ends with
its session) and `StopIsFinal` (no service or extension is left), and
`SignedInOrder` (an assertion signed no later than one that was accepted is
refused, and no registration makes the server forget how far it has counted).

More windows can be replayed in these models although no run is kept for them:
a ban that commits between the guard and the transaction of `connect`, and
another attempt's verify that binds its key there; a login refused with a 429,
which ends the rows of all calls that wait for it; a drainer whose lease has lapsed and who writes to a row that another has
claimed again (`status='in_flight'` does not tell one claim from the next;
`CleanupSettlesOnce` bounds what it can do); and a displaced user that could not
be disabled when the new one is created.

The single-flight fetches depart in small ways from what is said of them.  The
controller's comment promises a 500, and so a repetition by AdMob, for a
transient error (`ads.controller.ts:85`); a status of error or an empty list from
the key server is answered 400 (the value `keyless` in `SsvIntake`).  `getKey`
says that an unknown key has had its forced refresh
(`admob-ssv.verifier.ts:126`); a callback that joins a fetch asked before its
key was published is refused without one, which is the second disjunct of
`UnknownIfUnlisted`.  And a 401 that arrives late drops the token another
call has just renewed, which costs one more login and nothing else.

**Bounds.**  Two actors of each kind that race are enough for every hazard
listed: each is a race of two requests, two instances, two pushes or two
callbacks on one session.  `MaxFault`, `MaxCrash`, `MaxLimbo` and `MaxAdmin`
bound faults, not the order in which they hit; one fault at every possible place
is what the runs explore.  `Batch = 1` still lets the batches of two instances
overlap through lapsed leases; larger batches only serialise more work in one
instance (the proofs hold for any).  `MaxAttempts = 2` lets a row fail, be
retried, and die.  The clock runs to `Horizon` ticks, enough to pass the
provisioning window and, in `rewards`, a bought extension.  A pool of ids that is
used up stops the model, not the system: hence `CHECK_DEADLOCK FALSE`.
Row ids, instances and transactions are symmetric; the runs with liveness use no
symmetry.  In `sign_in` three tokens are a first token and two successors, so a
straggler can present one that is two rotations old; two logins and a threshold
of one failure make the parallel guesses and the lock meet; one user is enough
because nothing but `Logout` compares owners.  In `app` two attempts are the one
that was given up and its successor, which is every overlap the code allows: a
third cannot begin before the second has settled.  A run with three attempts and
no ads held as well.  `MaxRetry = 1` lets `verify` be repeated, cancelled in its
backoff, and give up.  In `fetches` two calls, or two callbacks, are the one that
began the fetch and the one that joins it; with two voidings even the token of
the repetition can go stale.  A run of the invariants with three calls (1.8 M states) held as well.
An instance of `rewards` with two extensions of the session was run for
`PanelNeverAhead` too (2.3 M states), which is proved for any number of them.

**Fairness** (`progress`).  `drain` runs every five seconds and `reap` every
minute on a timer and swallow their errors, so `Claim`, the dispatch steps and
`ReapStep` are weakly fair; so is the passing of a lease or backoff (`Elapse`),
and an inline push, which no client can interrupt.  Nothing is assumed of
clients, of the operator, or of abandoned calls; connect requests are not
assumed to finish.  Crashes are bounded, as they must be for any row to settle.

**Fairness** (`app`).  `FairVpnApp` assumes that a call of the method channel
returns (`StartCall \/ StartRefused`, `StopCall`, and on iOS the keychain write
before it), and that the confirmation takes its next step: the status query
returns, and the stream is bounded by its 15-second timeout.  Nothing is assumed
of the user, the ads, the consent dialog, the attestation service, the server, or
the tunnel: `StartSettles` holds without them.

**Fairness** (`fetches`).  `Fairness` assumes that a fetch ends, by its answer
or its timeout, and that a call runs on once it has its answer.
`fetchWithTimeout` bounds the wait for the headers (eight seconds for the panel,
five for the keys); it clears its timer when they arrive, so the wait for a body
is bounded only by the body timeout of Node's `fetch`, five minutes by default.
That a fetch is answered is not assumed: each may time out.

## 4. Proofs

Every invariant and every action property that a passing run checks is also
proved, for any sets of users, sessions, grants, nodes, instances, tokens,
logins, requests, attempts, ads, panel calls, callbacks and keys, any durations
and limits that satisfy the named assumptions of the modules, and either panel
or platform.  The only set assumed finite is that of the logins, whose number bounds the parallel guesses;
that the sessions of a user and the ads of a grant can be counted is part of the
invariants.

**The backend.**

| module | theorem | property |
|---|---|---|
| `BackendProofs` | `TypeCorrect` | `TypeOK` |
| | `NeverAhead` | `PanelNeverAhead` |
| | `CleanupJustifiedAlways` | `CleanupMatchesStatus` |
| | `ClosedForGood` | `ClosedStaysClosed` |
| | `SpentOnce` | `ConsumedOnce` |
| | `TimeIsPaidFor` | `TimeIsBought` |
| `ContractProofs` | `LimitIsKept` | `ConcurrencyLimit` |
| | `ContractIsKept` | `KeepsContract` |
| | `FreeAccessCosts` | `FreeAccessIsPaid` |
| `ServiceProofs` | `LiveUserIsServed` | `LiveUserServed` |
| | `CleanupIsSettled` | `CleanupSettlesOnce` |
| | `ClosedUserIsAccounted` | `ClosedUserAccounted` |
| `MirrorProofs` | `SoleExtensionIsMirrored` | `SoleExtensionMirrored` |

*`BackendProofs`.*  The inductive invariant is `IInv`.  `PanelNeverAhead` alone
is not inductive: a call in flight may carry an expiry.  So `IInv` adds that the
epoch of every outbox row (`RowsBounded`), the expiry of every abandoned call
(`LimboBounded`) and the expiry each connect request still has to send
(`RequestsPlaced`) are at most the session's; and that drainers and pushes work
on rows that exist (`BatchesExist`, `PushesExist`).  What makes this inductive is
that expiries in the ledger only grow.  The proof is in two halves:
`LedgerStep` says what any step may do to the tables (expiries grow, closed is
final, rows are kept or new and bounded, cleanup rows come with the closing of
their session), `PanelStep` what it may do to the panel and `limbo`; lemma
`StepPreserves` derives `IInv'` from the two, and one lemma per action
establishes them.

*`ContractProofs`.*  `LimitInv` is the limit, with the live sessions of a user a
finite set; one live session per device; and that the limit a request has
resolved before its transaction is still a plan's when the transaction uses it
(`Resolved`).  Only `Admit` opens a session, and it closes as many as the limit
asks: the proof counts what is left.  `PaidInv` adds to `FreeAccessIsPaid` that
the counter of a grant never exceeds the transactions stored for it (`Counted`),
which is what the primary key of `ad_rewards` is for: a callback delivered again
counts once.  `ContractIsKept` maps each action to the step of
`SessionContract` it takes: open, close, extend, or none.

*`ServiceProofs`.*  That no live user is taken down is inductive only with
everybody who might: rows of revocation and abandoned calls that disable or
delete are of closed sessions (`HarmsClosed`), so are the users a request still
has to displace (`Doomed`), and closed is final.  `AccountedInv` is the
converse: whoever believes a user to be gone is right (`Believed`: the rows that
succeeded and the request about to record it; `Carried`: an instance between its
call and its record), and a failed session has its row or a `failSession` that
has not got there (`Failed`).

*`MirrorProofs`.*  `MirrorInv` says that every call that carries an expiry
carries an extension's (`LimboKnown`), that the ledger shows the expiry that was
provisioned or, for a session with one extension, that extension's (`Booked`),
and that once anybody has been told of success — the row, the push, or an
instance about to record it — the panel shows it (`Mirrored`).  With one
extension a late call can only write the same expiry again; with two it can
write the older, which is the finding of `stale_extend`.

**The fetches.**

| module | theorem | property |
|---|---|---|
| `FetchProofs` | `FetchesTyped` | `FetchesTypeOK` |
| | `DenialIsJustified` | `DeniedOnlyIfVoided` |
| | `BarredIsJustified` | `BarredOnlyIfRefused` |
| | `WithdrawnKeyIsDead` | `WithdrawnKeyDies` |
| | `UnknownIsUnlisted` | `UnknownIsNew` |

`AuthInv` needs two things beside the types.  There is no login beside a token
that would be used (`LoginWithoutCache`): a call that begins during a login waits
for it, so a login that is under way while the call presents its token was begun
later.  And a call during which the panel has voided nothing (`Undisturbed`)
repeats itself with a token of the present secret, since whatever login it joins
was granted after the call began.  That the token is dropped before the
repetition is what this rests on: a client that repeated with whatever is cached
would present the rejected token again (the mutant `RepeatWithCached`).

Both are about calls the panel lets log in.  `RefusalInv` is about the others: a
refusal that is on its way has been told to nobody, so the calls it bars have not
seen it (the mutant `ClearedIfGranted` keeps a refused login as `inflightAuth`,
and bars those who come after).

`IntakeInv`
says what a fetch that has been answered can lack (only what was withdrawn, or
is in `newer`), and that a dead key is neither listed, nor in an answer on its
way, nor in a cache that is still used; so it cannot come back but by being
published again.

**Sign-in.**

| module | theorem | property |
|---|---|---|
| `RefreshTokensProofs` | `OneLive` | `OneLivePerFamily` |
| | `Contained` | `ContainedFamily` |
| | `Lineage` | `LinearLineage` |
| | `DeadStaysDead` | `DeadFamilyStaysDead` |
| `SignInProofs` | `SignInTyped` | `SignInTypeOK` |
| | `GuessesAreBounded` | `GuessesBounded` |
| | `LockIsKept` | `LockHolds` |
| | `RestingTokenIsLive` | `RestingTokenLive` |
| | `NoAlarmIsFalse` | `NoFalseAlarm` |

The four properties of `RefreshTokens` rest on `FamilyRooted` (a family is named
after an issued token and has one owner).  They hold of the whole
sign-in too, since each of its steps that writes the table is one of
`RefreshTokens` (lemma `SignInKeepsTokens`).
`LockoutInv` makes the bound on guesses inductive: the logins that have read an
account as open count as failures that may still come, and an account that is
open has not used up what its lapsed locks allow; one round of parallel logins
is all that can be added.  `OwnInv` is the mutex of the clients seen from the
table: when the client shares its store with nobody, one request refreshes at a
time, with a live token of a family the client received, and between refreshes
the stored token is such a one.

**The app.**

| module | theorem | property |
|---|---|---|
| `VpnAppProofs` | `VpnAppTyped` | `VpnAppTypeOK` |
| | `NonceIsKept` | `NonceKept` |
| | `AssertionsInOrder` | `SignedInOrder` |
| | `SavedKeyIsKnown` | `SavedKeyKnown` |
| | `CredentialIsWiped` | `CredentialWiped` |
| | `EveryTunnelIsEnded` | `EveryTunnelEnds` |
| | `AStopIsFinal` | `StopIsFinal` |

`AppInv` is the types with what the flow relies on: a flow that left idle, an
intent and a start thread are of some attempt.  `ProofInv` is the
attestation: no accepted assertion is ahead of the stored counter, which only an
assertion that is ahead of it moves (lemma `NewlyAccepted`), hence the order; and
`SavedKeyKnown` needs that a key is saved by the attempt that attested it.  `IosInv` adds to `CredentialWiped` that the
extension does not start or run before the flow has asked for it.  `TunnelInv` is
about the order of Android's intents: an attempt sends one start (`SentOnce`), a
start has a stop queued right before it or meets no service (`Halted`), and a
flow that has not sent its own has left either a stop behind every intent or
nothing at all (`Clear`).  Hence no start meets a live instance, and every
thread, core and alarm is of the instance that its attempt started
(`OwnInstance`), which is the one that closes it.  This, like
`EveryTunnelEnds` and `StopIsFinal`, is about a phone whose app has not been
restarted: a restarted app forgets the attempt whose intents are still queued.

`IInv` and `LedgerStep` were checked by TLC on the instances of several runs
before they were proved.

**Only model-checked:** the liveness properties (`OutboxSettles`,
`ClosedUserReclaimed`, `OverdueReaped`, `WaitersAreLetGo`, `StartSettles`), since the prover has
neither ENABLED nor fairness, and the four departures of section 3, which are
counterexamples.

## 5. Not modelled

Payload construction and encryption, signature and attestation cryptography,
the read-only admin queries, rendering, logging, installation scripts: they
change none of the state the properties speak of.  `DynamicPanelClient`: see
above.  Aborted transactions are stuttering; lock-order deadlocks, which the
database resolves by an abort, are therefore not visible.  "components" in
`PROJECT.json` lists every part with the reason.

## 6. What could follow

The lock order of the transactions (a model of row locks under `connect`,
`mutateUser` and evacuation) is the one part with some protocol of its own that
is left.
