# Verification of the AURA-RSP prototype

TLA+ models of the AURA-RSP research prototype (`aura-rsp-paper-artifact/`): an
anonymous remote SIM provisioning protocol built into pySim's `osmo-smdpp`
server, with a software eUICC as its client. The models follow the Python code.
TLC checks them on small instances; TLAPS proves what matters most for instances
of any size.

Paths below are relative to
`aura-rsp-paper-artifact/pysim-aura-integration/`; `aura/` is
`pySim/esim/aura/`.

## 1. The system

An eUICC buys a one-time *operation ticket*, opens a session with the SM-DP+
through a PR relay, authenticates anonymously by a proof bound to the ticket's
nullifier, agrees on a key, and then downloads, enables, disables, deletes or
reinstalls one Profile. The server keeps a hash chain of *receipts* per Profile
pseudonym (`lph`): every operation names the row it was signed on (state,
counter, last hash), and the server accepts it only if the row is still that.

| Component | Code | State | Operations | Interacts with |
|---|---|---|---|---|
| Lifecycle repository | `aura/lifecycle.py`, `aura/receipt.py` | SQLite tables `lifecycle_profiles`, `lifecycle_receipts`, `pending_deletes` | `initialize_install`, `apply_state`, `prepare_delete`, `commit_delete`, `snapshot` | called by the service, one connection and one transaction per call |
| AURA service | `aura/service.py`, `models.py`, `binding.py`, `context.py` | per session: status, transcript, binding, keys | `initiate`, `authenticate`, `get_profile`, `prepare_lifecycle`, `notification`, `lifecycle_receipt`, `commit_delete`, `reinstall_receipt` | store (several separately synced writes per call), repository |
| Store | `aura/store.py` | one shelf: orders, sessions, nullifiers, profile-state copies, trace index | `put_*`, `get_*`, `locked` | in memory (lost at a restart) or in a file |
| Ticket spending | `aura/double_spend.py`, `local_ticket_log.py` | nullifier records; the device's ticket log | `classify_nullifier`, `lookup_cached_auth_request`, `store_auth_request` | `authenticate`; the client's run |
| Device: download | `aura/client.py`, `pySim/esim/software_euicc.py` | `device.json` (salts, log, lifecycle rows), the installed file | `run` | HTTP calls that may be lost; saves between them |
| Device: lifecycle | `aura/lifecycle_client.py` | `device.json`, `pending_delete` | `run_operation`, `resume_pending_delete` | as above |
| Ticket issuance | `aura/ticket.py` | `device.json`, `orders.json` | `issue_ticket` | overwrites what client and server read |
| PR relay, HTTP front end | `aura/relay.py`, `http_api.py`, `osmo-smdpp.py` | set of seen PR nonces | request authentication, routing | threads of the relay; the single-threaded server |
| Standard RSP | `osmo-smdpp.py`, `pySim/esim/rsp.py`, `contrib/es9p_client.py` | `RspSessionStore`: sessions, handed out and stored as copies | the five ES9+ handlers | posts of any eUICC's LPA, in any order |
| Bound Profile package | `pySim/esim/bsp.py`, `es8p.py` | block counter and MAC chain at each end | `encode`, `decode`; `encrypt_and_mac`, `mac_only` and their inverses | made by `getBoundProfilePackage`, opened on the eUICC |
| Cryptography | `aura/proof.py`, `bbs.py`, `primitives.py`, `key_agreement.py`, `codec.py` | none | proofs, signatures, key derivation | everything |
| Card runtime | `pySim/runtime.py`, `filesystem.py`, `ts_102_222.py`, `pySim-shell.py` | per logical channel: the file and the application believed selected; the tree of file objects | `select`, `probe_file`, `reset`, channels, administrative commands | a card, over a link that may fail; not used by AURA |
| Secure channels | `pySim/global_platform/scp.py` | MAC chain, encryption counter | establish, `wrap_cmd_apdu` | the shell's channel, a security domain of the card |
| Profile packages | `pySim/esim/saip/__init__.py`, `validation.py`, `contrib/saip-tool.py` | the list of profile elements, two indexes of it, numbers, the header's lists of what is mandatory | insert, remove, rebuild, number, write, read, check | programs that edit a profile; offline |
| Card links | `pySim/transport/`, `do_apdu` of `pySim-shell.py` | `apdu_strict`, a proactive handler; a modem's echo and serial buffer | `send_apdu_checksw`, `send_tpdu`, `apdu` | shell and programs above, a card or a modem below |
| Card batch programming | `pySim-prog.py`, `pySim/card_handler.py` | the number, the state file, the CSV file, cards and bins | the main loop | cards that a person or a machine puts into a reader |
| Trace decoding | `pySim-trace.py`, `pySim/apdu/`, `pySim/apdu_source/` | one remembered command; per logical channel what is selected | `input_tpdu`, `process` of each command | TPDUs overheard between a phone and a card |
| Other pySim upstream | `ota.py`, `sms.py`, `cat.py`, `legacy/`, `ts_*.py` | none that a protocol depends on | encoders, decoders, file tables | the shell |
| Experiments, self-tests, papers' data | `experiments/`, `aura/*selftest.py`, `Performance Analysis/` | none of the system's | | drive the above |

What is hard, by component:

* **Repository.** Threads race for one write lock; receipts are signed on a
  snapshot and arrive late, twice, or in competition; a call can fail before the
  UPDATE, between UPDATE and COMMIT, or after COMMIT with its answer lost (the
  three `fault_at` hooks are exactly these); deletion is a two-step protocol.
  *Correct* means: one chain per Profile, rows that agree with their chain,
  acknowledged effects that stay, retries answered alike, deletions that can be
  finished.
* **Service and store.** `authenticate` and `notification` make several
  separately synced writes; the SQLite transaction commits before the session's
  status is stored; a restart may lose one store and keep the other. *Correct*:
  a ticket is spent by at most one request, and no crash leaves a session that
  neither a retry nor a new session can carry on from.
* **Ticket spending.** An exact retry must be told from a second use. *Correct*:
  only a device that answered twice under one ticket is classified as a double
  spender.
* **Device.** Four saves around a deletion; state saved only after a response
  for enable, disable and reinstall. *Correct*: after any crash and any lost
  response, device and server can converge again.
* **PR nonces.** A bounded set that is cleared when full. *Correct*: which
  replays it still refuses.
* **Standard RSP.** A handler changes a *copy* of a session; posts outlive the
  client that sent them; every eUICC can name every transaction. *Correct*: a
  package opens on the eUICC that asked for it and is what it asked for, and only a
  session's own eUICC ends it.
* **Bound package.** Two ends count blocks and chain MACs over encrypted and
  MAC-only segments of any number. *Correct*: what one end makes the other opens,
  and segments fit a STORE DATA command.
* **Card runtime.** The shell's idea of what is selected follows the card's through
  refused paths, probes, commands that select behind its back, and inherited
  channels. *Correct*: the two agree, and every file can be reached.
* **Secure channels.** A command may be refused after a counter was moved, or its
  answer lost. *Correct*: the two ends count alike, or the next command is refused.
* **Profile packages.** What the list holds is repeated in indexes, numbers and the
  header's lists, by calls that may come in any order. *Correct*: all of them agree
  after each call, and a profile that passed the check passes it again.
* **Card links** (not modelled). A card that was sent one command answers with a proactive one, with
  an announcement, or with a request to repeat; a modem's answers carry no number and
  come late, in pieces. *Correct*: the caller gets what the card answered to its own
  command, whole, and the card is asked everything it has to say.
* **Card batch programming.** A card is programmed, recorded, counted and the count
  saved one after the other. *Correct*: wherever that stops, no two cards are alike
  and no keys are lost.
* **Trace decoding.** A picture of the card is kept from what can be overheard:
  refusals, response data left where they are, channels opened from one another.
  *Correct*: a response is shown with its command, under the file it is of.

The full list, at the lines where each bites, is `hazards` in `PROJECT.json`.

## 2. What is modelled

| Module | Models |
|---|---|
| `LifecyclePromise` | the abstract specification: per `lph` one history of (operation, session), each admitted by the state the history led to, `commit-delete` only after `delete` of the same session |
| `LifecycleRepository` | `aura/lifecycle.py` in detail, with the properties |
| `MCLifecycleRepository` | symmetry for TLC; the `.cfg` files choose the instance |
| `LifecycleRepositoryProofs` | theorems about `LifecycleRepository`: its tables and histories, and what a retry is answered |
| `AuraService` | `aura/service.py` and `aura/store.py`: sessions, tickets, the separately durable writes of each handler, restarts, lost responses; it uses `LifecyclePromise` for the repository |
| `MCAuraService` | symmetry for TLC |
| `AuraServiceProofs` | theorems about `AuraService`: its tickets, and its sessions after a restart |
| `AuraDevice` | `aura/client.py`, `lifecycle_client.py`, `ticket.py` and the network, composed with `AuraService` |
| `MCAuraDevice` | the instance for TLC |
| `AuraDeviceProofs` | theorems about `AuraDevice`; it instantiates `AuraServiceProofs` |
| `TicketSpend` | `double_spend.py`, `local_ticket_log.py` and the responses of `client.py`, over a prime field |
| `MCTicketSpend`, `TicketSpendProofs` | tracing keys and symmetry for TLC; theorems |
| `BoundProfile` | `bsp.py` and `BoundProfilePackage` as operators |
| `Smdpp` | `osmo-smdpp.py` with `rsp.py` and the ES9+ clients; it uses `BoundProfile` |
| `MCSmdpp`, `SmdppProofs` | Profiles and symmetry for TLC; theorems about it and about `BoundProfile` |
| `SecureChannel` | SCP02 and SCP03 wrapping as operators |
| `CardRuntime` | `runtime.py` and the commands of `pySim-shell.py`, with the card; it uses `SecureChannel` |
| `MCCardRuntime`, `CardRuntimeProofs` | five cards for TLC; theorems about the shell's picture of a card and about the secure channels |
| `ProfileElements` | `ProfileElementSequence` of `esim/saip`, its check, and the calls of `saip-tool.py` |
| `MCProfileElements` | profiles for TLC |
| `BatchProgramming` | `pySim-prog.py` and `card_handler.py`, with cards and reader |
| `MCBatchProgramming` | cards and CSV files for TLC |
| `ToolProofs` | theorems about the two tools: `BatchProgramming` and `ProfileElements` |
| `CardTrace` | `pySim-trace.py` with `apdu/` and the channels of `runtime.py`, with card and phone |
| `MCCardTrace`, `CardTraceProofs` | a tree of files for TLC; theorems |

`AuraDevice` instantiates `AuraService`, which instantiates `LifecyclePromise`, which
`LifecycleRepository` implements: the device is checked against what the repository
was proved to promise.

### State and actions of `LifecycleRepository`

`profiles`, `receipts` and `pending` are the committed tables. A thread `w` has a
program counter `pc[w]`, the receipt it was called with `call[w]`, and, while a
transaction is open, the tables as that transaction sees them `draft[w]`.
`issued` and `answers` are what the callers know: receipts signed and responses
received. They only grow, so a receipt can be handed in at any later time and any
number of times: loss, delay, duplication and reordering need no action.

| Action | Code |
|---|---|
| `SignInstall`, `SignState`, `SignCommit` | `create_install_receipt`, `create_state_receipt`, `create_commit_receipt`, by a session, against the row as it is then |
| `Start` | a call of the repository by a service thread |
| `Replay` | BEGIN IMMEDIATE; the receipt is the head of the chain (or the stored install receipt); answer from what is stored |
| `Reject` | BEGIN IMMEDIATE; some check raises `LifecycleError` |
| `Begin` | BEGIN IMMEDIATE; every check passes |
| `UpdateProfile` | INSERT or UPDATE of `lifecycle_profiles` |
| `RecordOutcome` | `_insert_receipt`, and the INSERT or UPDATE of `pending_deletes` |
| `Commit`, `Respond` | `db.commit()`, the return of the response |
| `Rollback` | an exception (hooks `before_update`, `after_update_before_commit`), or the end of the process, while the transaction is open |
| `LoseAnswer` | an exception after COMMIT (hook `after_commit`), a crash, or a lost response |
| `BusyTimeout` | BEGIN IMMEDIATE gives up after `busy_timeout` |

Reading the row and checking the receipt happen in the same step as BEGIN
IMMEDIATE, since no other transaction can write from then on. `_insert_receipt`
and the write of `pending_deletes` are one step, since nothing outside the
transaction sees either. The tests of `rowcount` after each UPDATE are not
modelled as a failure: the WHERE clause names the values the same transaction
has just read.

Abstractions:

* A digest is what it covers. `last_hash` is the sequence of links hashed,
  `receipt_hash` is the receipt: hashes do not collide.
* A session is its `tx`, which stands for `transactionId`, its fresh `K_mac`, its
  `ctx_t` and the `rid` derived from them. A receipt names its session: its MAC
  verifies under that session's key only. Receipts that fail a MAC, the format
  checks or the `rid` checks are refused before any transaction and change
  nothing; they are not modelled.
* A session signs one receipt (`Fresh`), as `run_operation` and `run` of the two
  clients do. The repository does not enforce it; a device that signs more is a
  matter of the service's session status (see the hazards).
* `prof` is the pair `(pid_h, salt_p)`.
* Timestamps, the `idempotent` flag of a response and the columns a caller gets
  back only as part of the response are left out. So is `lifecycle_events`, which
  no code writes.
* A signature value is chosen at each signing: ECDSA is randomised.

### State and actions of `AuraService`

`orders`, `status`, `nullifier` and `profileState` are the namespaces of the
store; `history` is `lifecycle.sqlite` as `LifecyclePromise` describes it, which
`PromiseKept` justifies; `ticketOf` is the ticket a session was opened with, and
`orderOf`, `ordersFile`, `expired` the tickets as they were issued. `handling` is
the handler that runs: its session, the writes it has still to make, and what its
response will give the client. `holds` and `receipt` are the client's side.

The server of `osmo-smdpp.py` runs one handler at a time, so a handler is one
action that makes all its checks, then one action per write, in the order of the
code. `Restart` may come between any two, and drops the rest.

| Action | Code | Writes, in order |
|---|---|---|
| `Issue`, `Expire` | `issue_ticket`; the clock passes `exp` | |
| `ImportOrder`, `Initiate` | `initiate`; the order is stored before it is checked, so it stays when the call is refused | order, session |
| `Authenticate` | `authenticate`, first use of the nullifier | nullifier, session |
| `ReplayAuthentication` | `authenticate`, `exact_replay` | none |
| `GetProfile`, `PrepareLifecycle` | `get_profile`, `prepare_lifecycle` | session |
| `SignReceipt` | the two clients | |
| `Notification`, `NotificationAgain` | `notification` in status downloaded, installed | lifecycle, profile-state, session |
| `LifecycleReceipt` | `lifecycle_receipt` | lifecycle, session |
| `CommitDelete` | `commit_delete` | lifecycle, session |
| `ReinstallReceipt` | `reinstall_receipt` | lifecycle, session |
| `PutNullifier`, `PutSession`, `PutProfileState`, `CommitLifecycle` | the next write of the handler; after the last one the response arrives or is lost | |
| `Restart` | `osmo-smdpp.py` starts again; `seed_store` | |
| `Read` | `getLifecycleState`, and requests that are refused | none |

A lifecycle write is left out when the repository answers the receipt from what it
has (`Replays`). `CommitLifecycle` is `LifecyclePromise`'s `Accept`: were the
service to commit what the promise does not admit, TLC would report a deadlock.

Abstractions:

* A session stands for its `transactionId` and its proof, binding and keys, whose
  checks either hold or change nothing. `auth`, `binding` and `key_state` are set
  exactly from certain statuses on, so the tests for `None` follow from the status.
* The device draws a new `opid` for each session and logs its request; so a session
  has one authentication request, and one that finds its nullifier used by another
  session is refused as a double spend, whatever the classification.
* A session signs one receipt, as both clients do. The service itself would take a
  second one in status `lifecycle-complete` (see the hazards).
* A ticket that has expired stands for an expired device credential as well.
* An exception between two writes leaves what a restart with a file store leaves.

### State and actions of `AuraDevice`

`disk` is `device.json` (the ticket, the salts' pseudonym, `lifecycle_by_lph`,
`profile_present`, `pending_delete`), `file` the Profile in the output directory.
`cmd`, `pc`, `session` and `waiting` are the command that runs, where it is, and the
post it waits for. `inbox` holds requests that may still reach the server, `serving`
the one its handler works on. All variables of `AuraService` are there too; its
actions are taken through `Service == INSTANCE AuraService`.

| Action | Code |
|---|---|
| `IssueTicket`, `IssueFreshTicket`, `SaveOrders` | `issue_ticket`, without and with `fresh_profile_lifecycle`: the save of `device.json`, then of `orders.json` |
| `Run`, `RunOperation` | `AuraLpaClient.run`; `run_operation`, which issues its own ticket |
| `Initiate`, `InitiateRefused`, `PostAuthenticate`, `PostKeys` | the posts that open a session, authenticate, and get the Profile or the keys |
| `Install`, `SignAndPost`, `SaveRow` | the digest check and the file; the receipt and its post; the save of the row after the answer |
| `Mark`, `Record`, `Unlink`, `SaveAbsent` | the four steps of a deletion after `R_prep` (lifecycle_client.py:476-505) |
| `PostCommit`, `SaveTombstone`, `ForgetPending` | the commit and the two saves after it |
| `ResumePendingDelete` | `--resume-delete` |
| `PostAgain` | `--replay`: the receipt is posted twice |
| `Stop` | the command ends, at any point: crash, exception, refusal, timeout |
| `Serve`, `ServeAgain`, `Lose` | a request arrives, arrives as a repetition, or does not |
| `Work`, `Respond`, `RespondLost` | the next write of the handler; the response arrives, or not |
| `ServerRestart`, `Expire`, `Read` | as in `AuraService` |

Abstractions: one Profile and one command at a time, as the configuration has it; a
row is the chain the device has seen, which names its state, counter and hash; a save
replaces `device.json` as a whole (the tearing of a save is a hazard without a
property); a request that fails the server's checks is lost, since either way the
command ends.

### State and actions of `TicketSpend`

`owner` and `d` are the tickets with their hidden scalars, `ticket` and `log` what
`device.json` has, `running` a request that was saved and not yet posted, `posted`
what the server may be given, at any time and any number of times. `nullifier`,
`closed` and `verdicts` are the server's records, the sessions past authentication,
and what it has answered. A response is `c = d + gamma k` modulo `curve_order`; the
server solves two of them for `k` (`recover_trace_key`), as the code does. Zero
differences are refused as in `classify_nullifier`.

Actions: `IssueTicket`, `Respond` (challenge, response, save), `Post`, `Crash`
(between the two), `Authenticate`, `Proceed` (key agreement, after which the session
answers no replay). The challenge of a context is drawn freely: it is a hash, so that
any two may be equal in a small field. Proofs verify, so `c` is right.

### State and actions of `BoundProfile` and `Smdpp`

`BoundProfile` has no state: a plaintext is a name and a length, a segment carries a
piece of it under a key and block counter, a MAC names all that went through its
chain. `encode` and `Decodes` follow `BoundProfilePackage` through the two instances
of `BspInstance`; sizes are those of the code (1020 bytes a segment, 16 a block).

`Smdpp` has `rsp_mode`, the store `rss` (keyed by a transaction *and the case it is
spelt in*), the clients `lpa` of each eUICC, the posts under way `wire`, and for the AURA mode the set `nonces`,
the order `taken` in which they were taken and, as history of where the set was cleared,
`overflows`. A handler
is one step, since the reactor runs one at a time.

| Action | Code |
|---|---|
| `Download`, `PostNext`, `Stop` | `es9p_client.py download`, its posts, and its end at any point |
| `PostAlone` | `notification-install`, or `cancelSession` of an LPA, for any transaction |
| `InitiateAuthentication`, `AuthenticateClient`, `GetBoundProfilePackage`, `HandleNotification`, `CancelSession` | the handlers of `osmo-smdpp.py`, with what each stores again |
| `Refuse` | an `ApiError`, an exception, or a post that is lost |
| `TakeRelayed` | `_aura_pr_identity`: the nonce, and the set that is cleared |
| `Restart` | with `RspSessionStore` in a file or in memory; a session put into the file is assumed to reach it at once, although `sync` (rsp.py:144) is never called |

Abstractions: certificates are valid and a signature names its eUICC; a `matchingId`
stands for its Profile; ciphers, key derivation and ASN.1 are symbolic.

### State and actions of `SecureChannel` and `CardRuntime`

The card (external: what ETSI TS 102 221 and GlobalPlatform let `runtime.py` rely on)
has `channels`, `exists`, `gone`, `current` and `session`; the shell has `tree` and
`lchan`. A file object is the sequence of its ancestors, which is what
`build_select_path_to` works with; the constant `Path` gives the place of each file on
the card, and a probe may hang its object elsewhere. `lost` is a bookkeeping variable: an
exchange that fails on the link, or a file that was created and cannot be left again (see
the divergences below), may leave the two ends apart until a reset (or, when files were
probed for meanwhile, until `equip`), and the properties about agreement are claimed
otherwise. `garbled` records sessions whose card decrypted something not meant.

| Action | Code |
|---|---|
| `Select`, `SelectLost` | `select`: a path of SELECTs, back to the old file when one is refused; the link fails on the way |
| `Probe` | `probe_file`, for an identifier the picture does not have |
| `Access` | `read_binary` and its kind, which select the EF again |
| `Administer`, `Delete` | `create_ef`, `create_df`, `resize_ef`, with the selection after them; `delete_file`; `Named` is `get_file_for_filename` |
| `OpenChannel`, `CloseChannel` | the two commands, `add_lchan`, `del_lchan` |
| `Reset`, `ResetLost`, `Equip` | `RuntimeState.reset`, its failure, `do_equip` |
| `Establish`, `Release`, `Command` | `do_establish_scp02/03`, `do_release_scp`, `wrap_cmd_apdu` of any command |

Abstractions: names, paths with `/`, contents and FCPs; the class bytes for channels
above 3; R-MAC, R-ENC, DEK and the derivation of keys. A session is known by its
channel, because INITIALIZE UPDATE ends the session before it.

### State and actions of `ProfileElements`

`pe_list`, `pe_by_type` and `pes_by_naa` are the attributes of that name;
`identification` the numbers in the elements' headers; `services` and `gfste` the two
lists in the profile's header; `mf` the elements whose files are in the file tree. An
element is a model value; its type, its AID, its algorithm and whether it is mandated
are constants. `outcome` says how the last call ended, an exception included. `Only(list, set)`
is the code's `[pe for pe in list if ..]`. The definitions every module has are prefixed
(`ElementsSpec`, `ElementsTypeOK`), because `ToolProofs` extends two specifications.

| Action | Code |
|---|---|
| `AppendPe`, `InsertAfterPe`, `AddSsd` | `append`, `insert_after_pe`, `add_ssd` |
| `AddApp`, `RemovePe`, `RemoveApp`, `EditMandSrvList` | the commands of `saip-tool.py` |
| `RemoveNaasOfType` | `remove_naas_of_type` with both its calls of `_process_pelist` |
| `RebuildMandatoryServices`, `RebuildMandatoryGfstelist` | the methods of these names |
| `WriteAndRead` | `to_der` and `from_der`: a new object, so the indexes start empty |

`ByNaa` is told what was in the index before the call: the code does not empty it.
`CheckBasicStructure` is the conjunction of the class's checks. Abstractions: files and
templates below an element's type, DER, and elements the templates of which are rare
(`df-snpn`, `df-5gprose`, `iot`).

### State and actions of `BatchProgramming`

`pc` is the statement of `main` or `process_card` that is next; `num`, `first` and `cp`
are the program's variables, `state_file` and `csv_file` what is on disk. `on` is what is
on each card, `done` the cards reported good. `Fail` is an exception of the statement at
`pc`, `End` the end of the process there; `Start` reads the state file. `Truncate` and
`Save` are the two halves of `save_batch`, either of which may fail. A card's identity is the number its ICCID and
IMSI come from, or its row.

### State and actions of `CardTrace`

`sel` and `app` are the card's; `seen` is `RuntimeState.lchan` with `selected_file` and
`selected_adf`; `last_cmd` is the filter's. Phone and card are one action (`Send`,
`GetResponse`, `Repeat`) with what the tracer makes of the exchange: it reads them in the
order they took place, and neither of the two sees it. `Withheld` and `HandedOn` are the
branches of `input_tpdu`; `Process` is `process` of the command that was handed on,
which need not be the one that was answered. `astray` and `lost` are history: the
channels on which what was overheard does not tell enough, and how many commands ago a
response was left.

### Properties

A property marked *(proved)* is stated by a theorem of section 3 and in no run; every
other one is checked by a run, and those that section 3 names are proved as well. The
`TypeOK` of a module is checked by its run or stated by a theorem, or both.

Of `LifecycleRepository`:

| Property | Says |
|---|---|
| `ChainExplainsRow` | state and counter of a row are those of its chain; each link is a legal transition from where the one before it led |
| `NoFork` *(proved)* | every accepted receipt lies on the one chain of its Profile |
| `AcknowledgedIsDurable` | what a caller was told stays on the chain |
| `RetryAnswersAlike` | one receipt, one answer, the signed `R_prep` included |
| `HeadReceiptReplays` *(proved)* | the receipt at the head of a chain is answered again, never refused |
| `PendingTracksRow` *(proved)* | a Profile is pending-delete exactly while its deletion is prepared and not committed, and then the stored `R_prep` speaks of the row as it is |
| `PreparedDeleteRecovers` | a prepared deletion can always be finished |
| `OneProfilePerChain` | no receipt authenticated for another Profile enters a chain |
| `KeepsPromise` | the repository implements `LifecyclePromise` under the mapping from a row's chain to its history of (operation, session) |

Of `AuraService`:

| Property | Says |
|---|---|
| `TicketSpentByOneSession` | only the session named by a ticket's nullifier is authenticated with it or moves a Profile |
| `StatusIsBacked` | what a session's status says happened did happen in `lifecycle.sqlite` |
| `InstallRetryAnswered` *(proved)* | an InstallReceipt is answered again after any number of the three writes |
| `RetryAnswered` | the receipt at the head of a chain is answered again by the *service*, in whatever status a restart left the session |
| `DeleteResumable` | who holds `R_prep` can commit, after restarts and expiry |
| `StatusOnlyAdvances` | no call takes a session back, so its `K_mac` is not replaced |

Of `AuraDevice`:

| Property | Says |
|---|---|
| `DeviceNeverAhead` | the device's row is a beginning of the chain the server has committed |
| `LiveProfileIsInstalled` | while the server, or the device's own row, has the Profile as installed, enabled or disabled, one is on the device |
| `PendingBelongsToRow` | the commit receipt `device.json` keeps is for a deletion on the chain it keeps |
| `ResumeAnswered` | whenever `device.json` has what `--resume-delete` asks for, the server will take its receipt |
| `DeleteConverges` | such a deletion becomes a tombstone at both ends, through crashes of both |

Of `TicketSpend`:

| Property | Says |
|---|---|
| `TraceNamesSpender` | a double spend is traced to the device that answered twice, if indexed, and to no other |
| `TakenWithOneRequest` | a ticket is taken with one request, which may be answered again |
| `OneResponsePerOpid` | under one opid a ticket answers one challenge, crashes between save and post included |

Of `Smdpp`:

| Property | Says |
|---|---|
| `PackageOpens` | a package opens on the eUICC that asked for it and is the Profile it asked for |
| `AnsweredCanGoOn` | a client answered by `authenticateClient` gets its package, restarts or not |
| `RepeatNeedsOverflow` | a relayed request is taken twice only when the set of nonces overflowed in between, another request later, and overflows are the limit apart |
| `RemovedByItsEuicc` | a session is removed only by a post its own eUICC signed |

Of `CardRuntime`:

| Property | Says |
|---|---|
| `Coherent` | the shell has the card's channels and the card's selected file |
| `ApplicationKnown` | the shell knows when the card stands in an application without a file system |
| `EveryFileSelectable` | from wherever a channel stands, `select_file` reaches every file object whose directories exist |
| `InStep` | the two ends of a secure channel count alike, except where padding makes a refused command move one |
| `TakenAsMeant` *(proved)* | what the card verified means there what the shell meant, after lost and refused commands too |

Of `ProfileElements`:

| Property | Says |
|---|---|
| `EveryInstanceIndexed` | every element of an NAA is found in an instance that NAA heads, whatever else the index still holds |
| `RemovedLeavesNoAdf` | nothing of a removed NAA is left, the RFMs of its ADFs included |
| `AddedIsAccepted` | what passed the check passes it after an application or SSD was added, or an application removed |

Of `BatchProgramming`:

| Property | Says |
|---|---|
| `GoodCardsDiffer` | no two cards reported good have one identity |
| `GoodCardsRecorded` | the keys on a card reported good are in the CSV file |
| `SavedIsBeyond` | the state file is beyond every number on a good card |

Of `CardTrace`:

| Property | Says |
|---|---|
| `PictureRight` | on every channel that was not led astray the tracer has the card's selected file and application, and shows a READ under the file it was of; it has the card's channels |
| `ResponsesBelong` | command and response are paired over fetches, repetitions and resets, unless a response was left; and again two commands later |

### Runs

| Run (`.cfg`) | Instance | Shows |
|---|---|---|
| `transactions` (`LifecycleRepository.cfg`) | 2 lphs, 2 Profiles, 3 sessions, 2 threads, 2 signature values; 94,261 states | `AcknowledgedIsDurable`, `RetryAnswersAlike`, `PreparedDeleteRecovers`, `OneProfilePerChain`, `ChainExplainsRow`, `KeepsPromise` |
| `deletable_again` (`LifecycleDeletable.cfg`) | 3 sessions | violation of `LiveProfileDeletable` |
| `service` (`AuraService.cfg`) | 3 tickets, 3 sessions, 1 Profile, 2 restarts, file store; 1,153,629 states | `TicketSpentByOneSession`, `StatusIsBacked`, `RetryAnswered`, `DeleteResumable`, `StatusOnlyAdvances` |
| `replay_after_restart` (`AuraServiceReplay.cfg`) | 2 sessions, 1 restart | violation of `BoundSessionIsAuthenticated` |
| `device` (`AuraDevice.cfg`) | 3 tickets, 3 sessions, 2 pseudonyms; download, delete, reinstall; 2 requests under way; 1,282,777 states | `TypeOK`, `DeviceNeverAhead`, `LiveProfileIsInstalled`, `PendingBelongsToRow` |
| `device_recovers` (`AuraDeviceRecovers.cfg`) | 2 tickets, 2 sessions; download, enable, delete; 1 server restart, 1 expiry; no symmetry; 137,838 states | `ResumeAnswered`, `DeleteConverges`, under fairness |
| `smdpp` (`Smdpp.cfg`) | 2 eUICCs, 2 transactions, 2 Profiles, 3 nonces, 1 restart; 74,594 states | `PackageOpens`, `AnsweredCanGoOn`, `RepeatNeedsOverflow`, `RemovedByItsEuicc` |
| `spending` (`TicketSpend.cfg`) | 2 devices, 2 tickets, 3 transactions, 2 opids, field of 3; 595,816 states | `TraceNamesSpender`, `TakenWithOneRequest`, `OneResponsePerOpid` |
| `card` (`CardRuntime.cfg`) | five cards of 2 to 6 files and 2 or 3 channels; 219,204 states | `TypeOK`, `Coherent`, `ApplicationKnown`, `EveryFileSelectable`, `InStep` |
| `profile` (`ProfileElements.cfg`) | two profiles, one with an ISIM and one with a USIM alone, 3 calls; 31,891 states | `ElementsTypeOK`, `EveryInstanceIndexed`, `RemovedLeavesNoAdf`, `AddedIsAccepted` |
| `batch` (`BatchProgramming.cfg`) | 3 cards, a row for each, 4 rounds, 2 starts, both handlers, both sources; 785,618 states | `TypeOK`, `GoodCardsDiffer`, `GoodCardsRecorded`, `SavedIsBeyond` |
| `trace` (`CardTrace.cfg`) | 5 files, 3 channels, refusals, data in up to 2 pieces, 2 commands after a response was left; 267,766 states | `TypeOK`, `PictureRight`, `ResponsesBelong` |

*Bounds.* There is one state constraint, in `trace` (below). In `LifecycleRepository` the one bound is
the number of sessions, since each signs one receipt (a delete session also signs the
commit receipt).
Three sessions are enough for install, delete, commit and reinstall, that is for
every state and every transition but the last enable; they are also enough for
two receipts that compete for one predecessor at any point up to the reinstall.
What a competitor does after the reinstall is left to the proofs. Two threads are enough for every pair of statements to interleave:
at most one transaction is open, so a third thread could only wait or be refused
as the second does. Two values of `Signature` tell a stored `R_prep` from one
signed anew. Two `lph`s show calls for different Profiles
competing for the lock; what happens to one `lph` does not read another's rows.
Sessions, threads, signature values and Profiles are interchangeable in every
definition, so symmetry is sound for the safety runs. `KeepsPromise` is checked
under symmetry too: it is a safety property (`Init` and `[][Next]`), and its
formula names no single session either.

For `AuraService`, three sessions are enough for install, delete with its commit,
and reinstall, or install, enable and disable, and for two sessions that want one
ticket or one Profile at any of these points. Two restarts put one into a call and
one into its retry; the number of restarts, `MaxCrashes`, is the only bound in a
guard. Profiles do not interact, so one `lph` is enough.

`device` has no restart and no expiry (they are `service`'s and `device_recovers`'),
so that three sessions fit: a download, its deletion, and a reinstallation or a second
download, with a request of an earlier command still in `inbox` (`MaxQueue` 2) when
the next runs. The second pseudonym is what `fresh_profile_lifecycle` draws. In
`device_recovers` two sessions are a download and a deletion, with one restart of the
server between any two writes and one expiry at any time; device crashes (`Stop`) are
unbounded in both. With `enable` in `Ops` the second ticket may be for that instead.

`smdpp`: two eUICCs with a transaction each are the smallest setting in which posts of
one name the session of the other, and in which one eUICC has an old and a new
transaction. The Profiles are of one segment (1008 bytes, a full piece) and of three
(2017). `NonceLimit` 2 with three nonces and `MaxTaken` 5 let the set overflow and a
nonce come back.

`spending`: three transactions give three requests under one ticket, or two under one
and one under another; a field of three elements has equal and unequal challenges.
Only one of the devices is in the trace index, so both outcomes of a lookup occur.
Transactions run out and nothing else is left to do, so it is not checked for deadlock.
Devices differ in their keys, so only tickets, transactions and opids are
interchangeable.

`card`: the cards are chosen for what selection can stumble on: sibling directories
and equal identifiers in different directories, an application with a file system, one
without (a security domain and another) that can or cannot be left through another, and
channels opened from one another. Two files can be created: an EF, and a directory in a
directory of the MF, from which the way back is refused. Commands are of length 0, 16 (one block) and the
longest that `max_cmd_len` admits, `MaxMacs` 2 of them in a session. Three kinds of
session, all with C-ENC, are enough for TLC; the proof has all six. One exchange may
fail until the shell resets (`lost`): after that nothing is claimed
until the shell is in order again, so a second failure could only repeat the first.
At most two files are probed for that the profile does not know, and one is deleted.

`profile`: three calls (`MaxCalls`) are a removal that leaves a gap, an insertion that
numbers anew, and a removal by number. Insertions go behind the MF, inside an NAA and
behind the applications (`After`); of the two profiles one has an NAA with two elements
of its own and an RFM, and one whose keys refer to the other. Each call of the tool
writes the result, so the calls end and the run does not check for deadlock.

`batch`: three cards and four rounds are a failed card that comes again and two others;
two starts are a crash anywhere. The row of the third has its PIN in the column that is refused.

`trace`: three channels are needed for one that is opened from another than the basic
one; two files share an ID, one has an SFI, one is not in the profile. `MaxLost` 2
follows a response that was left for two commands, and the second is paired again. The
constraint `OneAstray` leaves out what comes after a second channel was led astray, since
channels do not act on each other but when one is opened; and after a response was left
it follows two channels, none of them astray, since the pairing of responses does not
look at what is selected. Any SELECT may be refused (`Refuses`), and the command that
opens a channel, the one whose response matters most, may be answered 6Cxx (`Corrected`).

*Fairness* is stated in one module. `AuraDevice`'s `FairSpec`, for `DeleteConverges`, has

* weak fairness of `Stop` while nothing is in flight: a command ends;
* weak fairness of `Receive` (a request arrives or is lost) and of the handler's next
  step: `osmo-smdpp.py` runs one handler at a time and a handler waits for nobody;
* strong fairness of `ResumePendingDelete`: the user repeats `--resume-delete` while
  `device.json` names a pending deletion. Strong, because other commands come in
  between. It is an assumption about whoever runs the device, and the documented way
  to finish;
* strong fairness of `PostCommit`, of `Serve` for a commit, of `Respond` and of
  `SaveTombstone`: a device or a network that fails now and then does not fail each
  time at the same place;
* `<>[][~GiveUp]_vars`: from some time on the 30 s of `post` are enough. Without it the
  client may give up on every response.

Restarts and expiries are bounded by constants; crashes of the device are not.

*Deadlock* is checked: a thread that is idle can always be called again once a
receipt was signed, and a server that handles nothing takes requests. Only
`spending`, where transactions run out, `profile`, where calls do, `batch`, where rounds
do, and `trace`, which an exception ends, turn the check off.

### What the violations show

* **A reinstalled Profile can never be deleted again.** `pending_deletes` has
  `lph` as its primary key and no statement deletes or reopens a row. After
  install, delete, commit-delete and reinstall, `prepare_delete` finds the
  committed row of the first deletion and raises `PENDING_DELETE_CONFLICT`
  (lifecycle.py:632-657), whatever the receipt. `README_AURA_INTEGRATION.md:66`
  states the transition installed/enabled/disabled -> pending-delete without that
  limit.
* **A restart can burn a ticket.** `authenticate` stores the nullifier, then the
  session (service.py:386, 397). After a restart in between, the exact replay is
  answered with `Bind_t` from the nullifier record, and the session it was answered
  for, still `initiated`, is refused by `get_profile` and `prepare_lifecycle`. The
  ticket is spent. The opposite order would be worse: it is the mutant that breaks
  `TicketSpentByOneSession`.

### Divergences met while modelling

Where the code and what its documentation, a comment or a test says of it part, the
models follow the code. No run is spent on the following, and those of
card links are of code that no module models.

* **A notification does not end its session.** Sessions are stored under
  `uuid4().hex.upper()` (osmo-smdpp.py:597) and looked up under `b2h(transactionId)`
  (:846), which is lower case. Unless the transaction has no hex letter, the session is
  not found, 204 is answered, and it stays, against `rsp.py:34-35`. That nothing else
  goes wrong with it is what `PackageOpens` and `RemovedByItsEuicc` say.
* **An honest retry is a double spend.** A run that was not answered and is repeated
  draws a new transaction and a new opid (client.py:143, 186). The log is keyed by
  nullifier and opid (local_ticket_log.py:27), so it finds nothing and makes a second
  response, which the server traces to the device. `docs/EXPERIMENT_INDEX.md:9` says
  the log prevents a second distinct valid response. `OneResponsePerOpid` is what it
  does prevent.
* **Mandatory services do not follow the elements.** Four findings about one list.
  `_rebuild_pes_by_naa` empties a misspelt attribute (saip/\_\_init\_\_.py:1648), so
  removed NAAs are mandatory again after the next rebuild; the loop for `multiple-*`
  tests the wrong thing (:1721), so they are never set; `remove_naas_of_type` drops the
  NAA's own service and leaves those of its keys (:1817); and the check of `tuak256`
  lacks a `not` (validation.py:121). In the first three the tool writes a header that
  asks an eUICC for something else than the profile needs; in the last it refuses a
  right one.
* **Card links lose their place.** With the shell's own proactive handler a command is
  fetched and then raises, and is never answered; without a handler a command that the
  card executed well raises because something proactive waits; and an `apdu` command
  that raises leaves `apdu_strict` off for all commands after it.
* **A modem's answer may be another's.** Without an echo, an answer later than 0.2 s is
  taken for that of the next command, though the input buffer is cleaned; and the echo
  is detected before ATZ may change it.
* **A created directory may not be left again.** The card selects the file it creates, and
  the code selects the shell's file again because "our runtime state knows nothing of it"
  (ts_102_222.py:208-209; also :157-158, :225-226). The path built for that is the parent
  of the shell's file, then the file. From a directory created elsewhere than in the MF
  or in an application, SELECT by identifier does not find that parent, so the first
  SELECT is refused, the command raises, and the card stays in a file the shell does not
  show. The next selection on the way may then find a file of the same identifier
  elsewhere; of this runtime.py:416-421 warns. `Administer` sets `lost` for it. Without
  that, TLC finds `Coherent` violated in three steps: select A, probe for B beside it, create N in B.
* **A batch is not crash-safe.** The number is counted after the card was programmed and
  recorded, so a failure in between gives it to the next card too; the state file cannot
  be read back at all (`iteritems`); a CSV file with hexadecimal PINs alone is refused;
  a short row matches every card looked up by ICCID; and a given number does not go
  before ICCID and IMSI.
* **A trace can name the wrong file.** A refused SELECT moves the tracer's file, a file
  used by its SFI or unknown to the profile does not; announced data that are not fetched
  shift the next response to the wrong command, data in two pieces lose the first; and
  the offset of READ BINARY is always 0 (`<<` for 8 bits, then `&` for `|`).

A limit that needs no run: with the in-memory store a prepared deletion does not survive
a restart, though `run_operation` returns `server_restart_safe: True`
(lifecycle_client.py:511) with any store; nor do the nullifiers. So
`TicketSpentByOneSession`, `DeleteResumable` and `DeleteConverges` are claimed of the
file store only. Another: a historical commit receipt handed in after a reinstall fails
as `STATE_PREDECESSOR_MISMATCH`, where `docs/aura_protocol_mapping.md:84-86` promises
`STALE_RECEIPT_REPLAY`; it is refused either way.

A divergence that needs no run: `docs/aura_protocol_mapping.md:40` says an identical
authentication request receives the cached result. It does while the session is
`authenticated`; once keys were agreed, or the ticket expired, or the Profile has
moved to a state that no longer admits the operation, it is refused
(service.py:222, 225, 304).

## 3. What is proved

Every property of a passing run is a theorem for all values of the constants, but one:
`DeleteConverges`, that a device's deletion comes to an end, is liveness under fairness,
which the provers cannot reach, and stays with TLC. So do the two runs that
expect a violation, whose counterexamples need no proof.

### The repository

`LifecycleRepositoryProofs` proves, for any sets of pseudonyms, Profiles,
sessions, threads and signature values:

| Theorem | States |
|---|---|
| `TypeCorrect` | `Spec => []TypeOK` |
| `TransactionsWellFormed` | `Spec => []TxInv` |
| `ChainAlwaysExplainsRow` | `Spec => []ChainExplainsRow` |
| `NeverForks` | `Spec => []NoFork` |
| `AcknowledgedStaysTrue` | `Spec => []AcknowledgedIsDurable` |
| `PendingAlwaysTracksRow` | `Spec => []PendingTracksRow` |
| `PromiseKept` | `Spec => KeepsPromise`: the repository implements `LifecyclePromise` |

The one assumption is `SentinelAssumption`: the values that stand for NULL and
None are none of the real ones. TLC evaluates it in every run.

*Argument.* None of the properties is inductive: a thread between COMMIT and
BEGIN holds a draft that says what the tables will become, and nothing in the
properties constrains it. `TxInv` does. It says that at most one transaction is
open (`OneWriter`), that its receipt passes every check against the committed
tables *as they are now* (which holds from BEGIN IMMEDIATE on because of
`OneWriter`), and that its draft is those tables with exactly the writes its
statements have made. So `Commit` is the only step that changes a table
(`OnlyCommitWrites`), and its effect can be stated without drafts
(`CommitEffect`): the row of one `lph` is rewritten by an admitted receipt, the
receipt is recorded, and the pending row is created or marked.

From there each theorem is a short induction on commits. `CommitExtends` says the
new chain is the old one plus one link that starts at the row's state; that is
the step of `ChainAlwaysExplainsRow`. Chains therefore only grow (`ChainGrows`),
which gives `NeverForks` and, with the fact that a thread past COMMIT has its
link on the chain (`CommittedInChain`), `AcknowledgedStaysTrue`.
`PendingAlwaysTracksRow` looks at what each kind of receipt does to the pair of
rows. `PromiseKept` maps a commit to `Accept` and every other step to a stutter.
The mapping (`Told`) drops the states from the links of a chain, so two facts have
to be recovered: the state the told history leads to is the row's (`ToldState`,
from `ChainExplainsRow`), and a commit-delete follows the delete of its own session
(`DeleteOwnerStep`: while a row is pending-delete, the head of its chain is the
delete of the session that `pending_deletes` names).

It also proves what a caller meets that asks again, from the same assumption:

| Theorem | States |
|---|---|
| `ChainsOfOneProfile` | `Spec => []OneProfilePerChain` |
| `RetriesAnsweredAlike` | `Spec => []RetryAnswersAlike` |
| `HeadAlwaysReplays` | `Spec => []HeadReceiptReplays` |
| `PreparedAlwaysRecovers` | `Spec => []PreparedDeleteRecovers` |

*Argument.* A row names its last receipt by a hash, and the code answers a retry by
comparing hashes and fields of three tables. `RetryInv` says where the receipt at the
head of a chain is on file and whose it is (`HeadOnFile`: in `lifecycle_receipts`, or,
for an installation, in the row; a prepare and a commit also in `pending_deletes`). A
receipt with the same hash is that receipt, because a session signs one receipt and one
more for its commit (`SignedOnce`); so it replays. What a caller was told, or a
thread past COMMIT is about to tell, is on file too (`AnswersKept`, `DraftsKept`), and
the `R_prep` of a prepare stays in `pending_deletes` after the commit, so two answers
are equal. The Profile of a commit is known from the prepare of its session
(`CommitsFollow`).

Every safety property of the passing runs of the repository is proved.

### The service

`AuraServiceProofs` proves, for any sets of tickets, sessions and Profiles, any
number of restarts, and a file store (`Persistent = TRUE`):

| Theorem | States |
|---|---|
| `ServiceTypeCorrect` | `Spec => []TypeOK` |
| `TicketPaysOnce` | `Spec => []TicketSpentByOneSession` |

`ServiceAssumption` says again that None is none of the real values, and types the
two parameters.

*Argument.* Statuses and nullifiers alone are not inductive: a handler carries
writes that are in neither. `IInv` adds `HandlerSpends`: the running handler
either is `authenticate` before its first write, with the nullifier still unused, or
writes for the session that the nullifier names and will write no nullifier.
Handlers start in one of these two ways (`HandlersIInv`: every later handler asks for
a status that only the spender has), each write keeps it (`AdvanceLeaves`,
`FirstWrite`), and a restart only drops the handler.

It also proves what a client meets after a restart, from the same assumptions:

| Theorem | States |
|---|---|
| `StatusAlwaysBacked` | `Spec => []StatusIsBacked` |
| `InstallRetriesAnswered` | `Spec => []InstallRetryAnswered` |
| `HeadRetriesAnswered` | `Spec => []RetryAnswered` |
| `DeleteAlwaysResumable` | `Spec => []DeleteResumable` |
| `StatusNeverFallsBack` | `Spec => StatusOnlyAdvances` |
| `OperationsSignedInOrder` | `Spec => []SignedOnItsPast`: an operation was signed on the history before it |

*Argument.* The store and `lifecycle.sqlite` are separate files, so neither says at which
write a handler stopped. `Backed` ties them to each other and to the running handler.
Every operation in a history was paid for by a session whose status is the one before
or the one after it (`HistoryBacked`); every status, and the copy in `profileState`, is
backed by the history (`StatusBacked`); and what a handler has left to write is one of
five plans (`Plan`), each of which writes a status only when the history backs it
already. The plans are where the order of the writes matters: `TombstoneFirst` and
`CopyLast` have none. A restart drops a plan and leaves the rest as it was, so the
statuses before and after are the only two a retry can meet, and the code takes the
receipt in both. `ChainShape` (one installation, one deletion, the commit right after its
deletion) excludes that a session whose deletion is the head of its chain is
`tombstone` already. `OperationsSignedInOrder` adds what each session signed (`SignedInv`): its
receipt holds the operations before it, and the repository admits it on these alone.

Every property of the passing run of the service is proved.

### The device

`AuraDeviceProofs` proves, for any tickets, sessions, Profiles and pseudonyms, any number
of restarts of the server and commands cut short anywhere, with a file store:

| Theorem | States |
|---|---|
| `DeviceRunsServer` | `Spec => Service!Spec`: what the composed system does to the server is what `AuraService` allows |
| `DeviceTypeCorrect` | `Spec => []TypeOK` |
| `RowNeverAhead` | `Spec => []DeviceNeverAhead` |
| `LiveAlwaysInstalled` | `Spec => []LiveProfileIsInstalled` |
| `PendingAlwaysOfRow` | `Spec => []PendingBelongsToRow` |
| `ResumeAlwaysAnswered` | `Spec => []ResumeAnswered` |

`DeviceAssumption` says that the server's assumption holds, that there is a pseudonym, that
the operations ordered are ones of the server,
and that the device's sentinels are none of the real values; it types the bounds.

*Argument.* `DeviceRunsServer` comes first: each action of `AuraDevice` is one of the
server's with something done at the device, or leaves the server as it is
(`StepOfServer`). So the module instantiates `AuraServiceProofs`, and every invariant
proved of the server alone is one of the composed system (`Server!...` in the proofs).

What is left is the device's own. Its row and the server's chain move at different
times: the chain when a request is handled, the row when the device has read the answer
and saved `device.json`, and in between the command may end, the answer may be lost, and a
request may be handled long after its command. `DeviceInv` says what can be known of
either end meanwhile. The row is a beginning of the chain (`RowBegins`). A receipt is signed
on the row as it is, and none on more (`SignedOnRow`, `NoneAhead`). A step that follows an
answer finds on the chain what the answer said (`ToldRight`), because a handler answers
an operation only when it is done or is its next write (`ServingRight`). Since receipts
are signed on the row, the chain can be ahead of a row that ends in a deletion by the
commit of that deletion only (`Server!BeyondDelete`, `BeyondRow`): so a saved `R_prep` fits
the chain whenever the device comes back to it, which is `ResumeAnswered`.
`RowFile`, on top of it, is the device's own half of `LiveProfileIsInstalled`: the row may
be live while the server has moved on, but goes live only by a receipt that follows
`install_profile`, or that was signed on a live row (`Server!ReceiptsKnown`).
TLC checked `DeviceInv` on both instances of `AuraDevice` before it was proved.

*Only model-checked:* `DeleteConverges`, which is liveness.

### Ticket spending

`TicketSpendProofs`, for any devices, tickets, transactions, opids and any field:

| Theorem | States |
|---|---|
| `Recovery` | two responses with different challenges yield the key: `recover_trace_key` is right |
| `SpendTypeCorrect`, `SpenderTraced`, `TakenOnce`, `OpidAnsweredOnce` | `Spec => []` of `TypeOK`, `TraceNamesSpender`, `TakenWithOneRequest`, `OneResponsePerOpid` |

*Assumption.* `SpendAssumption`: every scalar but 0 has an inverse modulo
`curve_order` (so nothing is assumed of primes), and devices have different keys.

*Argument.* `IInv` adds to the properties that every request, posted or only saved, is a
right answer of its ticket's owner (`Honest`), that a device holds its own ticket
(`HoldsOwn`), whose requests are all in its log (`LogComplete`), that saved requests too
are one per opid (`OncePerOpid`), and that every verdict agrees with the nullifier
(`Answered`).
`SpenderTraced` then is `Recovery` applied to the stored and the new request.

### Bound packages and the server

`SmdppProofs`, of `BoundProfile`, for Profiles of every length and any keys:

| Theorem | States |
|---|---|
| `PackageRoundTrip` | what `encode` makes `Decodes` opens |
| `OnlyPrefixVerifies` | segments that verify are a beginning of those that were made, in order |
| `OnlyFullPiecesOverflow`, `MacOnlyFits` | which segments exceed `MAX_SEGMENT_SIZE`: encrypted full pieces, which padding lengthens by a block, and no others |

and of `Smdpp`, for any eUICCs, transactions, Profiles and limits:

| Theorem | States |
|---|---|
| `SmdppTypeCorrect`, `EveryPackageOpens`, `AnsweredGoesOn`, `RepeatOnlyAfterOverflow` | `Spec => []` of `TypeOK`, `PackageOpens`, `AnsweredCanGoOn`, `RepeatNeedsOverflow` |
| `RemovedBySigner` | `Spec => RemovedByItsEuicc`, with the sessions in a file (`Persistent = TRUE`): in memory a restart removes them too |

*Argument.* `IInv` adds that clients past `initiate` have transactions of their own
(`ClientsApart`), that a client waits for the post it sent (`PostsAwaited`), and that
the nonces taken since the last overflow, and the one that overflowed, are remembered, in a
set no larger than what was taken since (`NoncesRemembered`). Then
`AuthenticateClient` stores what its own client asked for, `GetBoundProfilePackage`
binds to that, and `PackageRoundTrip` does the rest.

### The shell's picture of a card

`CardRuntimeProofs`, for any tree of files, cards, channels and bounds:

| Theorem | States |
|---|---|
| `RuntimeTypeCorrect` | `Spec => []TypeOK` |
| `PictureCoherent` | `Spec => []Coherent`, which is claimed while nothing is `lost` |
| `ApplicationAlwaysKnown` | `Spec => []ApplicationKnown` |
| `EveryFileAlwaysSelectable` | `Spec => []EveryFileSelectable` |
| `CreatedAlwaysLeft` | every step that creates a file `Returns`, while nothing is `lost` and the path shown exists: the way back is not refused |

*Assumptions.* `RuntimeAssumption`: the files are a tree under the MF, applications lie in
the MF, and nothing lies in an EF or in an application without a file system.
`FileAssumption`: the profile and the cards have the directories of their files, and among
the files that SELECT by identifier may find from one place (`InReach`) an identifier means
one. ETSI TS 102 221, 8.6, demands the latter of a card; the run's cards satisfy it although two
of their files share an identifier. TLC evaluates both.

*Argument.* That the shell shows the card's file says nothing yet of the next selection,
which follows a path of the picture: the picture must be right where the path leads. So
`SelInv` is the conjunction of

* `TreeTyped`: what is above a file object is a file object, down to the MF;
* `Picture`, that is `TreeSound`: each object but the MF's is `Sound`. An application is directly
  under the MF and on the card. Any other file is in reach of the object above it, and,
  unless that is an application, the object above is in reach of it. This is weaker than
  being where `Path` says, which a directory probed for from its sibling is not;
* `Together`: while nothing is `lost`, the shell has the card's channels, on each it shows
  the selected file or an EF deleted there (`AtRight`), and it knows of applications without
  a file system (`Knows`);
* the types of the files and selections (`FilesOK`, `CurrentOK`, `LchanOK`).

TLC checked `SelInv` on the run's instance first. Then, for paths of any length:
a path between sound objects finds at each SELECT the file that is meant or nothing (`PathClean`), so
walking it keeps card and shell together wherever it stops (`AlongFits`), leaving an
application included (`EscapedFits`, `SelectFileFits`), and it is walked to its end when its files exist
(`SelectFileFinds`, which is `EveryFileSelectable`). The recursion over the path is unfolded
by `AlongMade`, and a property of all its prefixes is proved at the least one that would
lack it. A probe adds a sound object (`ProbeFits`, `Neighbours`). After a creation the way back
is walked from a file the picture does not have: no SELECT on it finds another file than
the one meant (`PlainBack`), so unless it is refused it ends at the file shown (`BackFits`).
Nor is it refused (`BackWhole`) from an EF, from which SELECT finds what it finds from the EF's directory, or from
a directory in the MF or in an application, from which it finds what the path starts with (`BackEnters`),
when the files of the path exist. The restriction (`Returns`) is needed:
TLC finds a refusal after a directory is created in one shown under another directory,
because the way back starts at that other directory, which is not in reach of the new one. A deletion takes a file and what is below it, by `Path`,
and leaves the directory selected (`BelowFile`). A reset ends at the MF, whether
`select` succeeds or not (`MFSelected`). The picture of a card just equipped is sound
because `Path` is (`ModelGood`).

### Secure channels

`CardRuntimeProofs` also proves, for any kinds of session and bounds:

| Theorem | States |
|---|---|
| `RefusedMovesNothing` | without C-ENC, a command that is refused before it is sent has moved neither counter |
| `FullChunk` | without C-ENC everything up to `max_cmd_len` is sent on the basic channel; with it a full chunk never is |
| `EndsInStep`, `NothingGarbled` | `Spec => []InStep`, `Spec => []TakenAsMeant` |

*Argument.* `TakenAsMeant` must hold when nothing is known of the link, so it cannot
rest on the two ends being in step. It rests on a function: unless MACs are 16 bytes
long and C-ENC is on, the encryption counter of either end is determined by the number
of MACs in its chain (`Numbered`, part of `OneSession`). The card verifies only when
the numbers agree, and then the counters do. `OneSession` also says that a session belongs to the channel it
names and is of one kind at both ends; `EndsOK` types the two ends. Every step but `Establish` and
`Command` at most ends sessions (`Framed`).

### Batch programming

`ToolProofs`, for any cards, CSV file, and number of rounds and starts:

| Theorem | States |
|---|---|
| `BatchTypeCorrect`, `GoodCardsAlwaysRecorded`, `SavedAlwaysBeyond` | `Spec => []` of `TypeOK`, `GoodCardsRecorded`, `SavedIsBeyond` |
| `GoodCardsAlwaysDiffer` | `Spec => []GoodCardsDiffer`; with a CSV file, if `CsvFits` |

*Assumptions.* `BatchAssumption` types the constants. `CsvFits` is what a CSV file has to be
like: no row lacks its IMSI, and the cards come with ICCIDs of their own. Without it
the theorem is false of the code: a short row matches every card that is looked up by ICCID,
because `None` equals `None`. TLC evaluates both.

*Argument.* `BatchInv` follows the card of the round. From where it was programmed it
has the round's identity and keys (`RoundsOwn`), its number is above those of all good
cards, and once counted it is below `num` (`NumberBeyond`). A program that begins again
begins at number 0, which would repeat numbers; but it begins at all only while there is
no state file, and no card is good before there is one. The machine takes no good
card for a blank one, since a good card has keys (`GoodHaveKeys`). For a CSV file a card
keeps the ICCID it came with (`IccidKept`): the least row that matches is one with that ICCID
(`RowFound`, which needs that a set of numbers has a least one).

### Profile elements

`ToolProofs`, for any profiles, profile elements, and number of calls:

| Theorem | States |
|---|---|
| `ElementsTypeCorrect`, `EveryInstanceAlwaysIndexed` | `ElementsSpec => []` of `ElementsTypeOK`, `EveryInstanceIndexed` |
| `RemovedAlwaysLeavesNoAdf`, `AddedAlwaysAccepted` | `ElementsSpec =>` `RemovedLeavesNoAdf`, `AddedIsAccepted` |

*Assumption.* `ElementsAssumption` types the constants: finitely many elements, profiles
that list each of theirs once, and a program that makes no second header.

*Argument.* `ElementsInv` has three parts. `ListInv`: the sequence has no element twice,
`pe_by_type` is its index, and `pes_by_naa` is a well-formed index that has at least the
instances of the present sequence (`IndexHas`). At least, because the code appends to what
was there before: what a call leaves behind never hides an instance (`ByNaaGood`).
`NumberInv`: numbers are those of places, and a header has none; without it `RemoveApp`,
which removes by number, could remove the header too. `HeaderInv` types the lists in the
profile's header. TLC checked `ElementsInv` on the run's instance first.

`Only` is unfolded once: `OnlyIs` gives it an increasing map to the places its elements were
picked from (`Picked`), made element by element at the least place at which there would be
none (`GrownPicks`, `LeastNumber`). From the map follow what a filtered list holds
(`OnlyHolds`), that an instance reaches from its head to the next one (`InstanceFound`),
and that the first, second and last element stay in their places (`EndsStay`).

`RemovedAlwaysLeavesNoAdf` rests on `NaaGone`: every element of the removed NAA heads an instance, so the
index has it. For `AddedAlwaysAccepted` the checks that count are statements
about the sets of elements of a type (`OccurringCounts`), and the calls change only the
types that no check counts (`CountedKept`). A new element comes after a security domain, so never first,
second or last (`AfterDomain`, `InsertAccepted`); an application is removed by a number
that no other element has (`RemoveAccepted`).

### Trace decoding

`CardTraceProofs`, for any tree of files, paths of any length, any channels, and any number
of commands and resets:

| Theorem | States |
|---|---|
| `TraceTypeCorrect`, `ResponsesAlwaysBelong`, `PictureAlwaysRight` | `Spec => []` of `TypeOK`, `ResponsesBelong`, `PictureRight` |

*Assumption.* `TraceAssumption`: the files are a tree under the MF (every set of files closed
under `Parent` has the MF), the profile has the directories of its files, and among the
files that can be selected from one of the profile's a FID means one. TS 102 221 demands
that of a card and `add_file` checks it of siblings. The run's tree satisfies it, although
two files share a FID in it.

*Argument.* `TraceInv` says where card and tracer are between two commands (`AtRest`),
while response data are fetched (`Fetching`) and while a command is repeated (`Repeating`).
In `Fetching` the card has selected already and the tracer has not: the picture is right on
every other channel, and `Followed` says what the tracer will make of the response.
`TraceTypes` has `NothingForgotten`: unless a response was left, a command is remembered
only while its response is awaited. That is why a reset, which does not reset the
filter, does no harm.

The recursive functions are unfolded by lemmas: `AncestorsOf`, and for paths
`PathShown` and `PathWalked`, which say that what the tracer makes of a path, and what the
card finds along it, is made element by element (`StepByStep`). `PathFollowed` then compares
the two at the least element at which they would part (`LeastNumber`). TLC's bound `OneAstray` is
not needed: any number of channels may be astray.

## 4. Plan

Each module is written to be proved about as well as checked: constants with
named assumptions, one action per operation, no `RECURSIVE` operator.

*Done:* `LifecyclePromise`, `LifecycleRepository`, `AuraService`, `AuraDevice`,
`TicketSpend`, `BoundProfile`, `Smdpp`, `SecureChannel`, `CardRuntime`, `ProfileElements`, `BatchProgramming`,
`CardTrace`, and the proofs of section 3.

*Left*, in this order:

1. Card links: FETCH and TERMINAL RESPONSE, GET RESPONSE, the serial line of a modem
   (`pySim/transport/`, `do_apdu`), with the retries after a reset.
2. Reading and updating files in pieces (`pySim/commands.py`), where the length comes from
   an FCP the card may answer anything in.
3. The contents of files in a Profile package (`saip/__init__.py`, `File`).
4. The OTA counters (`pySim/ota.py`) with a card that checks them, if the shell ever
   sends such messages itself; today the code only encodes and decodes them.

## 5. Not modelled

* **Cryptography** beyond what it yields (unforgeable MACs and signatures, hashes
  without collisions, proofs that verify when they are right): arithmetic over groups,
  which no model checker reaches. The repository keeps a Tamarin theory of it.
* **Bootstrap, experiments, self-tests**: scripts that run once or drive the rest. Of
  the bootstrap, what a restart repeats (`seed_store`) and what a ticket starts from are
  in `AuraService` and `TicketSpend`.
* **Profile store and X.509**: read-only; a `matchingId` stands for its Profile.
* **Card runtime**: names, paths with `/`, FCPs and contents of files, cards that cannot
  be probed, the legacy classes. **Secure channels**: R-MAC, R-ENC, the DEK, key
  derivation, what GlobalPlatform commands mean.
* **Profile packages**: the contents of elements, file templates, personalisation, DER.
* **Card links**: `pySim/transport/` and `do_apdu`. What was read of them is under the
  divergences above; see the plan.
* **Reading and updating files in pieces** (`pySim/commands.py`): see the plan.
* **OTA, SMS, CAT, the `ts_*` tables**: encoders, decoders and tables of files,
  which keep no state from one call to the next.

Tables and encodings are by far the larger part of the source: most of its lines are tables of
card files, encodings and experiment drivers inherited or written around the protocol.
What is modelled is the part that keeps state between calls.
