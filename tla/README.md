# Data Validator node: TLA+ models, checks and proofs

The data validator node is a NestJS process (`backend/`) with a React and MobX
application in front of it (`front-end/`).  It takes files of data owners in
chunks, has them encrypted, sends them to a service node of the network and
keeps the keys; it lists data owners and their sales, prolongs the storage of
files and registers wallets.  This directory holds TLA+ modules of that program,
TLC configurations and TLAPS proofs.  `PROJECT.json` says which lines each
definition models, which run checks which property, and which changed
definition each property has been shown to catch.

- [Inventory](#inventory)
- [Modules](#modules)
- [Runs](#runs)
- [Disagreements with the documentation](#disagreements-with-the-documentation)
- [Fairness](#fairness)
- [Proofs](#proofs)
- [Bounds](#bounds)
- [What is not modelled](#what-is-not-modelled)
- [Plan](#plan)

## Inventory

Backend, one Node.js process.  A handler runs without interruption between two
awaits and other handlers run at every await; NeDB executes one operation at a
time.

| Component | State it keeps | Operations | What makes it hard | What makes it correct |
|---|---|---|---|---|
| Files (`FilesService`, `FilesController`, repositories) | local files; NeDB documents `ServiceNodeTemporaryFile` (the key), `File`, `DataOwner` (with a copy of its `File`) | create a local file, append a chunk, upload to a service node, poll the status, delete the copy, prolong the storage | two jobs nobody awaits (sending the chunks; saving the file once it is uploaded), a file kept twice, `save` that always inserts when there is no `_id`, crashes between two saves | no content without its key; the key of a record is the one of its content; only whole files are handed over; only stored files are recorded; no record is lost; the copies agree |
| Load balancer (`RoundRobinLoadBalancerClient`) | list of instances, index | choose an instance, refresh | index kept over a refresh, double turn of node 0 | no service node starves |
| Start (`main`, `InitialAccountRegistrationHandler`, `SelfRegistrationService`) | hooks that are to run | register the initial account, announce the node | the hooks race with the first refresh; failures and restarts | the start ends; no service without the initial account |
| Service node client (`ServiceNodeApiClient`) | none | every call takes an instance | the calls of one upload are routed one by one | an upload is handed over, and whole |
| Accounts (`AccountsService`) | NeDB `Account` documents | register a wallet, list wallets, balances | check, register and save are three steps; races with other posts and other nodes; lost answers | only data validators are adopted; refusals are true; a lost registration can be resumed |
| Transactions (`TransactionsService`) | none | page of the history, filtered by local data owners | filtered pages, and a filter that changes between two of them; a promise that is never settled | every request is answered |
| Encryptor client, NeDB wiring, signing, configuration, logging | none | | | |

Front end, one page in the browser.  Replies are applied to the MobX stores as
they are when the reply arrives.

| Component | State it keeps | Operations | What makes it hard | What makes it correct |
|---|---|---|---|---|
| Upload (`UploadDataStore`, `CreateDataOwnerStore`, their dialog) | attached file, form, pending flags, response, snackbar, list of data owners | attach, describe, upload, poll, delete the copy, reset | the store is read again after every await; reset during a request; polling without limit | one document per upload, one upload at a time, one record per file, honest messages, an end |
| Metadata (`AddMetadataDialogStore`, its dialog, the table) | key and value of the dialog, entries of the form | open, choose a key, type, add, remove | one value for all keys, cast without a check; the draft outlives the dialog | what is sent is of the kind its key asks for |
| Chunks (`uploadFileByChunks` on both sides) | current chunk | cut, encode, strip the padding, append | chunk boundaries and padding | what arrives is what was sent |
| History (`TransactionsStore`, `Routes`) | transactions, page, pending, type | load more, select an account, enter and leave a page | overlapping requests, order of route hooks, short pages | the right history, all of it reachable, an end to loading |
| Wallets (`AccountRegistrationStore`, `AccountsStore`, `SettingsStore`) | form, wallets, default wallet (localStorage) | register, fetch, select, reload | the form changes during a request; push and replace of one list | listed wallets are saved; a default wallet is shown |
| Extension (`ExtendFileStorageDurationStore`, dialogs, `DataOwnersAccountsStore`) | file, date, response, error, snackbar; rows of two other stores | open, choose a date, extend, close, fetch the lists and the sales | the reply meets another file, wallet or a closed dialog; a list or page read before an extension arrives after it; a request without an answer is carried out later; a response nobody clears | rows show recorded dates; messages are true; one extension at a time |
| Balances (`AccountsBalanceStore`) | balances of the wallets | poll every ten seconds and when the list is assigned | a pushed wallet runs no reaction; all balances or none; replies out of order | every listed wallet gets its balance |
| Editing of metadata, pages, navigation | | | reached from no page; rendering | |

How they interact: the front end calls the backend by HTTP (each call may be
lost, or its reply may); the backend calls service nodes, a bootstrap node and
the encryptor by HTTP, each of which may fail with or without effect; jobs share
NeDB documents; stores of the front end read and write each other
(`ExtendFileStorageDurationStore` updates rows in `DataOwnersAccountsStore` and
`TransactionsStore`; `SettingsStore` and `AccountsBalanceStore` react to
`AccountsStore`, `DataOwnersAccountsStore` is fetched after every upload).  Service nodes,
DDS, the encryptor, bootstrap nodes, NeDB and the browser are not in the
repository and are modelled from how they are used.

## Modules

| Module | Models | Extends or instantiates |
|---|---|---|
| `DataCustody` | what the files component promises about keys, content and records (abstract specification) | |
| `DataValidatorFiles` | the files component of the backend with its database, crashes and failed calls | `Custody == INSTANCE DataCustody WITH ...` |
| `DataValidatorFiles_proofs` | theorems about it | `DataValidatorFiles`, `TLAPS` |
| `UploadClient` | the front end's upload, composed with the backend | `DataValidatorFiles` |
| `UploadClient_proofs` | theorems about it | `UploadClient`, `DataValidatorFiles_proofs`, `SequenceTheorems`, `TLAPS` |
| `ServiceNodeBalancer` | the load balancer and the start of the process | |
| `ServiceNodeBalancer_proofs` | theorems about them | `ServiceNodeBalancer`, `TLAPS` |
| `UploadRouting` | the calls of uploads behind the balancer, whose actions it takes over | `ServiceNodeBalancer` |
| `UploadRouting_proofs` | theorems about it | `UploadRouting`, `ServiceNodeBalancer_proofs` |
| `TransactionsHistory` | history store, routes, `TransactionsService` | |
| `TransactionsHistory_proofs` | lemmas about the ranks and the pages of a list, and theorems | `TransactionsHistory`, `FiniteSetTheorems`, `FunctionTheorems`, `TLAPS` |
| `WalletRegistration` | `AccountsService` and the three wallet stores | |
| `WalletBalances` | the reactions on the list of wallets: default wallet and balances | `WalletRegistration` |
| `WalletBalances_proofs` | theorems about `WalletRegistration` and about the composition | `WalletBalances`, `TLAPS` |
| `StorageExtension` | extension store, its dialogs, the rows it updates, how lists and sales are fetched | |
| `StorageExtension_proofs` | theorems about it | `StorageExtension`, `SequenceTheorems`, `TLAPS` |
| `ChunkedTransfer` | chunk boundaries, Base64 and padding | |
| `UploadForm` | metadata dialog, form and what of them is sent, composed with the transfer | `ChunkedTransfer` |
| `UploadForm_proofs` | theorems about both | `UploadForm`, `TLAPS` |
| `MCDataValidatorFiles`, `MCUploadClient`, `MCTransactionsHistory`, `MCStorageExtension` | constants that are functions or sequences, and symmetry | the module they are named after |

Operators named `<Definition>_<Bug>`, with the comment *Mutant*, are not part
of a specification.  Each one is the definition behind it with a plausible bug;
`PROJECT.json` pairs it with a property and a run, and TLC finds the property
violated when the mutant takes the place of the definition.

### DataValidatorFiles

A request is a member of `Upload`, `Check` or `Extend`; its `pc` names the await
it is at and an action is the code up to the next one.

- `up[u]`: `ReadLocalFile` (read, call the encryptor), `EncryptWithAes`,
  `CreateAtServiceNode`, `SaveTemporaryFile` (the key is saved; the reply is
  sent and the background job starts), then the job itself: `SendChunk`,
  `AllChunksSent`, `UploadFileToDds`.  `UploadFails`, `CreateReplyLost`,
  `ChunkReplyLost` and `BackgroundJobStops` are its failures.
- `chk[c]`: `CheckStatus`, then, when the file is uploaded, the save job nobody
  awaits: `GetFileInfo`, `FindFileKey`, `SaveFile`, `SaveDataOwner`,
  `SaveJobStops`.  `SaveFile` and `SaveDataOwner` always insert, as `save` does
  for an object without `_id`.
- `ext[e]`: `FindFile`, `ServiceNodeExtends`, `FindDataOwner`, `FindSavedFile`
  and `UpdateFile` (the two halves of `filesRepository.save`: a find, then an
  update whose query is the whole document found, hence a compare-and-swap),
  `SaveExtendedOwner`.
- `sn[f]` is what service node and DDS hold of a file; `DdsAnswers` is their
  decision.  A local file's id, the id at the service node and the DDS id name
  the same file.
- `Crash` ends every request and job and keeps files and documents.

The key of an upload is named by the upload (the encryptor draws a new key for
each call).  File contents are counted in chunks, dates and ids are members of
small sets.

### UploadClient

Extends the backend: `JobStep` of a run of `uploadData` contains the backend's
action when the call is answered in one step, and `Posted` starts an upload
request whose steps interleave.  A browser file is a member of `Document`; the
pieces appended to a local file are recorded with the document they were cut
from.  `CallLost` ends a run at whatever call it waits for, with or without the
effect of that call.  The list of data owners is fetched when the page is loaded
and after an upload (`DataOwnersFetched`, `FetchLost`).  The user may work in the
dialog at any time; the history variable `job[l].alone` says whether a run of
`uploadData` was left alone.

### ServiceNodeBalancer and UploadRouting

Of the list of instances only the number of service nodes matters.  `waits[k]`
is a history variable: calls since position `k` was chosen.  `boot` follows
`app.listen` through the hooks; a hook that throws leads to `"rejected"`, after
which nothing opens the port.  `UploadRouting` adds the list itself
(`instances`, any service nodes in any order at each refresh) and uploads whose
calls take their turn with all other calls; it assumes that a service node knows
only files created at it (the routes are `files/local/:id`, the status has a
field `deletedLocally`).  The history variable `disturbed` holds the uploads whose
liveness nothing promises: a call of theirs failed, the process was restarted,
or the list had another service node than theirs.

### TransactionsHistory

`requests` are the requests in flight, in slots.  The backend answers one in
steps: `ReadPage` (the service node gives a page of the ledger as it is then) and
one `MapTransaction` for each transaction of it, which keeps it if its data owner
is known at that moment.  Meanwhile `Arrive` adds a transaction anywhere in the
ledger, which moves the pages behind it, and `RecordOwner` is the save job of an
upload.  Replies arrive in any order and `FetchSucceeds` applies one to the store
as it is, without a look at what was asked for, as the code does.  The store
counts as a set of hashes (`uniqBy`); the order of the rows on the screen is left
out.  `Enter`, `Exit` and `Switch` are route changes; mobx-router runs
`beforeEnter` of the new route before `onExit` of the old one, so `Switch` fetches
and then resets.

A reply is `Expected` when its request was sent since the last reset, for the
type of the page that is open and for the page the store counts next.  The history
variable `mixed` is set when a reply is applied that is not, or when the account
changes on a history page without the reaction of the store, and it is cleared by
the next reset.  Requests that overlap are in the model and in the properties as
long as no such reply has been applied.  `recent` are the transactions made since
the history was begun: a paged history need not show them.  `unanswered` is set
when a request meets the promise that is never settled (`TransactionsService.ts:17`).

### WalletRegistration

`post[p]` goes through the check of the role, the registration and the save.
Posts come from this front end (`Register`) and from others.  `accounts` is
pushed to by `Registered` and replaced by `AccountsFetched`; only the second
runs the reaction that selects a default wallet.  The user may edit the form at
any time, also while a registration is pending (`edited`), and `Registered` takes
the address from the form as it is: the history variable `misread` holds the
addresses that came in from an edited form, until the next list replaces them.

### WalletBalances

Adds the second reaction on the list and the timer (`Tick`).  A request for the
balances is `"asked"`, then answered from the saved accounts as they are at that
moment, then merged; of a balance only whether it is known is kept.  The history
variable `pushed` holds the wallets `addAccount` added since the list was last
assigned.

### StorageExtension

The backend's PATCH is one step (its inner steps are in `DataValidatorFiles`): it
records the date (`BackendExtends`) or answers with an error (`BackendFails`).
When the connection is lost (`ConnectionLost`) the store is told of a failure
while the request goes on: `late` holds such requests, and `ExtendsLate` carries
them out at any later time, also after other extensions.

`owners` and `sales` are the dates shown in the two lists, which start empty.
`GetDataOwners` and `GetSale` are the backend reading the records for a reply,
`list` and `page` what is on its way, `DataOwnersFetched` and `SalesFetched` its
arrival: the list of a wallet is replaced, sales are pushed and `uniqBy` keeps the
row that is there.  `LeaveSales` and the reaction on the selected wallet drop the
sales.  How sales are paged is in `TransactionsHistory`.

`showSnackbar` is looked at when a dialog is rendered, now or when one is opened
later.  An extension whose reply finds no list to update throws after the
response was set, as `extendFileStorageDuration` of `DataOwnersAccountsStore` does.
The history variable `uncertain` holds the files whose rows may be wrong: the
last PATCH failed, its reply met another file, date or wallet in the store than
it was sent for, or it overtook a list or page that had been read before; an
extension that meets its own dialog clears it, unless a request for the file was
never answered.

### ChunkedTransfer

Bytes are named by position.  A Base64 character is named by its place in its
group and the bytes its bits come from, so two texts are equal exactly when
they encode the same bytes in the same places.  Both chunk sizes are 5242878 =
6 * 873813; what matters is the factor 6, and runs use 6.

### UploadForm

The dialog has one value for all keys; only the kind and the length of a value
matter (`Undefined`, `Text`, `HashTags`).  `SetKey` contains the reaction that
forgets the value, `CloseOutside` keeps the draft as the dialog does, and
`AddMetadata` makes the entry and clears the dialog.  `PostUpload` is the POST:
the transfer's `EncryptLocalFile`, and the entries without those whose value is
undefined.  The chunks are cut while the user goes on editing the metadata.

## Runs

All runs are `tlc -config <run>.cfg <module>.tla`.

| Run | Module | Shows |
|---|---|---|
| `files_upload` | `DataValidatorFiles` | two uploads of one local file, with a failure or crash anywhere: keys before content (`KeyStoredBeforeData`), the right key in the record (`FileDocHasKeyOfContent`), only whole files handed over (`SentToDdsWhole`), `ImplementsCustody`, and the inductive invariant |
| `files_registry` | `MCDataValidatorFiles` | two status checks and two extensions of one file at once, with a failure or crash anywhere: `RecordedFilesAreStored`, `OwnerRefersToFile`, `DatesWereAccepted`, `RecordsAreKept` |
| `files_extend` | `DataValidatorFiles` | extensions one after the other, without failures: `CopiesAgreeAtRest`, `ReportedThenListed`, `ExtendIsAnswered` |
| `client_edits` | `MCUploadClient` | two uploads, a lost call, a user who works in the dialog meanwhile: `OneUploadAtATime`, `SuccessIsStored` |
| `client_faults` | `MCUploadClient` | one upload of one of two documents, a lost call and a failure or crash of the backend: `ClientTypeOK`, `UploadIsOneDocument`, `OneRecordPerFile`, `CopyOutlivesUpload`, `UploadFinishes` |
| `routing` | `UploadRouting` | an upload among all other calls, with any lists, failures and restarts: `NoStarvation`, `ListensWithAccount`, `HandedOverWhole`, the inductive invariant `RoutingInv`, `StartupEnds`, `UploadArrives` |
| `history` | `MCTransactionsHistory` | overlapping and failing requests whose replies come in any order, changes of account and page, a transaction made and a data owner recorded meanwhile: `ShowsOwnHistory`, `LoadMoreReachesAll`, `LoadingEnds` |
| `wallets` | `WalletBalances` | races, failures, crashes, reloads, a form edited at any time, and the reactions on the list: `SavedAreValidators`, `RefusalsAreTrue`, `ListedAreSaved`, `DefaultIsChosen`, `RegistrationIsResumed`, `BalanceAppears` |
| `extend` | `MCStorageExtension` | a request that fails, or gets no answer and is carried out later, dialogs and wallets changed, lists and sales fetched meanwhile: `ListsShowRecordedDate`, `OneExtensionAtATime`, `SuccessIsNotDenied` |
| `transfer_boundaries` | `UploadForm` | documents around all chunk boundaries and metadata edited until it is sent: `ContentArrivesWhole`, `MetadataFitsKeys` |
| `balancer_startup` | `ServiceNodeBalancer` | a counterexample to `StartupExposesApi`, below |
| `extend_announced` | `MCStorageExtension` | a counterexample to `SuccessIsTrue`, below |

`CHECK_DEADLOCK FALSE` is set where the model really stops: requests of the
backend are a finite set that is used up, and the transfer of a file comes to its
end.

Several properties hold under a condition, which is part of the property when it
is about what happened before and a constant of the run otherwise:

- `UploadIsOneDocument`, and the half of `SuccessIsStored` about the message, need
  an upload the user left alone (`alone`).  A file attached meanwhile continues
  the local file of the first, because each chunk is cut from the store as it is
  (`UploadDataStore.ts:232`).
- `UploadFinishes` needs a backend none of whose calls fails: when a chunk of the
  background upload fails (`FilesService.ts:64`) the status is neither uploaded
  nor failed, and the client polls for ever.
- `ShowsOwnHistory` and `LoadMoreReachesAll` hold until a reply is applied that was
  meant for something else (`mixed`): nothing compares a reply with what the store
  shows by then (`TransactionsStore.ts:86`).  `LoadMoreReachesAll` speaks of what the
  account had when its history was begun, and needs all its data owners to be
  known when there is nothing more to load: a page that lost a transaction to the
  filter is shorter than `PAGE_SIZE` and is never turned (`TransactionsStore.ts:89`).
- `ListsShowRecordedDate` leaves out the files in `uncertain`, and a file while a
  reply, a list or a page it was read for is on its way.  What is in doubt is what
  the program does not repair by itself: a reply to another dialog
  (`ExtendFileStorageDurationStore.ts:72`), a row read before an extension and added
  after it, which `uniqBy` then keeps (`TransactionsStore.ts:87`).  A file with an
  unanswered PATCH stays in doubt for good.
- `LoadingEnds` leaves out requests the backend never answers, and `UploadArrives`
  the uploads in `disturbed`.
- `ListedAreSaved` excepts the addresses in `misread`: the address is taken from the
  form when the reply arrives (`AccountRegistrationStore.ts:91`), and the fields
  stay enabled.  It says that this is the only way for such an address to be
  listed, and that the next list ends it, unless it was chosen as the default.
- `CopiesAgreeAtRest` needs one record of the file, PATCHes that do not overlap and
  no failure or crash; the run has them by its bounds (`MaxActiveExtends = 1`,
  `MaxFaults = 0`), the theorem `CopiesAgree` as hypotheses about the behaviour.
  `OneRecordPerFile` gives the first for one browser.  Nothing in the backend
  gives the second: `OneExtensionAtATime` is about what one store waits for, and a
  request without an answer may still run.
- `BalanceAppears` and `RegistrationIsResumed` need calls that stop failing at some
  time: the number of failures is bounded.

## Disagreements with the documentation

Each of these runs ends in a counterexample.

| Run | The repository says | The code |
|---|---|---|
| `balancer_startup` | `README.md:57`: after startup the node exposes the API | with accounts of an earlier start `registerSelf` asks for a service node while the first list is still on its way (`SelfRegistrationService.ts:38`), throws, and the port is never opened, although no call fails and the list that arrives then is not empty (`StartupExposesApi` asks for no more) |
| `extend_announced` | `ExtendDataOwnerFileStorageDurationDialog.tsx:45-47`: one message for an extension, another for an error | nothing clears the response of an earlier extension, so a later failure is announced as "Storage duration has been extended" |

Noticed while modelling, without a run of its own:

- a rejection inside `new Promise(async ...)` (`TransactionsService.ts:17`) leaves a
  request without an answer (`ServiceNodeFails`);
- a late reply is shown in the history of another account or page (`mixed`);
- a form edited during a registration lists a wallet the backend has no key of
  (`misread`), and whose balance therefore never appears;
- `uniqBy` keeps the row that was there, so that a sale read before an extension
  and added after it stays as it is (`uncertain`);
- a PATCH whose connection is lost is reported as failed and may be carried out
  after the next one (`ExtendsLate`);
- the list of data owners is fetched (`CreateDataOwnerStore.ts:53`) while the save
  job may still run;
- the reaction that selects a default wallet does not run when the first wallet is
  pushed (`SettingsStore.ts:38`);
- with several service nodes the calls of one upload go to different ones
  (`ServiceNodeApiClient.ts:77`), which stops it if they do not share files;
- the repositories ignore the error of an insert
  (`ServiceNodeTemporaryFilesRepository.ts:17`, `FilesRepository.ts:14`,
  `AccountsRepository.ts:14`).

## Fairness

Weak fairness only, and only of steps the system takes by itself: a callback
that is due is run by the event loop (save jobs, extensions, background jobs),
NeDB calls back, a call that does not fail is answered, DDS decides, the cron
job runs, a background upload goes on (`UploadRouting`), the timer of the balances
ticks (`WalletBalances`).  No user action, failure, crash or restart is fair.  The unfair
disjuncts compete with the fair ones, so a run with `MaxFaults > 0` checks
liveness under every placement of that many failures.  `TransactionsHistory` has
one condition for each slot: the next step of its request, in the service node, the
backend or the browser, is taken.  `BootStep` and
`Refreshed` are separate conjuncts, so nothing makes the list of service nodes
arrive before the hooks run; `balancer_startup` is that race.

## Proofs

TLAPS proves, for every value of the constants that satisfies the named
assumptions (`BoundsAssumption`, `NullAssumption`, `BalancerAssumption`,
`RoutingAssumption`, `WalletAssumption`, `ExtensionAssumption`,
`ClientAssumption`, `ChunkAssumption`, `FormAssumption`, `HistoryAssumption`; all of them evaluated by
TLC in the runs):

| Theorem | States |
|---|---|
| `Inductive`, `TypeCorrect` | `Spec => []IInv`, `Spec => []TypeOK` of the files component |
| `KeysAreNeverLost` | `[]KeyStoredBeforeData` |
| `RecordedKeyDecrypts` | `[]FileDocHasKeyOfContent` |
| `OnlyWholeFilesAreSentToDds` | `[]SentToDdsWhole` |
| `RecordsAreSound`, `OwnersHaveTheirFile`, `RecordedDatesWereAccepted` | `[]RecordedFilesAreStored`, `[]OwnerRefersToFile`, `[]DatesWereAccepted` |
| `NothingIsLost` | `RecordsAreKept`, an action property |
| `FilesImplementCustody` | the files component implements `DataCustody` |
| `CopiesAgree` | `Spec /\ []Undisturbed => []CopiesAgreeAtRest` |
| `ClientInvariant`, `ClientTypeCorrect` | `ClientSpec => []ClientInv`, `[]ClientTypeOK` |
| `ClientUsesBackend` | `ClientSpec => Spec`: what front end and backend do together is a behaviour of the backend |
| `OneUploadRuns`, `UploadsAreOneDocument`, `CopiesOutliveUploads`, `SuccessesAreStored`, `RecordsAreUnique` | `[]OneUploadAtATime`, `[]UploadIsOneDocument`, `[]CopyOutlivesUpload`, `[]SuccessIsStored`, `[]OneRecordPerFile` |
| `BalancerInvariant`, `EveryNodeIsServed`, `NoServiceWithoutAccount` | `[]IInv`, `[]NoStarvation`, `[]ListensWithAccount` of the balancer |
| `RoutingInvariant`, `RoutingTypeCorrect`, `HandedOverFilesAreWhole`, `EveryNodeIsServedInUploads` | `[]RoutingInv`, `[]RoutingTypeOK`, `[]HandedOverWhole`, `[]NoStarvation` with uploads |
| `AdoptedAreValidators`, `RefusalsStayTrue` | `[]SavedAreValidators`, `[]RefusalsAreTrue`, whatever the user types |
| `WalletsInvariant`, `ListedWalletsAreSaved` | `[]IInv`, `[]ListedAreSaved`, with a form edited at any time |
| `ListsBringDefault` | `BalanceSpec => []DefaultIsChosen` |
| `RegistrationIsSafe`, `ListedAreSavedBesides` | the properties of the registration in the composition `BalanceSpec` |
| `ExtensionInvariant`, `ExtensionsDoNotRace`, `SuccessesAreNotDenied`, `RowsShowRecordedDate` | `[]IInv`, `[]OneExtensionAtATime`, `[]SuccessIsNotDenied`, `[]ListsShowRecordedDate` of the extension |
| `HistoryInvariant`, `ShownIsOwnHistory`, `AllIsReached` | `[]HistoryInv`, `[]ShowsOwnHistory`, `[]LoadMoreReachesAll` of the history |
| `MetadataArrivesTyped`, `ContentIsTransferred` | `FormSpec => []MetadataFitsKeys`, `FormSpec => []ContentArrivesWhole` |

**Files.**  The safety properties are not inductive: that a record carries the
key of its content follows from who owns what.  `IInv` says that a file belongs
to one upload (`UploadInv`), that keys are stored exactly for the uploads that
came so far (`TempInv`), that what the service node holds came from the upload
that created the file, chunk by chunk (`ContentInv`), that every record is
genuine and equal in id, file and key to every other document with its `_id`
(`RecordInv`), that what a save job or an extension carries is still true of the
file it is about (`SaveJobInv`, `ExtendInv`), and that a file at DDS has its
temporary document (`DdsInv`).  The proof has a lemma for each action and under
it a step for each part the action can disturb.  Uniqueness of `_id`s only up to
`SameFile` is what lets the compare-and-swap of `UpdateFile` lose its race.
`NothingIsLost` and `FilesImplementCustody` take `IInv` and its primed form and
go through the actions again: each maps to `Escrow`, `Send`, `Store`, `Record`,
`List` or a stutter.

`CopiesAgree` is conditional, because the property is: `Undisturbed` says that no
call has failed and nothing has crashed, that no two PATCHes overlap (`OneExtend`)
and that no file is recorded twice (`RecordedOnce`).  They are
hypotheses about the behaviour, not about the constants: nothing in the backend
brings them about.  `files_extend` runs in such states only.
Under these hypotheses `CopyInv` is inductive.  It says that a data owner has the
stored File or belongs to the one PATCH that has just replaced it (`OwnerCopies`),
that a save job between its two inserts has its File still in the database and is
alone with it (`SavedCopies`), that what a PATCH has read is still there
(`ReadCopies`), and that the date of a File is the one of the service node, but for
a PATCH that is ahead with it (`DateCopies`).  The last part has a counterpart for
a save job that has fetched a date and not stored it yet (`FetchedDates`): a PATCH in
between finds no File, so that its file is not among those the property is about.
`CopyInv` was model-checked as an invariant of the undisturbed states first.

**Upload client.**  `ClientInv` stands on the backend's `IInv`: every step of the
client is a step of the backend or leaves its variables alone
(`ClientUsesBackend`), so `IInv` is preserved and may be used.  On top of it a run
keeps the button disabled (`RunInv`, from which `OneUploadAtATime` follows), has a
request of its own and the file answered for it (`RequestInv`), has appended
exactly the first `next` pieces of the attached document while the dialog is left
alone (`PiecesInv`), and deletes a copy only after DDS has decided (`DecidedInv`).
`SavedOnceInv` says that the only save job of a file belongs to the run that saw
it uploaded, which stops polling by that: `OneRecordPerFile` is about the two
halves together, neither of which has it alone.

**Balancer.**  `NoStarvation` needs to know where the index is in its round:
`WaitInv` bounds the wait of position `k` by `selectedNodeIndex - k - 1` behind
the index and by `serviceNodes - k + selectedNodeIndex` before it, and says that
after a refresh that left the index past the list nobody has waited yet.

`RoutingInv` adds that a chunk is counted as sent only if it went to the service
node that has the file.

**Wallets.**  `SavedAreValidators` needs that a post about to save is of an
address that is a data validator (`PostInv`), which is independent of the user.
`ListedAreSaved` needs also that the reply in flight names only saved wallets and
that the form holds the address of the request unless it was edited meanwhile
(`FormInv`): an address that is not saved can then only come from an edited form,
and every step that replaces the list drops it from `misread` but for the default.
`ListsBringDefault` needs nothing of them: what may be listed without a default
wallet is what was pushed since the list was last assigned.

**Extension.**  The store waits exactly while there is one request or reply
(`QueueInv`, on lemmas about a sequence of at most one element), and a response is
there once an extension succeeded (`SnackInv`).  Of a file not in doubt, the rows
have the recorded date but while its reply is on its way, and what has been read
for a list or a page on its way has it too, since an extension that overtakes one
puts the file in doubt (`RowInv`).  The reply carries the recorded date
(`RecordedInv`), unless a request for the file was never answered: such a one may
be carried out in between, and `Unanswered \subseteq uncertain` keeps the file in
doubt.

**History.**  A page is the part of a list between two ranks.  The lemmas say that
rank numbers a finite list without a gap (`RankIncreases`, `NthProperties`), that it
only grows when the list grows (`RankGrows`), that a page holds at most `PageSize`
transactions (`PageIsBounded`), and that a page with fewer is the end of the list
(`ShortPageIsLast`).  They stand on theorems about finite sets instead of recursion.
`HistoryInv` has what the routes keep (`RouteInv`: with the reaction on, the store
asks for the type of the page; `HomeInv`: nothing on its way is meant for the next
history), what a request carries (`RequestInv`), and what is shown (`OwnInv`, of a
store that is not `mixed`): only the own history with known data owners; every
transaction that was there when the history was begun and whose rank lies in the
turned pages; and that the reply which is expected brings the rest of the next
page.  A new transaction only pushes others to later ranks, which the bounds in
`OwnInv` allow for, and a data owner that becomes known takes nothing away.  A page
is turned only when the reply was full, so that nothing of it was filtered out;
`AllIsReached` then needs only the last page, which `NothingMore` says is short and
shown.

**Form and transfer.**  `FormInv` says that the value of the dialog is of the kind
of its key at all times, which is the work of the reaction on the key, and that no
entry is an empty text.  `TransferInv` says that what has been appended is the
encoding, or the text, up to the offset.  Its two lemmas are where the chunk size
matters: an encoding in two parts is the encoding at once when the first part is
whole groups of three bytes (`EncodedInParts`), and an even place before the last
one of a text is never padding (`EvenPlacesArePlain`).

Only model-checked: liveness (every `~>` and `<>` property) with its fairness, which
needs `ENABLED`; and the two properties that do not hold
(`balancer_startup`, `extend_announced`).  Every invariant and every action property
of a passing run is a theorem.

## Bounds

Every bound is a constant: `MaxChunks`, `MaxFaults`, `MaxActiveExtends`,
`MaxLost`, `MaxReplies`, `MaxNodes`, `MaxInFlight`, `MaxDate`, `MaxBytes`, `MaxLength` and the
sizes of the sets of requests.  They are small because of what the properties tell apart.

- Two uploads of one local file are enough for keys of different uploads to be
  mixed up; two checks of one file for duplicate records and for an extension
  between them; two extensions for a lost compare-and-swap; two chunks for a
  file that is partly sent.
- One or two failures, crashes or lost calls, at every point: the jobs share
  nothing but the documents, and the proofs cover any number for the proved
  properties.
- Lists of up to three service nodes give all cases of an index below, at and
  past the end of the new list; the proof covers any length.
- Two accounts, four transactions, one of which is made later, two data owners, one
  of which is recorded later, pages of two, two requests in flight, one failure: a
  reply for another account or page, full, short and filtered pages, pages that
  move between two requests, overlap.
- Two dates and two files of two wallets in `extend`, one of them sold, one list and
  one page of a wallet and two of all on their way (`MaxReplies`), one failure: an
  extension that overtakes a list, a reply that meets another dialog, a request
  that is carried out after a later one.  Three dates in `files_extend`.
- One failure in `wallets`, anywhere, and one request for the balances at a time: a
  tick that finds one on its way leaves it to the next tick.
- Texts and lists of hash tags up to length 2, and two keys, one of each kind: an
  empty value, one that is not, and a change of the key in both directions.
- Files of 0 to 20 bytes with chunks of 6: empty, shorter, equal and longer
  than a chunk, with every remainder, up to four chunks, before and after
  encryption.

`files_registry` and `client_edits` use symmetry over requests, dates, local
files and ids at the service node: no definition orders them, and neither run
checks liveness.
`DocId` is not symmetric (`findOne` takes the first).

## What is not modelled

- Errors of NeDB: the models take it to write what it is given.  The repositories
  ignore the error of an insert and resolve, so that with a disk that refuses
  writes an upload goes on without its key document
  (`ServiceNodeTemporaryFilesRepository.ts:17`; also `FilesRepository.ts:14`,
  `AccountsRepository.ts:14`): `KeyStoredBeforeData`, `OwnerRefersToFile` and
  `ListedAreSaved` hold of the program under this assumption.  A crash before or
  after each of these writes is modelled.
- The order of the rows of a history, the paging of the sales in
  `StorageExtension`, and the text of the error of a registration.
- Amounts of balances, and replies for them that overtake each other: the next
  tick repairs an old balance within ten seconds.
- The price and the date of the form.  The error of the price does not count in
  `isFormValid`, and no `ValidationPipe` is installed in the backend (`main.ts`), so
  the decorators of its request types check nothing.
- Editing of metadata: no page renders its button and no dialog reads its store.
- Validation of other fields, wording, layout, themes, navigation, logging,
  configuration, the status check, request and response mapping.
- Cryptography: the encryptor is a step that may fail, a signature is nothing.
  That the documentation says files are encrypted with the data owner's public
  key (`README.md:28-29`) while the code calls `encryptWithAes` is noted here
  and not modelled.
- What service nodes, DDS and bootstrap nodes do inside.  Prices and payments.
- Code without a caller: `getServiceNodesByAddressAndType`,
  `EditMetadataDialogStore`, `getBootstrapNodes`, the RSA calls of the
  encryptor client.
- Disk errors of local files, and the growth of their directory (they are never
  deleted).

## Plan

Done, in this order: `DataCustody` and `DataValidatorFiles` with their proofs,
`UploadClient`, `ServiceNodeBalancer` with its proofs, `TransactionsHistory`,
`WalletRegistration` with its proofs, `StorageExtension`, `ChunkedTransfer`,
`UploadRouting`; then `WalletBalances`, `UploadForm`, the lists of data owners in
`StorageExtension`, the failures of the history's requests, and the proofs about
all modules; last the
proofs of the history and of `CopiesAgreeAtRest`, a history whose pages move and are
filtered, sales that are fetched, and extensions without an answer.

Left, models:

1. An abstract specification of the history (a set that grows towards the own
   history) that `TransactionsHistory` implements while the store is not `mixed`.
2. Status checks and the delete of an upload through the balancer, in
   `UploadRouting`.
3. Duplicate records: what `getDataOwners` and an extension do once there are two
   records of one file.

Left, theorems:

1. A module that lets `StorageExtension` send its requests to `DataValidatorFiles`, to
   conclude from `CopiesAgree` and `ExtensionsDoNotRace` that one browser none of
   whose calls fails keeps the copies equal.
2. `ShowsOwnHistory` as a refinement, once the abstract history is stated.
