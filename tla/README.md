# Verification of for-fabric

TLA+ models of `@decaf-ts/for-fabric`, the adapter of the decaf persistence
framework to Hyperledger Fabric, with their model checking runs and proofs.
Paths are relative to the repository; `src/` is its source directory.

## 1. The system

The repository has two halves that meet only through the ledger. *Contracts*
(`src/contracts`) run in a chaincode process: a repository and an adapter
translate create, read, update, delete and queries into calls of the chaincode
stub. *Clients* (`src/client`) run in applications: an adapter turns the same
operations into proposals and submits them. `src/shared` holds what both use.
The base classes come from other packages (`@decaf-ts/core`, `db-decorators`,
`for-couchdb`), and the peers are Fabric's; both are external.

| Part | State | Operations | Hard behaviour | What makes it correct |
|---|---|---|---|---|
| ERC20 contract (`contracts/erc20`) | tokens, wallets, allowances in the world state | Initialize, Transfer, TransferFrom, Approve, Mint, Burn, BurnFrom and queries | calls are checked at endorsement and take effect at commit, many in flight | no overdraft, debits authorised, supply conserved, equivalent to an atomic token |
| Safe arithmetic (`shared/math.ts`) | none | add, sub | rounding of large numbers | exact or refused, refused only if inexact |
| Contract sequence (`FabricContractSequence.ts`) | one record, public and/or in private collections; a value cached per transaction | current, increment, ensureAtLeast | concurrent transactions, several uses in one transaction that cannot see its own writes, collections that refuse reads and writes | no value issued twice, copies agree, an ensured value lasts |
| Contract adapter (`ContractAdapter.ts`) | the world state and private collections | create, read, update, delete, bulk, raw, range queries, pagination | records split over collections, mirrors, partial failure | a record is readable as written; pages follow one another and lose no row |
| Contract context (`ContractContext.ts`) | flags and collections of one call | readFrom, consumeReadCollections, segregation flags | flags that stick to a shared context | each record uses its own collections |
| Decorators (`shared/decorators.ts`) | metadata; writes through the context | Owner, ownedBy, mirror, privateData, sharedData handlers | order of handlers, swallowed errors | mirror equals original; private data stays private |
| Contract events (`FabricContractDispatch.ts`, `FabricContractRepositoryObservableHandler.ts`, `shared/events.ts`) | one event per transaction | updateObservers, name generation and parsing | calls not awaited, last write wins | an observer learns of each committed change |
| Client dispatch (`FabricClientDispatch.ts`) | the listener and the observed adapter | initialize, handleEvents, updateObservers, close | a failing event among good ones, close during delivery | what is told is committed; nothing is told twice; what is committed is told |
| Paging (`FabricContractPaginator.ts`, `FabricContractRepository.ts`) | bookmarks per page | page, paginateBy | data that changes between pages | no row twice, no row lost, the scan ends |
| Client adapter (`FabricClientAdapter.ts`) | cached connections, contexts | CRUD, submit (normal and legacy gateway), evaluate, refresh after write, migrate | other clients between the steps of a call, deadlines, lost transactions | success means committed, a refusal means not committed; a call returns its own write or a later one |
| Client repositories and statements | little of their own | forward calls, rebuild models | transient data merged back | same result as the contract's |
| Enrollment and identity services (`client/services`) | identities at the CA | register, enroll, update, revoke | several requests without rollback, lost answers | a renewal takes nothing from a user before he has its replacement; what is replaced is revoked |
| Migration contract | none of its own | migrate | failure between up, migrate, down | all in one transaction, hence atomic |
| Deployment command (`cli-module.ts`, `cli-utils.ts`) | a tracker file with a sequence number | package, install, approve, commit | any step fails, the process is killed, earlier attempts have left their packages and approvals | the file stays in step with the channel, or one off; what is left blocks no new version |
| Crypto, HSM, file and index generation, serializers, sample contracts, the other commands | files, keys, text | | input and output | not modelled, see section 7 |

## 2. Plan

Modules in the order they were written; all are done. The middle column names
the promise each is checked against.

| Module | Models | Abstract specification, properties | Composed from |
|---|---|---|---|
| `FabricLedger`, `ERC20Token`, `ERC20Contract` | the peer ledger; the ERC20 contract | `ERC20Token` implemented by the contract | contract on ledger |
| `SafeMath` | `add`, `sub` | exact or refused | |
| `ContractSequence` | sequences | values issued once | on ledger |
| `SegregatedStore` | create, read, update, delete of records split over the public state, private collections and a mirror; context flags; segregation and mirror handlers | parts of a record come and go together, private parts stay with their owner, the mirror is a copy | on ledger |
| `ClientCalls` | a call from the client's start to its answer: adapter, CRUD contract, commit, deadline, refresh, migration | answers are true of the ledger | on ledger |
| `ClientEvents` | event of a transaction, listener, wrapped methods and local notifications | told what is committed, once, in whole, in the end | on `ClientCalls` |
| `Paging` | queries, pages, bookmarks, key ranges, lists | pages follow one another and lose no row | |
| `Deployment`, `Enrollment` | the deploy command; the CA services | the tracker stays in step; renewals cost no usable certificate | |

The proofs are in modules of their own, each of which extends the module it is
about:

| Module | Proves about | Theorems |
|---|---|---|
| `ERC20Proofs` | `ERC20Contract` | types, endorsed calls stay valid, no overdraft, debits authorised |
| `ERC20Refinement` | `ERC20Contract`, `ERC20Token` | supply, refinement |
| `SafeMathProofs` | `SafeMath` | exactness, refusals |
| `SequenceProofs` | `ContractSequence` | all properties of the run, and `EnsuredLasts` of separate uses |
| `SegregatedProofs` | `SegregatedStore` | all properties of the run |
| `ClientProofs` | `ClientCalls`, `ClientEvents` | all safety properties of the run |
| `PagingProofs` | `Paging` | all safety properties of the run |
| `AdministrationProofs` | `Deployment`, `Enrollment`, `MCAdministration` | all properties of the run |

Every safety property that a passing run checks is also a theorem (section 6).
What is worth adding: an abstract specification for sequences (an allocator with
atomic calls) and one for segregated records (one record per id), with the
refinements proved as `ERC20Token`'s is; and theorems that say where the properties
of the runs that end in a violation do hold.

## 3. Modules

**`FabricLedger`** (external). The state database as the contracts rely on it.
A slot of `Txs` holds one transaction between endorsement and commit:
`Endorse` executes it against the committed state and records its read and
write sets, `CommitValid` applies the writes if nothing it read has been
written since, `CommitInvalid` is `MVCC_READ_CONFLICT`, `Abandon` a proposal that is
never submitted. Instead of versions, a commit marks the slots it invalidates
as `stale`. Two facts matter for the contracts: a transaction does not see its
own writes, and a rich query protects the rows it returned but not the rows it
did not find (phantoms). This module takes no definition from `src/`; what the
repository shows of it is which stub calls it makes and which errors it maps.

**`ERC20Contract`**. `world` maps composite keys to records: a token is its
owner, a wallet its balance, an allowance its spender and value, *under its
owner's key*, which is where `models.ts` puts the primary key. Each writing
method is one action that endorses it. Its guards are the negations of the
method's throws, in terms of the committed state; its write set is what all its
repository calls put, in their order (a transfer puts the recipient's wallet
last). `Owner` is the decorator of the same name. Token name, symbol, decimals
and the token and captive columns of wallets are left out: no method's control
depends on them. Events, too, are left out.

**`ERC20Token`**. The token as its callers see it: balances, allowances and a
supply, every call one atomic step.

**`SafeMath`**. Numbers with a significand of `Precision` bits and rounding to
nearest, ties to even: JavaScript's, with a shorter significand and no
fractions. The actions are guarded by the code's two comparisons;
the history variable `exact` is the balance in integer arithmetic. `Power` is a
recursive function rather than `2^n`, which the provers know nothing of.

**`ContractSequence`**. One sequence on the ledger. `session` is the transaction
being executed: the cache of its context, its read and write sets, and what it
was issued. Commits wait while it executes, as a peer's do. `mode` is where the
record lives: public, public and replicated, or private only. Which keys
`current` reads and `increment` and `ensureAtLeast` write follows the branches
of the code; the guard `MixedUse` says whether one transaction may use
`ensureAtLeast` along with other calls. A collection may refuse a read or a write
(`Refusals`): the code passes over the one and only logs the other, each collection
by itself, so that a transaction commits with some copies written and some not.
`missed` and `blind` record this for the transaction, `lagging` for the copies, and
`faulted` that it has happened to a private sequence; an error of the public state
is thrown (`Throw`).

**`SegregatedStore`**. The records of one table. A key of `world` is a store (the
public state, an organisation's private collection, the shared collection, the
mirror's) and an id; a record is a function from those of its attributes that have a
value. `class` is the decorated model class: its shape says where each attribute goes,
and it may be mirrored. `Create`, `Update` and `Delete` are the contract method,
repository, handlers and adapter together, executed by any organisation; `createAll`
and `updateAll` are the same actions with several ids. The organisation that a class
is mirrored to reads the mirror only (`ReadsMirror`). What `prepare` puts in a
collection depends on the collections that the handlers registered in the context of
the call, which is what the operators `CollectionsOf`, `KeysOf` and `SegregatedWrites`
say. The base `Repository` is external: an update reads the record and merges the new
values into it, and a delete reads it. Two things it decides are left open as choices:
whether the delete shares the context of its read (`DeleteCollections`), and whether
the mirror's deletion finds what it needs (`MirrorDeletes`; the handler swallows the
error). That the handlers of a bulk call run one after the other is assumed.

**`ClientCalls`**. A call of a client application from its start to its answer.
`client` holds, per client, where its call is (`hydrate`, `submit`, `ordered`,
`refresh`, `idle`) and its result or error. `Create` to `DeleteAll` are the
beginnings of the adapter's methods: what differs between them is whether the
records are read before (`ReadBefore`, deletes) or after (`ReadAfter`, creates
and updates), as `NeedsFullPayload` decides. `Submit` executes the contract
method against the committed state and hands the transaction to the orderer;
`SubmitLegacy` is the other gateway, for classes whose metadata asks for it, and
for mirrored ones if the configuration allows it, which needs a peer of the
mirror's organisation. `Execute` composes
the single operations, each with the keys it reads, what it puts, what it
answers with and how it refuses. Then the ledger decides (`Commit`, `Reject`,
`Lose`), while the client waits (`Receive`) or gives up (`Deadline`), which
leaves the transaction to its fate. `chain` is the order of the transactions in the
blocks. A record is the number of the call that wrote it, which is enough to
say whose write a caller is shown.

**`ClientEvents`**. `ClientCalls` with observers. `EventOf` (in `ClientCalls`) is
the last of what the contract's dispatch emits in one transaction, which for a
bulk call are the single operations and then all of them. `Listen` is one turn of
the loop over the channel's chaincode events, `CloseListener` its end, for
whatever reason, after which nothing reopens it. `Wrapped` is the proxy around each of
the adapter's methods; it starts a notification that nobody waits for,
`TellLocal`. Which of the two ways tells is `Listens` and `TellsLocally`.

**`Paging`**. One client's scan of a table while others write to it. `Raw` is the
adapter's method of the same name with its three cases: the public state, the private
collections, and a class with attributes in both, where the response with the most
rows is taken. The page of a private collection is computed by the adapter without
CouchDB's bookmarks: `QueryHash`, `PrivateRefuses`, `Continuations`, `RunQueries` and
`NextPrivate` are the steps of that computation; `InTurn` is its loop over queries,
which `find` has in the same form. The bookmark has the last row's sort value as it is
and its key as a text (`String(lastIdValue)`). Where the key of a class is stored as a
number (`setup.key`) the continuation compares numbers with a text, and CouchDB orders
every number before every text (`BeyondText`). `PageByAttrs` is the repository's
choice among default attributes and `NextPage` the paginator's handling of a response.
`List` stands for the calls without pages. `ViewAggregate` is a call that always
fails. `TurnAround` is a client that goes on in the other order, which the hash in the
bookmark is there to refuse. `steady` is a history variable: the rows that were there
from the start and were not written since.

**`Deployment`**. The `deploy-contract` command, one action per step of its loop
and one for each way it fails, with the tracker file and what the lifecycle of
Fabric (external) keeps: per peer the packages installed and the definitions
approved, one for each sequence number, also those that earlier deployments left.
`StepFails` is a failure of the environment, `Refuse` a refusal of the lifecycle: to
install what is installed, or to approve a definition that is neither the next nor the
committed one, or that was approved already. Both are caught in the same place, and
both lead to the commit. `inStep`, `fresh` and `clean` are history: whether the
tracker agreed with the channel at the start, whether the version was new to all
peers, and whether the environment has failed.

**`Enrollment`**. Requests to a CA (external), one action each. Each may be
refused, carried out, carried out without an answer, or never arrive. The
operations chain them as the services do; nothing is rolled back. An administrator
may revoke a user, or any one certificate by its number (`RevokeCertificate`), also
one that another administrator is renewing or has just been issued for a renewal.
`withdrawn` and `lost` are history: the certificates revoked in this way, and those
revoked in an update whose caller was not told.

`MCERC20`, `MCSequence`, `MCSegregated`, `MCClientEvents` and `MCPaging` hold the
values of constants; `MCAdministration` puts the two administrative models,
which share no state, in one specification.

## 4. Runs

| Run | Shows | Bounds |
|---|---|---|
| `erc20` | type invariant; no wallet overdrawn; an endorsed call keeps its preconditions and effect until it commits; debits are authorised, and charge the allowance in the same commit; only the owner changes the supply; with one token name, the contract implements `ERC20Token` | 2 clients, 1 name, 2 slots, amounts -1, 1, 2, exact numbers -3..2 |
| `erc20_two_tokens` | **violated**: `AtMostOneToken` | as above, 2 names |
| `erc20_second_spender` | **violated**: `AnySpenderApprovable` | as `erc20` |
| `safe_math` | balances stay exact; only inexact results are refused | 5-bit significand, numbers up to 1024, all pairs |
| `sequence` | no value issued twice; stored value is the highest issued or ensured; copies agree; a private sequence stays private | 2 slots, 2 collections, each of which may refuse any read or write, increments of 1 and 2 steps and one that is refused, values up to 7 |
| `sequence_mixed_use` | **violated**: `EnsuredLasts` | 2 slots, no collection refuses, values up to 11 |
| `segregated` | the parts of a record come and go together; private parts stay with the owner; the mirror is a copy; classes that are private as a whole leave the public state alone; creates overwrite nothing; an owner's update loses nothing | 3 organisations, one the mirror's, 1 id, 2 values, 2 slots; all classes |
| `segregated_mixed_owners` | **violated**: `PrivateValuesAtOwner` | 2 ids, 1 value, 1 slot, records of several owners in one `updateAll` |
| `segregated_stub` | **violated**: `PublicStaysEmpty` | 1 id, 1 value, 1 slot |
| `client_events` | success means committed; a refusal means nothing was written; a create or update returns its own record or a later one, whole; a delete answers with what it removed; every call returns; observers are told committed changes only, whole, in order, once; own calls are told; changes are heard | 2 clients, one observed, 2 calls, 2 slots, 2 ids, single calls on one, bulk calls on both; 5 combinations of class and configuration |
| `paging` | pages follow one another without repetition; no row that stays is lost; the scan ends | 3 rows, 2 values, pages of 1, 2 writes during the scan; 24 combinations of class and call, three of them with a numeric key |
| `administration` | the tracker is at most one off; whatever earlier deployments left, a new version that starts in step is refused nothing; a renewal costs a user no other certificate than the one it replaces; a replaced certificate is revoked | 3 peers, 3 versions, 5 deployments; 2 administrators, 1 user, 1 attribute, 3 certificates, 5 operations |

Why the bounds are enough. Two slots give every conflict between a pending call
and a commit, since a call's fate depends on one conflicting commit at a time;
two clients already play every role (holder, spender, recipient, owner and
not), a self transfer included. The range -3..2 makes credits overflow, funds
run out and negative amounts matter within a few calls. Sequences of up to three
values let a transaction be issued two and another interleave with it; two
collections that may refuse let one be written and the other not, and collections
beyond the second behave like the second. A significand of five
bits leaves spacings of 1 to 32, so that operands of every relative size meet,
ties included. Records of different ids share no key, so one id gives every
conflict between calls; that records of one bulk call affect each other is the
question of `segregated_mixed_owners`. One private and one shared collection per
record and one attribute for each place suffice because attributes of one
collection are written together. A call names one attribute or all, with one
value; two values tell a lost update from the one that replaced it.

Two clients are enough for `client_events`, since a call meets one conflicting call at
a time and a third client could only repeat what the second did; a bulk call on both
ids meets a single one on one of them. With two calls, a create that is deleted before
it is read again, and both orders of a delete and an update, occur. In `paging`, pages
of one row make every row the last of a page, three rows with two values make equal
values straddle pages, and two writes can remove the row of the bookmark and insert
one behind or before it. Five deployments allow two failures of different kinds, a
recovery and a clean deployment after it, and with three versions the organizations
may have approved different ones under one number before a third is deployed; two
administrators with five operations allow two renewals at once after a registration
and a repeated enrollment.

Fairness is assumed in two specifications and nowhere of the peers or the
orderer, so that no property relies on a transaction being committed.

* `ClientEvents`: `Deadline` (every gateway call has a deadline set by
  `getConnection`, a timer of the process, and the legacy library its own), `Listen`
  (the `for await` over events that have arrived) and `TellLocal` (a promise that was
  started). A call that returns disables its `Deadline`, so that weak fairness does
  not force a timeout. The other steps of a call need none.
* `Paging`: `List`, `ViewAggregate` and `Continue`, that is, the client asks for the
  next page as long as there is one. Writers may stop or go on.

The other specifications are of safety only: a transaction need not be submitted, a
command need not be run. The slots of the ledger are interchangeable, and so are
organisations that play no special role, hence the symmetry sets of the ERC20,
sequence and segregated runs; the runs with liveness have none. Deadlock is not
checked where the system really may stop: in `client_events`, `paging` and
`administration` a behaviour ends when the calls, the scan or the operations are done,
and in `SegregatedStore` a class of shape "property" is left with a public record that
no one can read, update or delete and that makes every create fail (see below), so
that with one id no other call is possible.

Each property has a mutant, an operator named `Mutant of ...` in the module's
comments, that changes one definition the way a bug in the code would and
makes TLC report that property.

## 5. What the runs found

* `Initialize` checks with a rich query that there is no token, then creates
  one under its own name. Two calls with different names, endorsed before
  either commits, both succeed. From then on every `@Owner` method fails with
  "To many token available", for good. (`erc20contract.ts:468`)
* `Approve` searches the allowance by owner and spender but the record's key is
  the owner: a holder who approved one spender can never approve another, the
  create is refused with `ConflictError`. (`erc20contract.ts:392`,
  `models.ts:130`)
* `ensureAtLeast` ignores the value its transaction has cached, and increments
  ignore what it wrote: used together in one transaction, the sequence can end
  below the value that was ensured, or below one that was issued and will be
  issued again. In a private-only sequence it always overwrites, because it looks for
  the public record only. (`FabricContractSequence.ts:358`)

* `updateAll` registers the collections of all its records in one context, and
  `prepare` writes each record to all of them: with records of two owners, each
  owner's collection receives the other's private values. Collections named by
  owner have that owner's endorsement policy, so the transaction needs
  endorsements of both. (`ContractAdapter.ts:2207`, `decorators.ts:938`)
* `update` writes the public part of a record even if its class is fully
  segregated: a class with private attributes only, but a public primary key,
  gets a public record that `delete` leaves behind and that makes every later
  `create` of the id fail with `ConflictError`. (`ContractAdapter.ts:1134`)

Observations without a run of their own: in a fully segregated class a second
`create` of an id silently overwrites the first, because only the public state
is searched; an update by an organisation other than the owner loses the
private values it cannot see; a mirror may outlive its record; `Burn` and `BurnFrom` accept
negative amounts, which add tokens (the model has them, and
`SupplyMovesWithOwner` confines them to the owner); `BurnFrom` does not consult
any allowance although its comment mentions one.

On the client's side the models state the following as it is; the properties are
worded around it:

* With the listener on, a change of a class with public and private attributes is told
  twice, by the listener and by the wrapper: the comments at
  `FabricClientDispatch.ts:306` ("fully-segregated (transient) models") and `:365`
  ("to avoid double-notification") mean the wrapper to skip it, but the test there is
  whether the class has any private attribute. `ToldOnce` is claimed of the other
  classes.
* With synthetic events (the default) observers are told of this application's
  successful calls only. A call that ran into its deadline and was committed all the
  same is told to nobody.
* The contract emits nothing unless its repository is observed, and
  `crud-contract.ts:125` has the registration commented out.
* A page of a key range is read from the first key on; only the row of the bookmark is
  left out. Rows repeat, and the scan of more rows than a page and one never ends. In
  descending order, only the first rows in ascending order are sorted
  (`ContractAdapter.ts:2014`).
* The second page of a class with attributes in both places is always refused, because
  state and collection are asked with the same bookmark (`ContractAdapter.ts:1803`);
  that is a refusal, so `ScanEnds` holds.
* `page` returns the rows of the first default attribute with a match, `find` those of
  all.
* The bookmark of a page of a private collection has the last key as a text
  (`ContractAdapter.ts:1455`), as has the query that goes on after it. If the key is a
  number, like those of `Address.ts:24` and `Product.ts:12`, no number is after a text
  and every number is before one. Sorted by another field, ascending pages lose the
  rows that have the same sort value as the last row of a page and a greater key;
  descending ones return rows of that value again. They do not do so for ever: a page
  that gives the bookmark it was asked with is taken for the last
  (`FabricContractPaginator.ts:223`), so that the scan ends, with the rows behind it
  lost. `PagesAdvance` and `ScanComplete` say how far this goes (`KeyMisread`,
  `Onward`, `MissedByKey`). Pages sorted by the key itself are not affected.
* A collection that refuses a write of a sequence keeps its older value and the
  transaction goes on (`FabricContractSequence.ts:421`); the next write that reaches
  it makes up for it. One that refuses a read is passed over (`:121`). With a public
  record neither does harm to the values issued. A private sequence has nothing else:
  read from a collection that missed a write, or from none, it issues values again,
  `startWith` included. `IssuedOnce` and `StoredIsHighest` are claimed of a private
  sequence until that happens (`Sound`).
* `listBy` returns an empty list when the answer is too large
  (`FabricClientRepository.ts:126`).
* A statement sent as a query without a limit gets `CouchDBQueryLimit` and reads the
  public state alone. The client's aggregates by view call a transaction that the
  contract adapter refuses (`ContractAdapter.ts:2106`).
* Deletes of mirrored classes go through the normal gateway, without the mirror's
  endorsement; only creates and updates set the flag.
* That a migration has run is recorded nowhere: repeated after a timeout, it runs
  again (`MigrationContract.ts:57`).
* A renewal revokes the old certificate before it hands out the new one, and the
  caller gets only an error if the answer to that request is lost
  (`FabricIdentityService.ts:459`): both are gone, and a user who had no other is
  locked out until he is enrolled again. `NeverLockedOut` says that this is the only
  way in which a failing request takes a certificate from a user.
* A renewal asks for the attributes that were read before they were changed
  (`FabricIdentityService.ts:420`): the new certificate has the old attributes' names,
  and one that the request removes makes it fail after the change.
* Whether a deployment that failed half-way can be repeated depends on Fabric's
  commands: the package is there and some organizations have approved the definition,
  and if either is refused as a duplicate the loop ends at that peer and the commit is
  tried with what was approved before. A new version is refused nothing
  (`CleanDeploymentCommits`).
* If the tracker file is ahead of the channel, every later deployment is refused,
  until the definition it stands for, which all organizations have approved
  (`DriftIsOne`), is committed by hand; if it is behind, they are refused until the
  committed version is deployed again, whose approvals move the file on and whose
  commit is refused. `await-infra` ignores its option `--container`
  (`cli-module.ts:777`), and `ensureContractReadiness` passes `counter++` on
  (`cli-utils.ts:178`), so that it never gives up.

## 6. Proofs

The theorems hold for every value of the constants that satisfies the named
assumption of the module (section 7): any number of clients, organisations,
records, values, slots, rows, peers, administrators. None uses the bounds of
the runs. Most have the same form: an inductive invariant, one lemma that the
initial states satisfy it, one lemma per action, and the property as a
consequence. The invariants were found with TLC's help and then proved; what
follows is why each is as it is.

**`ERC20Proofs`** (`TypeCorrect`, `CallsStayValid`, `NeverOverdrawn`,
`DebitsAreAuthorised`). The balances' safety does not follow from the balances:
what a commit writes was computed from a state that may be long gone. The
inductive invariant is `TypeOK /\ EndorsedStillValid`: whatever is endorsed and
not stale would, executed now, pass the same checks and write the same records.
An endorsement establishes it for its own slot (`EndorseValid`). A commit
preserves it for another slot because that slot, not being stale, has read none
of the written keys, and because each method's effect depends only on records in
its read set (`EffectPersists`) -- which is where a method that used a record it
had not read would break the proof. `CommitCases` then lists what a commit can do
to one balance, in terms of the balances of the moment, and the theorems on
balances follow by arithmetic. `EndorsedStillValid` leaves out what rich queries
did not find, which is not protected: `Initialize` and the count of tokens in
`@Owner`.

**`ERC20Refinement`** (`OwnerMovesSupply`, `ContractIsToken`). The supply is a
sum over the clients, a fold. The provers cannot use the library's induction
over finite sets, whose claim is an operator; the lemmas use that a non-empty
set of finite sets has a minimal member instead, and look at a minimal set for
which the claim is false. From this come that the fold exists, that its order does
not matter, and what changing one or two wallets does to it. With those, every
commit that `CommitCases` describes is one step of `ERC20Token` and everything
else a stutter.

**`SafeMathProofs`** (`BalancesAreExact`, `RefusalsAreJust`). The invariant is the
property; the work is in one fact about rounding to nearest: of two numbers
`a` and `b` with `|b| <= |a|`, the difference of the rounded sum and `a` is itself
a number (`RestIsNumber`). Hence the code's comparison `b !== c - a`, though
computed in rounding arithmetic, is computed exactly and detects every rounding
of the sum; for `|a| <= |b|` it is the other comparison, so both are needed (the
mutant `AddThrowsOneSided` drops one). The fact is proved by cases of the spacing of
the sum: finer than that of `b` (the sum is exact), between those of `b` and `a`,
and twice that of `a`. Powers of two are a recursive function; that it exists,
doubles, splits over sums and divides its later values is proved from least
counterexamples.

**`SequenceProofs`**. `SequenceInv` holds however transactions use a sequence:
what is written goes with one aligned value to the targets that accept it and
nowhere else, and only collections that refused a write lag or are missed
(`SessionIsTyped`, `LedgerIsTyped`, `WorldIsTyped`). It gives `SequenceTypes` and
`PrivateStaysSo`. `AloneInv` needs `~MixedUse`: a transaction that issued or ensured
a value has read a key that every writer of the sequence writes, so that the commit
of one makes the others stale; what it writes is the last value it issued, or the one
it ensured, above the highest so far; and every copy that is not lagging is the
highest, the others are below (`WorldIsHighest`, `SessionRuns`, `ProposalRuns`). For a
private sequence that key is any collection that could be read, as long as the writes
have reached all, which is why `faulted` and `blind` are in the invariant. It gives
`ReplicasAlwaysAgree`, `ValuesIssuedOnce`, `RecordIsHighest` and `EnsuredLastsAlone`.
That copies agree needs `~MixedUse` too: with `ensureAtLeast` after an increment in
one transaction a lower value could overwrite a higher one, which a copy that
refused the second write still has.

**`SegregatedProofs`**. `StoreInv`: a store holds only attributes that are
registered for it, and a call in flight is *current* -- endorsed again in the
present state it would read and write the same. It gives `SegregatedTypes`,
`WholeIsPrivate` and `UpdateLosesNothing`, also with records of several owners.
`PartsInv`, with `~MixedOwners`, relates the stores: no public part, no part in any
collection; otherwise the private one is at the owner that the public part names and
nowhere else, and the mirror has all of it. It gives `RecordsAreWhole`,
`PrivateIsAtOwner`, `MirrorIsFullCopy` and `CreatesAreNew`.

**`ClientProofs`**. `CallsInv` says of every client, slot, entry of the chain and
record where the call behind it stands: a client that reads again or succeeded has a
valid entry in the chain, one that was refused has none, a slot writes what its call
puts and answers with what it reads, a record is that of the last valid entry about it
(`RecordStands`), and every call was sent once (`OnceSent`), which is what makes "the
entry of this call" one thing. It gives the theorems on answers
(`SuccessMeansCommitted`, `OwnWriteIsShown`, `RefusalsAreHonest`,
`DeletesAnswerTruly`). `EventsInv` adds, for every observer, that what was heard are
events of the chain up to the listener's position, in its order, and that what the
wrapper told or is going to tell are committed calls of classes it is to tell of, each
once; it gives `ToldAreCommitted`, `HeardNamesAll` and `NobodyToldTwice`.

**`PagingProofs`** (`PagingTypes`, `PagesNeverGoBack`, `ScansAreComplete`). The
invariant `PagingInv` connects the pages through the bookmark alone, as the code
does: it is after the last row that was returned and bound to the query that is made
again (`Linked`), and a row nobody wrote was returned or comes after it (`Kept`). Where
a numeric key is misread, `Follows` says what comes after it, and `Settled` what is
known of a row that does not: it is behind a row with an equal value, or a row has come
twice.
That a page is the beginning of what is left after the bookmark is the work of the
lemmas: `InOrder`, defined by counting the rows before a row, lists each row once
(`InOrderLists`); the queries without `$or` list what one query for the rest would
(`TwoQueries`); the page of a collection, of the state, of both and of several
default attributes are all pages of the rest (`PrivatePages`, `PublicPages`,
`RawPages`, `PagesByAttrs`). `find` and the queries are folds over sequences; the
fold exists, and returns the queries' rows in turn, by least counterexamples
again (`TurnsExist`, `InTurnTurnsOut`). A page in the other order is refused
because of the hash in the bookmark (`OrderIsKept`).

**`AdministrationProofs`**. `DeployInv`: while a command runs the file is one behind
its number, until it is written with a number the lifecycle approves
(`FileFollows`); the peers it is done with have approved what it will commit, all of
them by the time the file is written (`BehindApproved`), which an approval under another
number leaves alone. The peers ahead of a command that started in step, with a
version new to them, have neither the package nor an approval of it (`AheadIsNew`),
whatever else is there, so that the lifecycle has nothing to refuse
(`CleanSoFar`), and its commit has the majority. It gives `DeploymentTypes`,
`TrackerDrift` and `CleanCommits`. `EnrollInv`: an update revokes only after its new
certificate was issued, and that one is in no wallet, no other update replaces it,
and it is not revoked unless an administrator did so by its number
(`FreshIsUnknown`); what wallets hold is valid unless it was withdrawn or its
replacement was lost (`WalletIsValid`), whichever of several renewals comes last. It gives
`EnrollmentTypes`, `NobodyLockedOut` and `ReplacedAreRevoked`. `EitherTool`
lifts both to the composition, whose types are `AdministrationTypes`.

Model-checked only: the liveness properties `CallsReturn`, `OwnCallsAreTold`,
`ChangesAreHeard` and `ScanEnds`, which need fairness and ENABLED.

## 7. Assumptions and what is not modelled

Assumptions on constants. They are `ASSUME`s of the modules, which TLC evaluates
in every run: numbers are numbers (`ERC20Assumption`, `SafeMathAssumption`,
`SequenceAssumption`), markers such as `Absent`, `NoCall` and `NoBookmark` differ
from the values they stand beside, `Public`, `Shared` and `Mirror` are no organisation
(`StoreAssumption`), a command names each of its peers once
(`DeploymentAssumption`), a sequence has a collection and a step, a page has a row,
a class a default attribute, and aggregates and key ranges without pages are
read in ascending order (`PagingAssumption`), ids are finitely many where a loop or a
bulk call goes over them. Ten theorems have a hypothesis besides: finitely many clients
(a sum over them must exist), one token name (`erc20_two_tokens` refutes
`AtMostOneToken` without it), `~MixedUse` and `~MixedOwners`, that is, no
transaction of the kind that `sequence_mixed_use` and `segregated_mixed_owners`
show to break the promise. The code enforces neither; what holds without them is
proved without them.

Assumptions of the client's side. An evaluation or endorsement is atomic on one
committed state, and the peers that endorse agree. Calls of one contract method that
are not awaited finish in the order they were started and before the transaction's
response, so that the last `setEvent` is the bulk one. A query of CouchDB returns rows
in the order of the sort fields and then of the key, and its bookmark continues after
the last row. CouchDB orders every number before every text. The lifecycle approves a
definition with the next sequence number, unless the organization has approved the
same content under it, or the committed one again; an approval replaces an earlier one
under the same number, and a commit needs a majority of one content. Whether a peer
refuses a package that it has is left open (`Install`, `Refuse`). The CA carries out
requests one at a time.

In `SegregatedStore`: `allowMirroring` is at its default, true, and mirrors
have no `condition` or `allow` predicate; `allowGenerationOverride` is off, so
that owners are set by `ownedBy` only; sequences and versions of records are in
`ContractSequence`; `RecordIsWhole`, `PrivateAtOwner` and `MirrorIsCopy` are
about classes with a public part, as the others name no owner.

In `ClientCalls` and `ClientEvents`: the cache of connections and the sharing
of gateways, the choice of endorsing peers beyond "there is one or not", the
filter of events by MSP, events of other contracts, what a migration writes. The
calls of `FabricERC20ClientRepository` are those of `ERC20Contract`.

In `Paging`: the text of conditions and bookmarks, which are values here but for the
key in a bookmark, which is compared as the text it is; the
bookmark of a class that is found under several models; `avg` of a client, which
evaluates two transactions, as the view it calls is refused.

In `Deployment`: the variant `deployContract` of `cli-utils.ts`, which no command
uses.

Not modelled: cryptography, HSM and file helpers, the generation of index and
collection files and the remaining commands (input and output without shared
state); serializers and the translation of queries to Mango (data layout); the
sample contracts (examples and test fixtures); BigInt, string and serial
sequences (same control, other arithmetic).
