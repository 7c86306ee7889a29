# Specifications of the Ethereum developer program

The repository is a course: a DAO with its contracts, its tests and a
deployment script, and around it a number of small programs that deploy
contracts, call them, listen to them and display what they hold. This directory
holds TLA+ specifications of the parts that have behaviour worth checking, the
TLC configurations that check them on small instances, and TLAPS proofs of what
holds for every instance.

## 1. Inventory

### The DAO (`dao/lib/contracts`), the core of the repository

| part | state | operations | uses |
|---|---|---|---|
| `GovToken.sol`, an ERC20 with votes | balances, supply, delegates, a history of voting power and supply per block, owner | transfer, mint, delegate, change of owner | the block number |
| `MyGovernor.sol`, OpenZeppelin's governor with a timelock | per proposal: proposer, snapshot, tally, who has voted, canceled, executed, the time it is due | propose, cancel, castVote, queue, execute, state | GovToken's history, TimeLock |
| `TimeLock.sol`, a `TimelockController` | per operation: unset, due at a time, or done; the roles; the minimum delay | schedule, cancel, execute, grant, revoke, renounce, updateDelay | the block's timestamp; calls Cert and itself |
| `Cert.sol`, the certificates | a record per number, owner | issue, change of owner | |

They meet at three places. A ballot weighs what its voter could vote with at
the proposal's snapshot, so the token's past and the governor's tally must
agree whatever has happened to the tokens since. A proposal that won becomes an
operation of the timelock, which others with a role there can schedule, cancel
and execute too; both remember it, and `state` puts the two memories together.
And the timelock calls the certificates, whose owner it is until a proposal
says otherwise, and itself: it is its own administrator, so a proposal can grant
and revoke roles on it and change its delay.

What is hard: every function can be called by anybody at any time in any order;
blocks and seconds pass in between; the deployer keeps powers over the timelock
until it gives them up. What makes it correct: voting power is delegated
balance, at present and in the past; no token votes twice; an outcome is final
once the vote is over; only what won is executed, not before it is due, and
once; and after the deployer has handed over, certificates are written by
decided votes only, and only such a vote gives anybody else a role again.

### Deployment of the DAO (`dao/cmd/contracts/deployer.go`)

A straight-line script: four deployments, a delegation, two grants, and for each
a nonce fetched, a transaction sent, a receipt awaited. Its state is its four
addresses and where it is; what it shares is the account's nonce, the node's
pool and the chain. Hard: errors between any two steps leave the wiring half
done; runs that were killed leave transactions pending; other programs may sign
with the same key. Correct: it only works with contracts of its own run, it
never grants a role to an address without code, a run that reaches its end
leaves one wiring, and it does not wait for something that cannot happen.

### The Go bindings (`dao/lib/bindings`, `snippets/go/Storage.go`)

Generated from the contracts' interfaces, and the larger part of the Go code: for
every method a `PackX`, which writes its selector and arguments, and where it
returns something an `UnpackX`; for every event an `UnpackXEvent`; and per
contract an `UnpackError` that compares the first four bytes of what a call was
reverted with. They keep no state; the state is what has gone out and come back.
Hard: a binding is used for whatever contract is at the address, and a call runs
other contracts whose errors come through. Correct: a value, an error or an
event is read as what it was written as, or not at all.

### The certificate application (`dapp-server-side`, `dapp-client-side`)

An HTTP server (`/issue`, `/fetch`, `/events`), a program that listens for events
over a websocket, and a page with a form and a query, over the Cert contract of
`testing`. Only its admin may issue, so the server and the page's wallet send
from one account. State: the account's nonces in the node's pool, the chain, the
form, each request's place between its awaits, and what the listener has shown.
Hard: every await lets other requests, keystrokes and blocks in between; nonces
collide and transactions are replaced; receipts come late, never, or for
another transaction; the wallet may never be answered. Correct: what is issued was
asked for, once; answers, reads and the listener agree with the chain; every POST
request, and every submission that the wallet has sent, is answered.

### The rest

| part | state and operations | hard | what correct means |
|---|---|---|---|
| `snippets/contracts/Bank.sol` | balances, register of accounts, the bank's ether; deposit, withdraw, transfer, deleteMyAccount, dissolveBank | a transfer both credits and pays; registration twice; a loop that must succeed as a whole | the ether never exceeds what is owed; everybody who deposited is settled by a dissolution, once |
| `snippets/contracts/Token.sol`, `ItemShop.sol` | owner and item per token, where a token's number is the block's timestamp; add, buy | two items added in one block | a token changes hands by payment only, outside the block it is named for |
| `snippets/{go,ethers,viem,python,rust}` | clients that deploy `Storage.sol`, store a message and read it back, with one account | which waits they make; all of them at once | the message a client prints is its own |
| `oracle-examples` | a price on chain; a feeder that polls, a feeder that answers requests | handlers overlapping; one error ending a loop | the price on chain is as fresh as promised; requests are answered |
| `graphql-client` | address, balance, error, loading | answers out of order | what is displayed belongs to the last question |
| `json-rpc/eth-diagnostics.sh` | nine checks, each with up to three attempts, in sequence or in parallel | retries; errexit inside jobs and waits | every check reports; the summary is reached |
| `env-scanner.sh` | two counters over seven tools | errexit and arithmetic | every tool is scanned |
| `dao/cmd/solc`, `dao/react-ui`, `walletConnect-example`, `PoS`, `assets` | none that outlives a call, or none of their own | | |

`PROJECT.json` lists every component with its status, and under `hazards` the
places in the code where a test would hardly look, with the properties that
cover them or the reason why none does yet.

## 2. Plan

In this order, the most important first. Steps 1 to 13 are done.

1. `GovToken` on `Chain`, and its invariants.
2. `TimeLock`, `Cert`, and `MyGovernor` that composes all four.
3. `CertGovernance`, the abstract specification of the DAO, and the refinement.
4. `Deployer`.
5. `MyGovernorProofs`: types, finality, winners, due times, once only, handover,
   refinement.
6. `Bank`: the five functions, the loop of `dissolveBank` against a closed form;
   `BankProofs`.
7. `ItemShop` over `Token`; `ItemShopProofs`.
8. `Diagnostics` and `Scanner`: the two shell scripts.
9. `StorageClients`: the five clients as processes on one account, with blocks
   mined at once or later; `StorageClientsProofs`.
10. `Bindings` over a table for each of the five contracts; `BindingsProofs`.
11. `CertDApp`: server, listener and page over one account and one chain;
    `CertDAppProofs`.
12. `FiniteSums`, the lemmas about sums over accounts, and with them what the token,
    the governor and the bank promise of totals.
13. The remaining safety properties: `ScriptProofs` for the deployment script and the
    diagnostics, the readers in `CertDAppProofs`.
14. Left: `Oracle`, the contracts and the two feeders with the price service
    failing (what reaches the chain and in which order; that requests are
    answered), and `BalanceView`, the GraphQL client (what is displayed belongs
    to the last question).
15. Left: allowances and signed approvals in `GovToken`.

## 3. The modules

### `Chain`
The block number `clock` and the timestamp `now`. A transaction executes at once
and in full or reverts, so an external function is one action, its guard is what
the code requires, and a revert is an action that is not enabled. The first
timestamp is 2 because the timelock marks operations with the timestamps 0 and 1
and every real block is later than both.

### `GovToken`
`balance`, `supply`, `delegatee`, `votes` (the newest checkpoint), `tokenOwner`,
and `past`, which gives for every block before the current one what
`getPastVotes` and `getPastTotalSupply` answer. `Update` is `_update`: it moves a
balance and then the power of the two delegates. `Transfer`, `Mint` and
`Delegate` are the public functions; `Seal` is what the end of a block does to
the checkpoints. `Covers` is the checked subtraction of the checkpoints: where
it does not hold, the call reverts.

### `TimeLock`
`timestamps` with the contract's own encoding (0 unset, 1 done, otherwise the
time the operation is ready at), `roles` and `minDelay`. `MarkExecuted` is the
timelock's part of executing; the calls it makes belong to the composition.
`GrantRole` and `RevokeRole` require an administrator, which the timelock itself is and
the deployer at first, `UpdateDelay` the timelock: `RoleStep` lets accounts call what
they may, and an executed operation any of the three.

### `Cert`
`certificates` and `certOwner`. A record is one value: nothing depends on its
four strings.

### `MyGovernor`
Composes the three with the governor's proposals. A proposal's number is the
hash of its calls and description, the operation it becomes is the hash of the
same calls with a salt made of that description, and anybody can compute
either: so the model names both with the same value, and `ByHand` lets the
accounts in `Operators` schedule, cancel and execute the operations that
proposals are about. `VoteState` asks its questions in the order of
`Governor.state`; `State` adds what the timelock says, as
`GovernorTimelockControl.state` does. An action is the whole function with the
functions it calls in the other contracts: `Queue` schedules, `Execute` executes
the operation and its calls. `Batch` says what an operation's calls are: at most one
of the certificates (`CallCert`), to issue one or to change their owner, and at most
one of the timelock to itself (`CallSelf`), to grant or revoke a role or to change
the delay. `MakeCalls` makes both or, when one of them reverts, none.

### `CertGovernance`
The abstract specification: stages of proposals, the certificates, and whether
the DAO is sovereign, that is, whether nobody beside the governor has a role on
the timelock and the timelock owns the certificates. It has three kinds of
steps: `Deliberate` moves proposals on and leaves the certificates alone,
`CarryOut` writes what an accepted proposal says, and `Intervene`, possible only
while the DAO is not sovereign, is anything others may do. `MyGovernor`
implements it with `stage[p]` read from `State(p)`.

### `Deployer`
The script as a process (`run`, `pc`, `stage`, `nonce`, `waitsFor`, `addr`), the
node and the miners (`pool`, `mined`), and other programs that sign with the same
key. A contract's address follows from the nonce of the transaction that creates
it, so addresses are nonces. `Script` is `main` as data; the actions are the
pieces of `newOpts`, `deployContract` and `transact` between which something
else can happen. The fourth deployment carries the code of Cert, as line 180 of
the script has it.

### `Bank`
The contract's variables under their own names, `ether` for the balance of the
contract, and two history variables, `transferred` and `credited`, that remember
what transfers have done. `Pays` is a payment with `transfer`: it reverts when
the receiver refuses it (`Refusing`) or the ether does not suffice. `Settled` is
the loop of `dissolveBank` as it is written, over a register in which an account
may be entered several times; `Settlement` is what it amounts to, and the action
uses that. `LoopPaysEachOnce` says that the two agree in every state.

### `ItemShop`
`owner` from `Token.sol`, `price` and the shop's ether from `ItemShop.sol`, and
as history who added an item and what was paid for it since. A token's number is
the timestamp `now` of the block it is minted in; several items may be added in
a block and timestamps may be skipped.

### `Diagnostics`
The script (`mode`, `script`, `next`) and its checks (`phase`, `attempt`,
`answer`, `line`, `code`, and `logged`, how many lines its requests have logged on
stderr). `Attempt` is one turn of the loop in `req_handler`, with what it logs;
the pause between two attempts is part of it. `Report` is what a `get_` function
makes of the answer; the functions differ in what they do when there is none:
`Forgiving` ones return 0 all the same, `Probing` ones look at the exit code
after the assignment, which in a background job is too late (`ExitsAtOnce`).
`Ends` is the end of the script with its `cleanup`. A job that is killed leaves
its request behind in a process of its own, so `Attempt`, and its log, go on where
`Report` does not. Options, the check of the dependencies and formats are left out.

### `Scanner`
The loop of `env-scanner.sh` with its two counters, and the exit status of
`((counter++))` under `set -e`.

### `StorageClients`
The five programs of `snippets` as processes on one account of one node. Each
program is a `Route`, the calls it goes through: Go and Rust ask for a nonce before
each transaction (`Number`) and send with it later, when the node may refuse it
(`Refused`); Go, Python and Rust wait for both receipts, viem asks for one once,
ethers for none. The node keeps `txs`, what it has accepted from the account in the
order of the nonces, `mined`, how many of them are on chain, and `stored`, the
message at each address with code; an address is the nonce of the deployment. With
`automine` a transaction is mined as it is accepted, as Hardhat's node does, which
the READMEs start; without, `Mine` does it later. A message is the client that
stores it. `Fail` is any error of any call. That ethers may call `store` before the
contract exists, with too little gas, is a choice of `gas`. Messages that others
store in these contracts, which are open to all, are left out.

### `Abi`, the tables and `Bindings`
`Abi` says what a method, an event and an error are to a binding, and how data is
read: data is the sequence of the types in it, and reading it as other types
fails. `CertBinding`, `GovTokenBinding`, `TimeLockBinding`, `MyGovernorBinding`
and `StorageBinding` are the tables: one definition for each method, event and
error, with its types and its selector as the generated code has them, in the
code's order. `BoundContracts` puts the five together, and says what the
constructors make of the arguments they are deployed with: Cert's reads its own
address from the governor's two, which is how the deployment script gets a second
Cert. `Bindings` is a program that packs a call for any address through any
binding, a contract that returns or reverts, without data or with an error of its
own, of one it calls, or of the language, and the program unpacking what came. When
a call reverts and with which of the errors is left open, so what is shown
holds for any of them. A revert without data makes `UnpackError` panic; the code
promises nothing about when that happens, so no property speaks of it. At an address
without code `bind.Call` fails, and `bind.Transact` too unless it is given a gas
limit, as the deployment script does: then nothing tells the program that nobody was
there (`SentToNobody`).

### `CertDApp`
`txs`, the account's transactions by nonce as the node holds them, and `mined`, how
many are in blocks, so that the contract's records (`Stored`) and events (`Logged`)
follow from them. A POST request or a submission is a `job`: called, prepared with
a nonce and a fee (`Prepare`), sent (`Write`) or refused, waiting for the receipt,
answered. `Accepts` is the node's rule: the next nonce, or a better fee for one
that waits. `AwaitReceipt` returns whatever took the nonce, as viem does, and
`TimeOut` is its limit of three minutes. `form` is the page's form; the closure of
`handleSubmit` has the values of the moment it was called, `Resume` resets the form
when the receipt is there. `reader` is a request to `/fetch` or `/events` or the
page's query; `/events` looks for nothing when it is asked without a course, although
certificates without one can be issued (`EventsFor`). `listener` holds the events that are on their way to it and those it
has shown; the websocket pushes them one at a time, so `logs[0]` is all of them.

The `MC` modules give the values for TLC.

## 4. The runs

| run | bounds | what it shows |
|---|---|---|
| `dao_votes` | two holders of 100 units, amounts of 96, one mint, one proposal, three blocks | power is delegated balance, and the past is consistent and never rewritten; no token votes twice; only winners are executed; outcomes are final |
| `dao_timelock` | one account with every role, a proposal to issue and to do away with the delay and one to give the certificates and a role away, two delays, four blocks | due times, once only, that only a vote undoes a handover, the refinement of `CertGovernance`, and that winners are carried out |
| `deployer` | three runs, one foreign transaction, nonces for all of them | addresses, wiring and grants; the script ends |
| `deployer_governor` | one run | a counterexample, section 6 |
| `bank` | three accounts, one refusing payments, six units, a register of four | ether against ledger, the register, the loop |
| `item_shop` | two accounts, an ether of two wei, three timestamps | nobody has an item it neither added nor paid for |
| `storage_clients` | Go, ethers and viem at once, any of their calls failing, both kinds of node | each works with its own contract and prints its own message; all end |
| `bindings` | all methods, events and errors of the five bindings; three deployments | what a program reads is what the contract said |
| `dapp` | a POST request, a submission, a reader, two numbers, two courses of which one is empty, two fees | what is issued, answered, read and shown agrees with the chain; requests are answered |
| `diagnostics` | four checks, one of each kind, two attempts, both modes | what is reported, when, and what is asked again; the script ends, in sequence with a summary |
| `diagnostics_listening` | three checks, one attempt | a counterexample, section 6 |
| `scanner` | the seven tools | a counterexample, section 6 |

Why the bounds are enough to meet the cases: in `dao_votes` the amount 96 leaves
4 of 100 units behind, which is exactly the quorum, and the one possible mint
raises the quorum to 7, so every outcome lies one step from flipping; a holder
can vote, hand its tokens on and have the receiver try to vote. Delays of one
block and periods of one block make pending, active and decided distinct
moments; longer ones only repeat them. In `dao_timelock` the two delays are one
too short and one just long enough; the second proposal takes the certificates
away from the first, before it or after it, and gives the deployer a role back, after
it had given all of them up or before. A proposal made in block 1 (`LastProposal`) is
decided and queued in block 3; the deployer uses the timelock up to block 4
(`MaxClock`), so it cancels the queued operation and schedules it again with a later
time than the announced one, or, when the delay is done away with, an earlier one. In `deployer` a full run takes seven nonces,
so 22 are enough for three full runs and a foreign transaction, and no run stops at
the bound.
In `bank` the amounts 1 and 3 against a minimum balance of 1 reach it exactly and
pass it by one, and a register of four has room for every account and for one to
be entered twice. In `item_shop` payments are less than an ether, one, and between
one and two. In `storage_clients` Go stands
for Rust, whose route is the same, and for Python, which takes the same steps except
that its nonce is never refused; ethers and viem are the two that do not wait, and
each of the three sends while the others do.
`bindings` has no bound of its own: its tables are the generated code's, and the
three deployments are the script's, the tests' and that of a script that ended
early. In `dapp` two requests are enough to collide: one loses its nonce, replaces
the other or is replaced; two numbers, one of which the form starts with, and two
certificates let one issue overwrite another, and no more than two transactions
are ever in the chain. `diagnostics` has one check for each way of treating a failure; the
nine of the script repeat these four, and a second attempt is where a third would
be no different.
`LastProposal` bounds the block in which a proposal is made and `MaxClock` the one in
which an operation is scheduled by hand; afterwards blocks are still mined while an
operation waits for its time.

`CHECK_DEADLOCK FALSE` is used where the system may stop: a script when it has
ended. The contracts never stop: somebody can always call them.

**Fairness.** `dao_timelock` assumes that blocks are mined and that somebody
calls `queue` and `execute` again and again while they can succeed. Both
functions are open to everybody, and the lifecycle test of
`dao/lib/tests/MyGovernor_test.go` (lines 241 to 277) is such a caller. Nothing
is assumed of voters, proposers or the deployer. `deployer` assumes that the
script runs on and that miners take what is in the pool; nothing is assumed of
the node's errors, of whoever starts the script again or of other programs.
`storage_clients` assumes that the node mines and the programs run on.
`dapp` assumes that the server's calls of the node end one way or the other and that
waiting for a receipt does too (viem's limit), for the server and for the page; it does
not assume that the user ever answers the wallet, where `writeContract` waits without
a limit, that blocks are mined, that a read is answered or that a connection lasts. `diagnostics` assumes that each attempt ends, which curl's time limit sees
to, and that the shell goes on; an interruption may come but need not.

**Mutants.** Each property comes with a mutated definition under which TLC
finds it violated: a dropped guard, power left behind at a transfer, a quorum of
the moment, a batch that is not scheduled, a nonce left out. They stand before
the definitions they replace, marked as mutants, and no specification uses them.

## 5. The proofs

Every invariant and every action property that a passing run checks is proved for
every value of the constants, in eight modules. `FiniteSums` holds the lemmas that
three of the others share.

### `MyGovernorProofs`

For any finite set of accounts and any supplies, amounts, proposals, delays and
voting periods:

| theorem | states |
|---|---|
| `TypeCorrect` | `[]TypeOK`: in particular no balance, tally or voting power falls below zero |
| `OutcomesAreFinal` | no step changes the outcome of a vote that is over |
| `ExecutedHadWon` | `[]OnlyWinnersExecuted` |
| `EtasAreRespected` | `EtaRespected`: no execution before the announced time as long as the delay is the deployed one |
| `OperationsRunOnce` | done stays done |
| `OnlyVotesUndoHandovers` | a step that undoes a handover executes a proposal that won and that grants a role |
| `PromiseKept` | `MyGovernor` implements `CertGovernance` |
| `ThePastIsImmutable` | no step changes what the token answers about a block that is over |
| `PowerFollowsTokens` | `[]PowerIsDelegatedBalance` |
| `SnapshotsWithinSupply` | `[]PastPowerWithinSupply` |
| `TokensVoteOnce` | `[]NoTokenVotesTwice` |

The assumptions are the named ones of the modules (`ChainConstants`,
`TokenConstants`, `TimeLockConstants`, `CertConstants`, `GovernorConstants`):
distinct addresses, types of the parameters, blocks that take time, a voting
period that is not zero. TLC evaluates them in every run.

How the argument goes. `TypeOK` is inductive by itself. The lemma `DecidedFrame`
says what a step can do to a vote that is over: nothing to its snapshot, its
tally, or the past its quorum is computed from. A ballot needs a state Active,
which ends at the deadline; the past only grows; a proposal is proposed once.
Finality and `OnlyWinnersExecuted` follow from it.

`EtaRespected` is not inductive: that a proposal is executed no earlier than
announced depends on what the timelock holds, and a cancelled operation may have
been scheduled again. `EtaInv` adds that an operation pending for a queued
proposal is never due before the announced time: whoever schedules it again
does so later and with at least the minimum delay. That is so only while the delay is
the one the timelock was deployed with (`DelayAsDeployed`): `execute` asks the
timelock and not the announced time, and when a vote has lowered the delay, an
operation that is cancelled and scheduled again may be ready first. TLC reaches that,
so the condition is needed.

`OnlyVotesUndoHandovers` goes through every step that could change the roles
(`WhatUndoesHandover`): by hand nobody may, for nobody has a role; the governor's
execution may when the batch grants one, and then `State` says that the proposal has
won.

The refinement needs `QueuedDecided`, that only decided proposals have a due
time; without it a block that ends a vote could seem to turn an Active proposal
into a Queued one. Then each action is shown to map to a step of the promise:
mining, voting and queueing to `Deliberate`, executing to `CarryOut`, what
happens by hand to `Intervene`, which a sovereign DAO forbids because the hand
would need a role.

Four of the theorems compare sums over the accounts. That power is delegated
balance (`Power`) is inductive once every account's power is read as the sum over
its delegators: a transfer changes one summand of each of two such sums, a change of
delegate moves one summand from a sum to another. Adding up over all delegates
(`SumFibres`) gives each holder's balance at most once, so no more power than supply;
sealing a block copies the present into the past, and with it that relation
(`PastPower`). Of a vote that has begun
`NoTokenVotesTwice` says what its tally is, the sum of the power that those who have
voted had at the snapshot, and that it is at most the supply of that block.
`BallotsCounted` is the first half with what is true before a vote begins, that there
are no ballots. A ballot adds one voter and that voter's power, and the past is
immutable; the bound follows from `PastPower`, as the sum over some accounts is at most
that over all of them.

### `FiniteSums`
`SumFunctionOnSet` is a fold, which takes the elements of a set in an order it
chooses. The lemmas show that the order does not matter, and what follows: what a sum
becomes when one summand changes (`SumUpdate`), when two change by opposite amounts
(`SumShift`), when an element is added (`SumAdd`), over a part (`SumSubset`), over a
disjoint union (`SumUnion`), and over a set divided by the value of a function
(`SumFibres`). The library's theorems of induction quantify over predicates, which
the provers here cannot instantiate; `SetInduction` and `NatInduct` state induction
for a set in the place of a predicate and follow from the well-foundedness of strict
inclusion and of the numbers.

### `BankProofs`
For any accounts, amounts and register: `[]TypeOK` (no balance and not the ether is
overdrawn), `[]RegisterIsDense`, `[]DepositorsAreRegistered`,
`[]OwedIsEtherAndTransfers` (`BooksBalance`) and `[]LoopPaysEachOnce`
(`DissolutionPaysOnce`). `DepositorsAreRegistered` is inductive with the types: a
deposit by an account without a balance registers it, a balance that appears
otherwise was credited by a transfer, and a dissolution empties the register only
with the balances of all that are in it. For the books, each action is a change of one
or two summands, and a dissolution takes the sum over the registered accounts out of
the sum over all. The loop of `dissolveBank` needs an induction over the places in the
register: after `i` rounds (`After`) those entered at the first `i` places are at zero
and have been paid once, even where the register names an account several times.

### `ItemShopProofs`
`[]OwnersAddedOrPaid` and `ItemsSettleWithTheirBlock`, for any prices, payments and
size of the unit. `WholeEther` is the lemma about the division by 1 ether.

### `ScriptProofs`
The deployment script, for any number of runs, nonces and foreign transactions:

| theorem | states |
|---|---|
| `TheAddressesHoldOwnCode` | `[]AddressesHoldOwnCode` |
| `TheGrantsGoToDeployed` | `[]GrantsOnlyToDeployed` |
| `TheFinishedScriptIsWired` | `[]FinishedIsWired` |

The three look at the chain only and are not inductive: what is mined next was
already in the pool, and may have been sent by a run that was killed. `IInv` therefore
speaks of every nonce that is taken, mined or pending. `NoncesAreOwn` says that a
transaction is at its own nonce and of a run so far, which ties the receipt the script
waits for to the address it takes from it (`ReceiptIsOwn`); `GrantsAreOwn` that a grant
on its way already names the timelock and the governor of the run that sent it;
`DeploymentsMined` and `CallsMined` that what lies behind `pc` is in the chain. Mining
moves a transaction from the pool to the chain and changes nothing of the first two.
"Wired" is what `FinishedIsWired` says; what code is behind the governor's address is
the subject of section 6.

The diagnostics, for any checks, any number of retries and both modes:
`[]SummaryMeansAllReported`, `ReportsEndWithScript` and `AnswerIsFinal`. The invariant
`DInv` adds what lies behind the script (`Behind`: in sequence the checks that
returned, in parallel the jobs whose wait succeeded), that only a job ended by errexit
exits without its line (`LinesTold`), which makes the wait for it fail, and that
`cleanup` leaves nobody who could still report (`Cleaned`), only requests of killed jobs
that go on and log.

### `StorageClientsProofs`
`[]ContractIsOwn` and `[]PrintsOwn` for any number of
programs. Neither is inductive: that nobody prints another's message needs to know
that every call of `store` on the account goes to its sender's contract
(`CallsGoHome`), which so holds nothing or its owner's message (`MessagesAtHome`);
that a client that waited finds its message needs `CallsTakeEffect`, that a call that
is on chain and had the gas has left its message, and `Progress`, what each place of a
program says of its transactions.

### `BindingsProofs`
`[]ValuesAreOfTheMethod`, `[]ErrorsAreNamedTruly` and `[]EventsAreNamedTruly` for any
contracts and deployments, from what is assumed of the tables: that a selector means
one function, one key one method, and one error selector one error
(`SelectorsTellApart`, `KeysTellApart`, `ErrorsTellApart`). These are facts about
hashes that somebody must check, and TLC checks them on the tables themselves. The
strengthening `Answered` says of each kind of answer where it can have come from.

### `CertDAppProofs`
`[]IssuedAsAsked`, `[]AnswersAreTrue`, `[]ListenerShowsInOrder` and
`[]ReadsFollowReceipts` for any number of requests, certificates and fees. The
first two need `JobInv`, what each stage of a request knows of its transaction
(one that is not yet sent has none; one that waits has its nonce taken), and
`AnswerInv`; `MoveOfOne` is the lemma that a step of one request leaves what is
said of the others alone. The listener needs `PastStays`, that what is in a block is
never replaced, and that while the connection lasts nothing is missing between
what was shown, what is on its way and the end of the chain. A reader remembers the
requests that were answered when it asked (`known`): each is over and its transaction
stays in its block (`Settled`), so what is stored under its number was written by it or
by a later one (`Follows`); the last writer, whose certificate is read, exists because
a set of numbers with a bound has a maximum (`Maximum`).

### What is only model-checked
Liveness, which is out of the prover's reach: `WinnersAreCarriedOut` in
`dao_timelock`, `ScriptEnds` in `deployer`, `ClientsEnd` in `storage_clients`,
`RequestsAreAnswered` in `dapp`, `AlwaysEnds` and `SequentialReachesSummary` in
`diagnostics`; and the three counterexamples of section 6, with the `Scanner`
that serves nothing else. That the tables of the bindings fulfil what is assumed of
them is TLC's to evaluate.

## 6. Disagreements found

**The governor that is deployed is Cert.** `deployer.go` announces at line 178 "Deploy MyGovernor contract." and reports at
line 190 "MyGovernor deployed at", but line 180 passes the metadata of Cert. The
run `deployer_governor` finds it: the address holds a second Cert, whose owner is
the token's address (the first constructor argument), and the two roles are
granted to that. No error shows, for a grant accepts any address. The modules of
the DAO itself model the wiring of the tests, `MyGovernor_test.go:68`, which
deploy the governor.

**A check that fails ends the parallel diagnostics.** `eth-diagnostics.sh` says at
line 310 "Don't exit the script, continue with other checks", and in sequence it
does continue. In parallel mode errexit is in force in the background jobs: the
assignment at line 299 ends the job before its exit code is looked at, the `wait`
at line 502 fails with it, the script ends without its summary and the checks that
are still running are killed. So on a node that does not know `net_listening` the
run `diagnostics_listening` finds a script that ends where line 306 would have it
print "N/A (dev node)".

**The scanner scans one tool.** `((installed++))` and `((total++))` at lines 104
and 106 of `env-scanner.sh` have exit status 1 when the counter is 0, and `set -e`
ends the script: after the first tool if it is missing, and after the first tool
if it is installed. The header at line 4 says "Checks your toolchain with style",
and the summary of lines 111 to 119 is never reached.

## 7. What is not modelled

- In the DAO: allowances, signed approvals, delegations and ballots; proposals whose
  calls go to the governor (`relay`, its settings, another timelock), to the token or
  to other contracts, and batches with more than one call of the certificates or of the
  timelock; operations with predecessors; the open executor role (the role given to the
  zero address); gas; events.
- In the bank: ether that is forced upon it by a contract that destroys itself.
- In the script: transactions that run out of gas, and a chain that drops blocks.
- In the bindings: the values of arguments and results beyond their types, and the
  ways to send a call; which errors a given function can raise.
- In the certificate application: who may issue (one account sends everything),
  other programs on that account, chains that drop blocks, the page's output when
  queries overlap, which no text promises anything about, and connecting the wallet.
- The oracle's contracts and feeders, and the GraphQL client, which the plan has not
  reached.
- What has no behaviour of its own: the compile script reads, compiles and writes;
  the DAO's page and the WalletConnect example display; the PoS directory configures
  somebody else's node.
